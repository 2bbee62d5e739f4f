------------------------------ MODULE RoomHub ------------------------------
(***************************************************************************)
(* The in-process WebSocket hub (internal/realtime/hub.go), for the rooms  *)
(* of one name: rooms of different names share nothing but h.mu.           *)
(*                                                                         *)
(* A client is one connection.  Three goroutines serve it: the upgrade     *)
(* handler that runs Hub.Add, its readPump and its writePump.  An action   *)
(* is what one of them does while it holds h.mu or the room's mutex.  The  *)
(* room object a client was put in is not always the one the hub holds.    *)
(***************************************************************************)
EXTENDS Naturals, Sequences

CONSTANTS
  Clients,
  Talkers,   \* clients whose peers send messages
  Fragile,   \* clients whose connection may break
  Buffer,    \* sendBufferSize
  MaxSends   \* bound on messages the peers send

ASSUME HubAssumption ==
  /\ Talkers \cup Fragile \subseteq Clients /\ {"hub", "nobody"} \cap Clients = {}
  /\ Buffer \in Nat \ {0} /\ MaxSends \in Nat

NoRoom == 0

VARIABLES
  hubRoom,   \* h.rooms[name]: a room object, or NoRoom
  rooms,     \* the clients of each room object, in order of creation
  roomOf,    \* Client.room
  adding,    \* progress of Hub.Add
  reader,    \* progress of readPump and its deferred remove
  writer,    \* progress of writePump
  conn,      \* connections that are open
  queue,     \* the buffered channel Client.send
  closes,    \* how often that channel was closed
  reading,   \* the message a readPump has handed to onMessage and not relayed
  seen,      \* last message of each sender written to each client's socket
  sends

joining == <<hubRoom, roomOf, adding>>
hubVars    == <<joining, rooms, reader, writer, conn, queue, closes, reading, seen, sends>>

Presence == [from |-> "hub", n |-> 0]
Message  == [from : Clients, n : 1..MaxSends]
NoMessage  == [from |-> "nobody", n |-> 0]

HubInit ==
  /\ hubRoom = NoRoom /\ rooms = <<>>
  /\ roomOf = [c \in Clients |-> NoRoom]
  /\ adding = [c \in Clients |-> "new"]
  /\ reader = [c \in Clients |-> "off"]
  /\ writer = [c \in Clients |-> "off"]
  /\ conn = Clients
  /\ queue = [c \in Clients |-> <<>>]
  /\ closes = [c \in Clients |-> 0]
  /\ reading = [c \in Clients |-> NoMessage]
  /\ seen = [c \in Clients |-> [s \in Clients |-> 0]]
  /\ sends = 0

-----------------------------------------------------------------------------
(* broadcast and broadcastExcept: a client with a full buffer is dropped.  *)

Full(c) == Len(queue[c]) = Buffer

Broadcast(r, to, msg) ==
  /\ queue' = [c \in Clients |-> IF c \in to /\ ~Full(c) THEN Append(queue[c], msg) ELSE queue[c]]
  /\ closes' = [c \in Clients |-> IF c \in to /\ Full(c) THEN closes[c] + 1 ELSE closes[c]]
  /\ rooms' = [rooms EXCEPT ![r] = @ \ {c \in to : Full(c)}]

BroadcastPresence(r) == Broadcast(r, rooms[r], Presence)

-----------------------------------------------------------------------------
(* Hub.Add                                                                 *)

FindRoom(c) ==
  /\ adding[c] = "new"
  /\ IF hubRoom = NoRoom
     THEN rooms' = Append(rooms, {}) /\ hubRoom' = Len(rooms')
     ELSE UNCHANGED <<rooms, hubRoom>>
  /\ roomOf' = [roomOf EXCEPT ![c] = hubRoom']
  /\ adding' = [adding EXCEPT ![c] = "found"]
  /\ UNCHANGED <<reader, writer, conn, queue, closes, reading, seen, sends>>

Enter(c) ==
  /\ adding[c] = "found"
  /\ rooms' = [rooms EXCEPT ![roomOf[c]] = @ \cup {c}]
  /\ adding' = [adding EXCEPT ![c] = "announcing"]
  /\ reader' = [reader EXCEPT ![c] = "reading"]
  /\ writer' = [writer EXCEPT ![c] = "writing"]
  /\ UNCHANGED <<hubRoom, roomOf, conn, queue, closes, reading, seen, sends>>

Announce(c) ==
  /\ adding[c] = "announcing"
  /\ BroadcastPresence(roomOf[c])
  /\ adding' = [adding EXCEPT ![c] = "added"]
  /\ UNCHANGED <<hubRoom, roomOf, reader, writer, conn, reading, seen, sends>>

-----------------------------------------------------------------------------
(* readPump                                                                *)

\* A message arrives and is handed to onMessage (see BoardCoordinator).
Receive(c) ==
  /\ c \in Talkers /\ reader[c] = "reading" /\ c \in conn
  /\ sends < MaxSends
  /\ sends' = sends + 1
  /\ reading' = [reading EXCEPT ![c] = [from |-> c, n |-> sends']]
  /\ reader' = [reader EXCEPT ![c] = "relaying"]
  /\ UNCHANGED <<joining, rooms, writer, conn, queue, closes, seen>>

Relay(c) ==
  /\ reader[c] = "relaying"
  /\ Broadcast(roomOf[c], rooms[roomOf[c]] \ {c}, reading[c])
  /\ reading' = [reading EXCEPT ![c] = NoMessage]
  /\ reader' = [reader EXCEPT ![c] = "reading"]
  /\ UNCHANGED <<joining, writer, conn, seen, sends>>

ReaderStops(c) ==
  /\ reader' = [reader EXCEPT ![c] = "removing"]
  /\ conn' = conn \ {c}
  /\ UNCHANGED <<joining, rooms, writer, queue, closes, reading, seen, sends>>

\* ReadMessage returns an error: the server side closed the connection, or
\* the peer left, the network failed or no pong came in time.
ReadFails(c) == reader[c] = "reading" /\ c \notin conn /\ ReaderStops(c)
PeerLeaves(c) == c \in Fragile /\ reader[c] = "reading" /\ c \in conn /\ ReaderStops(c)

\* faulty variant: the channel is closed whether or not it was already
RemoveAlwaysCloses(c) ==
  /\ reader[c] = "removing"
  /\ rooms' = [rooms EXCEPT ![roomOf[c]] = @ \ {c}]
  /\ closes' = [closes EXCEPT ![c] = @ + 1]
  /\ reader' = [reader EXCEPT ![c] = IF rooms'[roomOf[c]] = {} THEN "emptied" ELSE "leaving"]
  /\ UNCHANGED <<joining, writer, conn, queue, reading, seen, sends>>

\* Hub.remove under the room's mutex
Remove(c) ==
  /\ reader[c] = "removing"
  /\ rooms' = [rooms EXCEPT ![roomOf[c]] = @ \ {c}]
  /\ closes' = IF c \in rooms[roomOf[c]] THEN [closes EXCEPT ![c] = @ + 1] ELSE closes
  /\ reader' = [reader EXCEPT ![c] = IF rooms'[roomOf[c]] = {} THEN "emptied" ELSE "leaving"]
  /\ UNCHANGED <<joining, writer, conn, queue, reading, seen, sends>>

\* Hub.remove under h.mu, which deletes whatever room has the name by now
ForgetRoom(c) ==
  /\ reader[c] = "emptied"
  /\ hubRoom' = NoRoom
  /\ reader' = [reader EXCEPT ![c] = "done"]
  /\ conn' = conn \ {c}
  /\ UNCHANGED <<roomOf, adding, rooms, writer, queue, closes, reading, seen, sends>>

AnnounceLeft(c) ==
  /\ reader[c] = "leaving"
  /\ BroadcastPresence(roomOf[c])
  /\ reader' = [reader EXCEPT ![c] = "done"]
  /\ conn' = conn \ {c}
  /\ UNCHANGED <<joining, writer, reading, seen, sends>>

-----------------------------------------------------------------------------
(* writePump                                                               *)

\* faulty variant: the newest message is written first
WriteNewest(c) ==
  /\ writer[c] = "writing" /\ c \in conn
  /\ queue[c] # <<>>
  /\ LET last == Len(queue[c])
         msg  == queue[c][last]
     IN  /\ queue' = [queue EXCEPT ![c] = SubSeq(@, 1, last - 1)]
         /\ seen' = IF msg.from \in Clients THEN [seen EXCEPT ![c][msg.from] = msg.n] ELSE seen
  /\ UNCHANGED <<joining, rooms, reader, writer, conn, closes, reading, sends>>

Write(c) ==
  /\ writer[c] = "writing" /\ c \in conn
  /\ queue[c] # <<>>
  /\ queue' = [queue EXCEPT ![c] = Tail(@)]
  /\ LET msg == Head(queue[c])
     IN  seen' = IF msg.from \in Clients THEN [seen EXCEPT ![c][msg.from] = msg.n] ELSE seen
  /\ UNCHANGED <<joining, rooms, reader, writer, conn, closes, reading, sends>>

WriterStops(c) ==
  /\ writer' = [writer EXCEPT ![c] = "done"]
  /\ conn' = conn \ {c}
  /\ UNCHANGED <<joining, rooms, reader, queue, closes, reading, seen, sends>>

\* faulty variant: the connection of a dropped consumer is left open
WriterEndsQuietly(c) ==
  /\ writer[c] = "writing"
  /\ (queue[c] = <<>> /\ closes[c] > 0) \/ c \notin conn
  /\ writer' = [writer EXCEPT ![c] = "done"]
  /\ UNCHANGED <<joining, rooms, reader, conn, queue, closes, reading, seen, sends>>

\* The channel is drained and closed, or the connection is closed already.
WriterEnds(c) ==
  /\ writer[c] = "writing"
  /\ (queue[c] = <<>> /\ closes[c] > 0) \/ c \notin conn
  /\ WriterStops(c)

\* A message or a ping cannot be written.
WriteFails(c) == c \in Fragile /\ writer[c] = "writing" /\ c \in conn /\ WriterStops(c)

-----------------------------------------------------------------------------
Add(c)       == FindRoom(c) \/ Enter(c) \/ Announce(c)
ReadPump(c)  == Relay(c) \/ ReadFails(c) \/ Remove(c) \/ ForgetRoom(c) \/ AnnounceLeft(c)
WritePump(c) == Write(c) \/ WriterEnds(c)

HubNext == \E c \in Clients : \/ Add(c) \/ Receive(c) \/ ReadPump(c) \/ WritePump(c)
                         \/ PeerLeaves(c) \/ WriteFails(c)

HubSpec == HubInit /\ [][HubNext]_hubVars

\* Goroutines that can run do; a peer need not send or leave.
HubFairSpec ==
  /\ HubSpec
  /\ \A c \in Clients : /\ WF_hubVars(adding[c] # "new" /\ Add(c))
                        /\ WF_hubVars(ReadPump(c)) /\ WF_hubVars(WritePump(c))

-----------------------------------------------------------------------------
(* Properties                                                              *)

(* Rooms, goroutines, buffers and messages have the shapes above.          *)
HubTypeOK ==
  /\ rooms \in Seq(SUBSET Clients) /\ hubRoom \in 0..Len(rooms)
  /\ roomOf \in [Clients -> 0..Len(rooms)]
  /\ adding \in [Clients -> {"new", "found", "announcing", "added"}]
  /\ reader \in [Clients -> {"off", "reading", "relaying", "removing", "emptied",
                             "leaving", "done"}]
  /\ writer \in [Clients -> {"off", "writing", "done"}]
  /\ conn \subseteq Clients
  /\ queue \in [Clients -> Seq({Presence} \cup Message)]
  /\ \A c \in Clients : Len(queue[c]) <= Buffer
  /\ closes \in [Clients -> Nat]
  /\ reading \in [Clients -> {NoMessage} \cup Message]
  /\ seen \in [Clients -> [Clients -> 0..MaxSends]]
  /\ sends \in 0..MaxSends

(* Nothing is sent on a closed channel and no channel is closed twice,     *)
(* either of which would panic the whole server: a client is dropped by    *)
(* broadcasts of several goroutines and removed by its own readPump.       *)
SendChannelsSafe ==
  /\ \A c \in Clients : closes[c] <= 1
  /\ \A r \in DOMAIN rooms : \A c \in rooms[r] : closes[c] = 0 /\ roomOf[c] = r

(* A client sees the messages of each other client in the order they were  *)
(* received, each at most once, and never its own.                         *)
RelayedInOrder ==
  \A c, s \in Clients :
    /\ \A i \in DOMAIN queue[c] : queue[c][i].from = s =>
         /\ c # s /\ queue[c][i].n > seen[c][s]
         /\ \A j \in 1..(i - 1) : queue[c][j].from = s => queue[c][j].n < queue[c][i].n
    /\ seen[c][c] = 0

(* The hub keeps no empty room, unless a client is about to enter it or is *)
(* on its way out of a room: rooms do not pile up in memory.               *)
EmptyRoomsGo ==
  hubRoom # NoRoom /\ rooms[hubRoom] = {} =>
    \E c \in Clients : /\ roomOf[c] = hubRoom
                       /\ adding[c] = "found" \/ reader[c] \in {"reading", "relaying", "removing", "emptied"}

(* A connection that breaks is taken out of its room in the end, and so is *)
(* a consumer that was dropped for being slow.                             *)
BrokenIsRemoved ==
  \A c \in Clients :
    (reader[c] # "off" /\ (c \notin conn \/ closes[c] > 0)) ~>
      (reader[c] = "done" /\ \A r \in DOMAIN rooms : c \notin rooms[r])

=============================================================================

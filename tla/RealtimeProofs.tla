---------------------------- MODULE RealtimeProofs ----------------------------
(***************************************************************************)
(* Theorems about the realtime hub and the board coordinator behind it.    *)
(* RoomHub, for any number of clients and any buffer size: no send channel *)
(* is closed twice or written after it was closed, the hub keeps no empty  *)
(* room without somebody who will fill or forget it, and messages are      *)
(* relayed in order.  BoardCoordinator, for any number of ops and          *)
(* failures: what the board's row holds against the memory and the         *)
(* versions saved of it.                                                   *)
(***************************************************************************)
EXTENDS RoomHub, BoardCoordinator, RowLemmas

(* Where a client is in its life decides what it may be a member of.       *)
Lives ==
  \A c \in Clients :
    /\ adding[c] # "new" => roomOf[c] \in DOMAIN rooms
    /\ reader[c] = "off" <=> adding[c] \in {"new", "found"}
    /\ reader[c] = "off" => closes[c] = 0
    /\ \A r \in DOMAIN rooms :
         c \in rooms[r] => reader[c] \in {"reading", "relaying", "removing"}
    /\ reading[c] # NoMessage <=> reader[c] = "relaying"

HubInv == HubTypeOK /\ SendChannelsSafe /\ Lives /\ EmptyRoomsGo

LEMMA HubStarts == HubInit => HubInv
<1> USE HubAssumption DEF HubInit
<1>1. HubInit => HubTypeOK
  BY DEF HubTypeOK, NoRoom
<1>2. HubInit => SendChannelsSafe /\ Lives /\ EmptyRoomsGo
  BY DEF SendChannelsSafe, Lives, EmptyRoomsGo
<1> QED
  BY <1>1, <1>2 DEF HubInv

-----------------------------------------------------------------------------
(* What a broadcast to members of a room changes                           *)

LEMMA BroadcastTypes ==
  ASSUME HubInv, NEW r \in DOMAIN rooms, NEW to \in SUBSET rooms[r],
         NEW msg \in {Presence} \cup Message, Broadcast(r, to, msg)
  PROVE  /\ queue' \in [Clients -> Seq({Presence} \cup Message)]
         /\ \A c \in Clients : Len(queue'[c]) <= Buffer
         /\ closes' \in [Clients -> Nat]
         /\ rooms' \in Seq(SUBSET Clients)
         /\ Len(rooms') = Len(rooms) /\ DOMAIN rooms' = DOMAIN rooms
<1> USE HubAssumption
<1> DEFINE M == {Presence} \cup Message
<1>1. \A c \in Clients : queue[c] \in Seq(M) /\ Len(queue[c]) \in Nat /\ Len(queue[c]) <= Buffer
  <2>1. ASSUME NEW c \in Clients PROVE queue[c] \in Seq(M) /\ Len(queue[c]) <= Buffer
    BY DEF HubInv, HubTypeOK
  <2> QED
    BY <2>1, LenProperties
<1>2. ASSUME NEW c \in Clients
      PROVE  queue'[c] \in Seq(M) /\ Len(queue'[c]) <= Buffer
  <2>1. CASE c \in to /\ ~Full(c)
    <3>1. queue'[c] = Append(queue[c], msg)
      BY <2>1 DEF Broadcast
    <3>2. Append(queue[c], msg) \in Seq(M) /\ Len(Append(queue[c], msg)) = Len(queue[c]) + 1
      BY <1>1, SeqAppend
    <3>3. Len(queue[c]) # Buffer
      BY <2>1 DEF Full
    <3> QED
      BY <1>1, <3>1, <3>2, <3>3
  <2>2. CASE ~(c \in to /\ ~Full(c))
    <3>1. queue'[c] = queue[c]
      BY <2>2 DEF Broadcast
    <3> QED
      BY <1>1, <3>1
  <2> QED
    BY <2>1, <2>2
<1>3. queue' = [c \in Clients |-> queue'[c]]
  BY DEF Broadcast
<1>4. closes' \in [Clients -> Nat]
  BY DEF Broadcast, HubInv, HubTypeOK
<1>5. rooms \in Seq(SUBSET Clients) /\ rooms[r] \in SUBSET Clients
  BY DEF HubInv, HubTypeOK
<1>6. rooms[r] \ {c \in to : Full(c)} \in SUBSET Clients
  BY <1>5
<1>7. /\ rooms' \in Seq(SUBSET Clients)
      /\ Len(rooms') = Len(rooms) /\ DOMAIN rooms' = DOMAIN rooms
  BY <1>5, <1>6, SeqExcept DEF Broadcast
<1> QED
  BY <1>2, <1>3, <1>4, <1>7

LEMMA BroadcastSafe ==
  ASSUME HubInv, NEW r \in DOMAIN rooms, NEW to \in SUBSET rooms[r],
         NEW msg \in {Presence} \cup Message, Broadcast(r, to, msg)
  PROVE  /\ \A c \in Clients : closes'[c] <= 1
         /\ \A s \in DOMAIN rooms : rooms'[s] \subseteq rooms[s]
         /\ \A s \in DOMAIN rooms : \A c \in rooms'[s] : closes'[c] = 0
         /\ \A c \in Clients : closes'[c] # closes[c] => c \in rooms[r]
  BY DEF Broadcast, HubInv, HubTypeOK, SendChannelsSafe
-----------------------------------------------------------------------------
(* The invariant is preserved                                              *)

\* A broadcast by a goroutine whose own progress is all else that changes.
LEMMA BroadcastKeeps ==
  ASSUME HubInv, NEW r \in DOMAIN rooms, NEW to \in SUBSET rooms[r],
         NEW msg \in {Presence} \cup Message, Broadcast(r, to, msg),
         UNCHANGED <<hubRoom, roomOf>>,
         \A c \in Clients :
           /\ adding'[c] # adding[c] => adding[c] = "announcing" /\ adding'[c] = "added"
           /\ reader'[c] # reader[c] => \/ reader[c] = "relaying" /\ reader'[c] = "reading"
                                        \/ reader[c] = "leaving" /\ reader'[c] = "done"
           /\ reading'[c] # NoMessage <=> reader'[c] = "relaying"
  PROVE  SendChannelsSafe' /\ Lives' /\ EmptyRoomsGo'
<1>1. DOMAIN rooms' = DOMAIN rooms
  BY BroadcastTypes
<1>2. /\ \A c \in Clients : closes'[c] <= 1
      /\ \A s \in DOMAIN rooms : rooms'[s] \subseteq rooms[s]
      /\ \A s \in DOMAIN rooms : \A c \in rooms'[s] : closes'[c] = 0
      /\ \A c \in Clients : closes'[c] # closes[c] => c \in rooms[r]
  BY BroadcastSafe
<1>3. SendChannelsSafe'
  BY <1>1, <1>2 DEF HubInv, SendChannelsSafe, HubTypeOK
<1>4. Lives'
  BY <1>1, <1>2 DEF HubInv, Lives, HubTypeOK
<1>5. ASSUME hubRoom # NoRoom, rooms'[hubRoom] = {}
      PROVE  \E c \in Clients :
               /\ roomOf[c] = hubRoom
               /\ adding'[c] = "found" \/ reader'[c] \in {"reading", "relaying", "removing", "emptied"}
  <2>1. hubRoom \in DOMAIN rooms
    BY <1>5, LenProperties DEF HubInv, HubTypeOK, NoRoom
  <2>2. CASE rooms[hubRoom] = {}
    BY <1>5, <2>2 DEF HubInv, EmptyRoomsGo
  <2>3. CASE rooms[hubRoom] # {}
    <3>1. PICK c \in rooms[hubRoom] : TRUE
      BY <2>3
    <3>2. c \in Clients /\ roomOf[c] = hubRoom
      BY <2>1, <3>1 DEF HubInv, HubTypeOK, SendChannelsSafe
    <3>3. reader[c] \in {"reading", "relaying", "removing"}
      BY <2>1, <3>1, <3>2 DEF HubInv, Lives
    <3> QED
      BY <3>2, <3>3
  <2> QED
    BY <2>2, <2>3
<1> QED
  BY <1>3, <1>4, <1>5 DEF EmptyRoomsGo

LEMMA HubStepKeeps == HubInv /\ [HubNext]_hubVars => HubInv'
<1> SUFFICES ASSUME HubInv, [HubNext]_hubVars PROVE HubInv'
  OBVIOUS
<1> USE HubAssumption
<1> DEFINE M == {Presence} \cup Message
<1>r. ASSUME NEW c \in Clients, adding[c] # "new" PROVE roomOf[c] \in DOMAIN rooms
  BY <1>r DEF HubInv, Lives
<1>1. ASSUME NEW c \in Clients, FindRoom(c) PROVE HubInv'
  <2>1. rooms \in Seq(SUBSET Clients) /\ hubRoom \in 0..Len(rooms) /\ Len(rooms) \in Nat
    BY LenProperties DEF HubInv, HubTypeOK
  <2>2. /\ rooms' \in Seq(SUBSET Clients)
        /\ hubRoom' \in DOMAIN rooms' /\ hubRoom' # NoRoom /\ Len(rooms') >= Len(rooms)
        /\ DOMAIN rooms \subseteq DOMAIN rooms' /\ Len(rooms') \in Nat
        /\ \A s \in DOMAIN rooms : rooms'[s] = rooms[s]
        /\ \A s \in DOMAIN rooms' \ DOMAIN rooms : rooms'[s] = {}
    <3>1. CASE hubRoom = NoRoom
      <4>1. rooms' = Append(rooms, {}) /\ hubRoom' = Len(rooms')
        BY <1>1, <3>1 DEF FindRoom
      <4> QED
        BY <2>1, <4>1, SeqAppend DEF NoRoom
    <3>2. CASE hubRoom # NoRoom
      BY <1>1, <2>1, <3>2, LenProperties DEF FindRoom, NoRoom
    <3> QED
      BY <3>1, <3>2
  <2>3. HubTypeOK'
    <3>1. roomOf' \in [Clients -> 0..Len(rooms')]
      <4>1. 0..Len(rooms) \subseteq 0..Len(rooms') /\ hubRoom' \in 0..Len(rooms')
        BY <2>1, <2>2, LenProperties
      <4> QED
        BY <1>1, <4>1 DEF FindRoom, HubInv, HubTypeOK
    <3>2. hubRoom' \in 0..Len(rooms')
      BY <2>2, LenProperties
    <3>3. adding' \in [Clients -> {"new", "found", "announcing", "added"}]
      BY <1>1 DEF FindRoom, HubInv, HubTypeOK
    <3> QED
      BY <1>1, <2>2, <3>1, <3>2, <3>3 DEF FindRoom, HubInv, HubTypeOK
  <2>4. SendChannelsSafe'
    <3>1. \A s \in DOMAIN rooms : c \notin rooms[s]
      BY <1>1 DEF FindRoom, HubInv, Lives
    <3>2. ASSUME NEW s \in DOMAIN rooms', NEW d \in rooms'[s]
          PROVE  closes'[d] = 0 /\ roomOf'[d] = s
      <4>1. s \in DOMAIN rooms /\ d \in rooms[s] /\ d # c
        BY <2>2, <3>1, <3>2
      <4>2. d \in Clients /\ closes[d] = 0 /\ roomOf[d] = s
        BY <4>1 DEF HubInv, HubTypeOK, SendChannelsSafe
      <4> QED
        BY <1>1, <4>1, <4>2 DEF FindRoom, HubInv, HubTypeOK
    <3> QED
      BY <1>1, <3>2 DEF FindRoom, HubInv, SendChannelsSafe
  <2>5. Lives'
    BY <1>1, <2>2 DEF FindRoom, HubInv, HubTypeOK, Lives
  <2>6. EmptyRoomsGo'
    BY <1>1, <2>2 DEF FindRoom, HubInv, HubTypeOK, EmptyRoomsGo
  <2> QED
    BY <2>3, <2>4, <2>5, <2>6 DEF HubInv
<1>2. ASSUME NEW c \in Clients, Enter(c) PROVE HubInv'
  <2>1. roomOf[c] \in DOMAIN rooms /\ closes[c] = 0 /\ reader[c] = "off"
    BY <1>2 DEF Enter, HubInv, Lives
  <2>2. rooms \in Seq(SUBSET Clients) /\ rooms[roomOf[c]] \cup {c} \in SUBSET Clients
    BY <2>1 DEF HubInv, HubTypeOK
  <2>3. /\ rooms' \in Seq(SUBSET Clients) /\ DOMAIN rooms' = DOMAIN rooms
        /\ Len(rooms') = Len(rooms)
        /\ \A s \in DOMAIN rooms : rooms'[s] = IF s = roomOf[c] THEN rooms[s] \cup {c} ELSE rooms[s]
    BY <1>2, <2>1, <2>2, SeqExcept, LenProperties DEF Enter
  <2>4. HubTypeOK'
    BY <1>2, <2>3 DEF Enter, HubInv, HubTypeOK
  <2>5. SendChannelsSafe'
    BY <1>2, <2>1, <2>3 DEF Enter, HubInv, HubTypeOK, SendChannelsSafe
  <2>6. Lives'
    BY <1>2, <2>1, <2>3 DEF Enter, HubInv, HubTypeOK, Lives
  <2>7. EmptyRoomsGo'
    <3>1. hubRoom # NoRoom => hubRoom \in DOMAIN rooms
      BY LenProperties DEF HubInv, HubTypeOK, NoRoom
    <3> QED
      BY <1>2, <2>1, <2>3, <3>1 DEF Enter, HubInv, HubTypeOK, EmptyRoomsGo
  <2> QED
    BY <2>4, <2>5, <2>6, <2>7 DEF HubInv
<1>3. ASSUME NEW c \in Clients, Announce(c) PROVE HubInv'
  <2>1. roomOf[c] \in DOMAIN rooms
    BY <1>3, <1>r DEF Announce
  <2>2. Broadcast(roomOf[c], rooms[roomOf[c]], Presence)
    BY <1>3 DEF Announce, BroadcastPresence
  <2>3. HubTypeOK'
    BY <1>3, <2>1, <2>2, BroadcastTypes DEF Announce, HubInv, HubTypeOK
  <2>4. SendChannelsSafe' /\ Lives' /\ EmptyRoomsGo'
    <3>1. \A d \in Clients :
            /\ adding'[d] # adding[d] => adding[d] = "announcing" /\ adding'[d] = "added"
            /\ reader'[d] = reader[d] /\ reading'[d] = reading[d]
      BY <1>3 DEF Announce, HubInv, HubTypeOK
    <3>2. \A d \in Clients : reading[d] # NoMessage <=> reader[d] = "relaying"
      BY DEF HubInv, Lives
    <3> QED
      BY <1>3, <2>1, <2>2, <3>1, <3>2, BroadcastKeeps DEF Announce
  <2> QED
    BY <2>3, <2>4 DEF HubInv
<1>4. ASSUME NEW c \in Clients, Receive(c) PROVE HubInv'
  <2>1. HubTypeOK'
    <3>1. sends' \in 0..MaxSends /\ [from |-> c, n |-> sends'] \in Message
      BY <1>4 DEF Receive, HubInv, HubTypeOK, Message
    <3> QED
      BY <1>4, <3>1 DEF Receive, joining, HubInv, HubTypeOK
  <2>2. [from |-> c, n |-> sends'] # NoMessage
    BY <1>4 DEF NoMessage, Receive, HubInv, HubTypeOK
  <2>3. SendChannelsSafe' /\ EmptyRoomsGo'
    BY <1>4 DEF Receive, joining, HubInv, HubTypeOK, SendChannelsSafe, EmptyRoomsGo
  <2>4. Lives'
    BY <1>4, <2>2 DEF Receive, joining, HubInv, HubTypeOK, Lives
  <2> QED
    BY <2>1, <2>3, <2>4 DEF HubInv
<1>5. ASSUME NEW c \in Clients, Relay(c) PROVE HubInv'
  <2>1. roomOf[c] \in DOMAIN rooms /\ reading[c] \in Message
    BY <1>5, <1>r DEF Relay, HubInv, HubTypeOK, Lives
  <2>2. Broadcast(roomOf[c], rooms[roomOf[c]] \ {c}, reading[c])
    BY <1>5 DEF Relay
  <2>3. HubTypeOK'
    BY <1>5, <2>1, <2>2, BroadcastTypes DEF Relay, joining, HubInv, HubTypeOK
  <2>4. SendChannelsSafe' /\ Lives' /\ EmptyRoomsGo'
    <3>1. \A d \in Clients :
            /\ adding'[d] = adding[d]
            /\ reader'[d] # reader[d] => reader[d] = "relaying" /\ reader'[d] = "reading"
            /\ reading'[d] # NoMessage <=> reader'[d] = "relaying"
      BY <1>5 DEF Relay, joining, HubInv, HubTypeOK, Lives
    <3> QED
      BY <1>5, <2>1, <2>2, <3>1, BroadcastKeeps DEF Relay, joining
  <2> QED
    BY <2>3, <2>4 DEF HubInv
<1>6. ASSUME NEW c \in Clients, ReadFails(c) \/ PeerLeaves(c) PROVE HubInv'
  <2>1. HubTypeOK'
    BY <1>6 DEF ReadFails, PeerLeaves, ReaderStops, joining, HubInv, HubTypeOK
  <2>2. SendChannelsSafe'
    BY <1>6 DEF ReadFails, PeerLeaves, ReaderStops, joining, HubInv, SendChannelsSafe
  <2>3. Lives'
    <3>1. /\ rooms' = rooms /\ roomOf' = roomOf /\ adding' = adding /\ closes' = closes /\ reading' = reading
          /\ reader' = [reader EXCEPT ![c] = "removing"] /\ reader[c] = "reading"
      BY <1>6 DEF ReadFails, PeerLeaves, ReaderStops, joining
    <3> QED
      BY <3>1 DEF HubInv, HubTypeOK, Lives
  <2>4. EmptyRoomsGo'
    BY <1>6 DEF ReadFails, PeerLeaves, ReaderStops, joining, HubInv, HubTypeOK, EmptyRoomsGo
  <2> QED
    BY <2>1, <2>2, <2>3, <2>4 DEF HubInv
<1>7. ASSUME NEW c \in Clients, Remove(c) PROVE HubInv'
  <2>1. roomOf[c] \in DOMAIN rooms
    BY <1>7, <1>r DEF Remove, HubInv, Lives
  <2>2. rooms \in Seq(SUBSET Clients) /\ rooms[roomOf[c]] \ {c} \in SUBSET Clients
    BY <2>1 DEF HubInv, HubTypeOK
  <2>3. /\ rooms' \in Seq(SUBSET Clients) /\ DOMAIN rooms' = DOMAIN rooms
        /\ Len(rooms') = Len(rooms)
        /\ \A s \in DOMAIN rooms : rooms'[s] = IF s = roomOf[c] THEN rooms[s] \ {c} ELSE rooms[s]
    BY <1>7, <2>1, <2>2, SeqExcept, LenProperties DEF Remove
  <2>4. HubTypeOK'
    <3>1. closes' \in [Clients -> Nat]
      BY <1>7 DEF Remove, HubInv, HubTypeOK
    <3>2. reader' \in [Clients -> {"off", "reading", "relaying", "removing", "emptied",
                                    "leaving", "done"}]
      BY <1>7 DEF Remove, HubInv, HubTypeOK
    <3>3. /\ hubRoom' = hubRoom /\ roomOf' = roomOf /\ adding' = adding /\ writer' = writer
          /\ conn' = conn /\ queue' = queue /\ reading' = reading /\ seen' = seen /\ sends' = sends
      BY <1>7 DEF Remove, joining
    <3> QED
      BY <2>3, <3>1, <3>2, <3>3 DEF HubInv, HubTypeOK
  <2>5. SendChannelsSafe'
    <3>1. closes' = IF c \in rooms[roomOf[c]] THEN [closes EXCEPT ![c] = @ + 1] ELSE closes
      BY <1>7 DEF Remove
    <3>2. \A d \in Clients : closes'[d] = IF d = c /\ c \in rooms[roomOf[c]] THEN closes[d] + 1 ELSE closes[d]
      BY <3>1 DEF HubInv, HubTypeOK
    <3>3. roomOf' = roomOf
      BY <1>7 DEF Remove, joining
    <3>4. c \in rooms[roomOf[c]] => closes[c] = 0
      BY <2>1 DEF HubInv, SendChannelsSafe
    <3>5. \A d \in Clients : closes'[d] <= 1
      BY <3>2, <3>4 DEF HubInv, SendChannelsSafe
    <3>6. ASSUME NEW s \in DOMAIN rooms, NEW d \in rooms'[s] PROVE closes'[d] = 0 /\ roomOf'[d] = s
      <4>1. d \in rooms[s] /\ ~(s = roomOf[c] /\ d = c)
        BY <2>3, <3>6
      <4>2. d \in Clients /\ closes[d] = 0 /\ roomOf[d] = s
        BY <3>6, <4>1, ElementOfSeq DEF HubInv, HubTypeOK, SendChannelsSafe
      <4> QED
        BY <3>2, <3>3, <4>1, <4>2
    <3> QED
      BY <2>3, <3>5, <3>6 DEF SendChannelsSafe
  <2>6. Lives'
    <3>1. /\ roomOf' = roomOf /\ adding' = adding /\ reading' = reading
          /\ reader[c] = "removing" /\ reader'[c] \in {"emptied", "leaving"}
          /\ \A d \in Clients \ {c} : reader'[d] = reader[d] /\ closes'[d] = closes[d]
      BY <1>7 DEF Remove, joining, HubInv, HubTypeOK
    <3>2. ASSUME NEW d \in Clients, NEW s \in DOMAIN rooms, d \in rooms'[s]
          PROVE  d # c /\ d \in rooms[s]
      BY <2>3, <3>2 DEF HubInv, SendChannelsSafe
    <3> QED
      BY <2>3, <3>1, <3>2 DEF HubInv, Lives
  <2>7. EmptyRoomsGo'
    <3>1. hubRoom # NoRoom => hubRoom \in DOMAIN rooms
      BY LenProperties DEF HubInv, HubTypeOK, NoRoom
    <3> QED
      BY <1>7, <2>1, <2>3, <3>1 DEF Remove, joining, HubInv, HubTypeOK, EmptyRoomsGo
  <2> QED
    BY <2>4, <2>5, <2>6, <2>7 DEF HubInv
<1>8. ASSUME NEW c \in Clients, ForgetRoom(c) PROVE HubInv'
  <2>1. HubTypeOK'
    BY <1>8, LenProperties DEF ForgetRoom, HubInv, HubTypeOK, NoRoom
  <2>2. SendChannelsSafe' /\ EmptyRoomsGo'
    BY <1>8 DEF ForgetRoom, HubInv, SendChannelsSafe, EmptyRoomsGo
  <2>3. Lives'
    BY <1>8 DEF ForgetRoom, HubInv, HubTypeOK, Lives
  <2> QED
    BY <2>1, <2>2, <2>3 DEF HubInv
<1>9. ASSUME NEW c \in Clients, AnnounceLeft(c) PROVE HubInv'
  <2>1. roomOf[c] \in DOMAIN rooms
    BY <1>9, <1>r DEF AnnounceLeft, HubInv, Lives
  <2>2. Broadcast(roomOf[c], rooms[roomOf[c]], Presence)
    BY <1>9 DEF AnnounceLeft, BroadcastPresence
  <2>3. HubTypeOK'
    BY <1>9, <2>1, <2>2, BroadcastTypes DEF AnnounceLeft, joining, HubInv, HubTypeOK
  <2>4. SendChannelsSafe' /\ Lives' /\ EmptyRoomsGo'
    <3>1. \A d \in Clients :
            /\ adding'[d] = adding[d]
            /\ reader'[d] # reader[d] => reader[d] = "leaving" /\ reader'[d] = "done"
            /\ reading'[d] # NoMessage <=> reader'[d] = "relaying"
      BY <1>9 DEF AnnounceLeft, joining, HubInv, HubTypeOK, Lives
    <3> QED
      BY <1>9, <2>1, <2>2, <3>1, BroadcastKeeps DEF AnnounceLeft, joining
  <2> QED
    BY <2>3, <2>4 DEF HubInv
<1>10. ASSUME NEW c \in Clients, Write(c) PROVE HubInv'
  <2>1. queue[c] \in Seq(M) /\ queue[c] # <<>> /\ Len(queue[c]) <= Buffer
    BY <1>10 DEF Write, HubInv, HubTypeOK
  <2>2. Tail(queue[c]) \in Seq(M) /\ Len(Tail(queue[c])) <= Buffer /\ Head(queue[c]) \in M
    BY <2>1
  <2>3. seen' \in [Clients -> [Clients -> 0..MaxSends]]
    <3>1. Head(queue[c]).from \in Clients => Head(queue[c]).n \in 0..MaxSends
      BY <2>2 DEF Presence, Message
    <3> QED
      BY <1>10, <3>1 DEF Write, HubInv, HubTypeOK
  <2>4. HubTypeOK'
    BY <1>10, <2>2, <2>3 DEF Write, joining, HubInv, HubTypeOK
  <2> QED
    BY <1>10, <2>4 DEF Write, joining, HubInv, SendChannelsSafe, Lives, EmptyRoomsGo
<1>11. ASSUME NEW c \in Clients, WriterEnds(c) \/ WriteFails(c) PROVE HubInv'
  <2>1. HubTypeOK'
    BY <1>11 DEF WriterEnds, WriteFails, WriterStops, joining, HubInv, HubTypeOK
  <2>2. SendChannelsSafe'
    BY <1>11 DEF WriterEnds, WriteFails, WriterStops, joining, HubInv, SendChannelsSafe
  <2>3. Lives'
    BY <1>11 DEF WriterEnds, WriteFails, WriterStops, joining, HubInv, HubTypeOK, Lives
  <2>4. EmptyRoomsGo'
    BY <1>11 DEF WriterEnds, WriteFails, WriterStops, joining, HubInv, HubTypeOK, EmptyRoomsGo
  <2> QED
    BY <2>1, <2>2, <2>3, <2>4 DEF HubInv
<1>12. CASE UNCHANGED hubVars
  BY <1>12 DEF hubVars, joining, HubInv, HubTypeOK, SendChannelsSafe, Lives, EmptyRoomsGo
<1> QED
  BY <1>1, <1>2, <1>3, <1>4, <1>5, <1>6, <1>7, <1>8, <1>9, <1>10, <1>11, <1>12
     DEF HubNext, Add, ReadPump, WritePump

-----------------------------------------------------------------------------
(* Every variable keeps its shape and no buffer exceeds its size.          *)
THEOREM HubTypes == HubSpec => []HubTypeOK
<1>1. HubInv => HubTypeOK
  BY DEF HubInv
<1> QED
  BY HubStarts, HubStepKeeps, <1>1, PTL DEF HubSpec

(* No goroutine ever sends on a closed channel or closes one twice.        *)
THEOREM HubChannels == HubSpec => []SendChannelsSafe
<1>1. HubInv => SendChannelsSafe
  BY DEF HubInv
<1> QED
  BY HubStarts, HubStepKeeps, <1>1, PTL DEF HubSpec

(* An empty room the hub still holds has a client that will fill it or     *)
(* make the hub forget it.                                                 *)
THEOREM HubRoomsGo == HubSpec => []EmptyRoomsGo
<1>1. HubInv => EmptyRoomsGo
  BY DEF HubInv
<1> QED
  BY HubStarts, HubStepKeeps, <1>1, PTL DEF HubSpec

-----------------------------------------------------------------------------
(* Relayed messages stay in order                                          *)

(* A number that a sender's message had, and none it will have again.      *)
Used(s, n) == n <= sends /\ (reader[s] = "relaying" => n < reading[s].n)
StillUsed(s, n) == n <= sends' /\ (reader'[s] = "relaying" => n < reading'[s].n)

Ordered ==
  /\ RelayedInOrder
  /\ \A c, s \in Clients :
       /\ \A i \in DOMAIN queue[c] : queue[c][i].from = s => Used(s, queue[c][i].n)
       /\ Used(s, seen[c][s])
  /\ \A s \in Clients : reader[s] = "relaying" => reading[s].from = s /\ reading[s].n <= sends

(* Where queues and sockets stay, used numbers need only stay used.        *)
LEMMA OrderKept ==
  ASSUME HubInv, Ordered, UNCHANGED <<queue, seen>>,
         \A s \in Clients, n \in Nat : Used(s, n) => StillUsed(s, n),
         \A s \in Clients : reader'[s] = "relaying" => reading'[s].from = s /\ reading'[s].n <= sends'
  PROVE  Ordered'
<1>1. \A c, s \in Clients : seen[c][s] \in Nat
  BY HubAssumption DEF HubInv, HubTypeOK
<1>2. \A c \in Clients : \A i \in DOMAIN queue[c] : queue[c][i].n \in Nat
  BY DEF HubInv, HubTypeOK, Presence, Message
<1> QED
  BY <1>1, <1>2 DEF Ordered, RelayedInOrder, Used, StillUsed

(* No goroutine takes up a message: what was used stays so.                *)
LEMMA UsedKept ==
  ASSUME HubInv, UNCHANGED sends,
         \A s \in Clients : reader'[s] = "relaying" => reader[s] = "relaying" /\ reading'[s] = reading[s]
  PROVE  \A s \in Clients, n \in Nat : Used(s, n) => StillUsed(s, n)
BY DEF Used, StillUsed

(* A broadcast appends a presence message, or one its sender never sent.   *)
LEMMA BroadcastOrdered ==
  ASSUME HubInv, Ordered, NEW r \in DOMAIN rooms, NEW to \in SUBSET rooms[r],
         NEW msg \in {Presence} \cup Message, Broadcast(r, to, msg), UNCHANGED <<seen, sends>>,
         \A s \in Clients : reader'[s] = "relaying" => reader[s] = "relaying" /\ reading'[s] = reading[s],
         msg = Presence \/ /\ reader[msg.from] = "relaying" /\ reader'[msg.from] = "reading"
                           /\ msg = reading[msg.from] /\ msg.from \notin to
  PROVE  Ordered'
<1> USE HubAssumption
<1> DEFINE M == {Presence} \cup Message
<1>1. ASSUME NEW c \in Clients
      PROVE  /\ queue[c] \in Seq(M) /\ Len(queue[c]) \in Nat /\ DOMAIN queue[c] = 1..Len(queue[c])
             /\ queue'[c] = IF c \in to /\ ~Full(c) THEN Append(queue[c], msg) ELSE queue[c]
  BY LenProperties DEF HubInv, HubTypeOK, Broadcast
<1>q. ASSUME NEW c \in Clients, queue'[c] # queue[c]
      PROVE  /\ c \in to /\ queue'[c] = Append(queue[c], msg)
             /\ DOMAIN queue'[c] = DOMAIN queue[c] \cup {Len(queue[c]) + 1}
             /\ \A j \in DOMAIN queue[c] : queue'[c][j] = queue[c][j]
             /\ queue'[c][Len(queue[c]) + 1] = msg
  <2>1. c \in to /\ queue'[c] = Append(queue[c], msg) /\ queue[c] \in Seq(M)
    BY <1>1, <1>q
  <2> QED
    BY <2>1, SeqAppend
<1>2. ASSUME NEW c \in Clients, NEW s \in Clients, NEW i \in DOMAIN queue'[c], queue'[c][i].from = s
      PROVE  /\ c # s /\ queue'[c][i].n > seen[c][s] /\ StillUsed(s, queue'[c][i].n)
             /\ \A j \in 1..(i - 1) : queue'[c][j].from = s => queue'[c][j].n < queue'[c][i].n
  <2>1. CASE queue'[c] = queue[c]
    <3>1. queue[c][i].n \in Nat
      BY <1>1, <1>2, <2>1 DEF Presence, Message
    <3>2. StillUsed(s, queue[c][i].n)
      BY <1>2, <2>1, <3>1, UsedKept DEF Ordered
    <3> QED
      BY <1>2, <2>1, <3>2 DEF Ordered, RelayedInOrder
  <2>2. CASE queue'[c] # queue[c] /\ i \in DOMAIN queue[c]
    <3>1. queue'[c] = Append(queue[c], msg) /\ \A j \in 1..i : j \in DOMAIN queue[c] /\ queue'[c][j] = queue[c][j]
      BY <1>1, <1>q, <2>2
    <3>2. i \in Nat /\ queue'[c][i] = queue[c][i] /\ queue[c][i].n \in Nat
      BY <1>1, <2>2, <3>1 DEF Presence, Message
    <3>3. StillUsed(s, queue[c][i].n)
      BY <1>2, <2>2, <3>2, UsedKept DEF Ordered
    <3>4. c # s /\ queue[c][i].n > seen[c][s]
          /\ \A j \in 1..(i - 1) : queue[c][j].from = s => queue[c][j].n < queue[c][i].n
      BY <1>2, <2>2, <3>2 DEF Ordered, RelayedInOrder
    <3> QED
      BY <3>1, <3>2, <3>3, <3>4
  <2>3. CASE queue'[c] # queue[c] /\ i \notin DOMAIN queue[c]
    <3>1. /\ c \in to /\ queue'[c] = Append(queue[c], msg) /\ i = Len(queue[c]) + 1 /\ queue'[c][i] = msg
          /\ \A j \in 1..(i - 1) : j \in DOMAIN queue[c] /\ queue'[c][j] = queue[c][j]
      BY <1>1, <1>2, <1>q, <2>3
    <3>2. msg # Presence /\ msg.from = s
      BY <1>2, <3>1 DEF Presence
    <3>3. reader[s] = "relaying" /\ reader'[s] = "reading" /\ msg = reading[s] /\ s \notin to
      BY <3>2
    <3>4. msg.n <= sends /\ msg.n > seen[c][s] /\ \A j \in DOMAIN queue[c] : queue[c][j].from = s => queue[c][j].n < msg.n
      BY <3>2, <3>3 DEF Ordered, Used
    <3> QED
      BY <3>1, <3>3, <3>4 DEF Used, StillUsed
  <2> QED
    BY <2>1, <2>2, <2>3
<1>3. RelayedInOrder'
  BY <1>2 DEF Ordered, RelayedInOrder
<1>4. ASSUME NEW c \in Clients, NEW s \in Clients PROVE StillUsed(s, seen[c][s])
  <2>1. seen[c][s] \in Nat
    BY DEF HubInv, HubTypeOK
  <2> QED
    BY <2>1, UsedKept DEF Ordered
<1> QED
  BY <1>2, <1>3, <1>4 DEF Ordered, Used, StillUsed

(* What is written to a socket was the oldest of its sender in the queue.  *)
LEMMA WriteOrdered ==
  ASSUME HubInv, Ordered, NEW c \in Clients, Write(c)
  PROVE  Ordered'
<1> USE HubAssumption
<1> DEFINE M == {Presence} \cup Message
<1> DEFINE q == queue[c]
<1>1. q \in Seq(M) /\ q # <<>> /\ Len(q) \in Nat /\ DOMAIN q = 1..Len(q)
  BY LenProperties DEF Write, HubInv, HubTypeOK
<1>2. /\ queue'[c] = Tail(q) /\ \A d \in Clients \ {c} : queue'[d] = queue[d]
      /\ UNCHANGED <<sends, reader, reading>>
  BY DEF Write, HubInv, HubTypeOK, joining
<1>3. /\ Len(Tail(q)) = Len(q) - 1 /\ DOMAIN Tail(q) = 1..(Len(q) - 1)
      /\ \A i \in 1..(Len(q) - 1) : Tail(q)[i] = q[i + 1]
      /\ 1 \in DOMAIN q /\ Head(q) = q[1]
  BY <1>1
<1>4. ASSUME NEW d \in Clients, NEW s \in Clients
      PROVE  seen'[d][s] = IF d = c /\ Head(q).from = s THEN Head(q).n ELSE seen[d][s]
  BY DEF Write, HubInv, HubTypeOK
<1>5. ASSUME NEW d \in Clients, NEW s \in Clients, NEW i \in DOMAIN queue'[d], queue'[d][i].from = s
      PROVE  /\ d # s /\ queue'[d][i].n > seen'[d][s] /\ StillUsed(s, queue'[d][i].n)
             /\ \A j \in 1..(i - 1) : queue'[d][j].from = s => queue'[d][j].n < queue'[d][i].n
  <2>1. CASE d # c
    BY <1>2, <1>4, <1>5, <2>1 DEF Ordered, RelayedInOrder, Used, StillUsed
  <2>2. CASE d = c
    <3>0. i \in 1..(Len(q) - 1)
      BY <1>2, <1>3, <1>5, <2>2
    <3>a. i \in Nat \ {0} /\ i + 1 \in DOMAIN q /\ 1 \in 1..i
      BY <1>1, <3>0
    <3>b. Tail(q)[i] = q[i + 1]
      BY <1>3, <3>0
    <3>1. /\ i \in Nat \ {0} /\ i + 1 \in DOMAIN q /\ queue'[c][i] = q[i + 1] /\ q[i + 1].from = s
          /\ 1 \in 1..i /\ Head(q) = q[1]
      BY <1>2, <1>3, <1>5, <2>2, <3>a, <3>b
    <3>2. /\ c # s /\ q[i + 1].n > seen[c][s] /\ Used(s, q[i + 1].n)
          /\ \A j \in 1..i : q[j].from = s => q[j].n < q[i + 1].n
      BY <3>1 DEF Ordered, RelayedInOrder
    <3>3. \A j \in 1..(i - 1) : j + 1 \in 1..i /\ queue'[c][j] = q[j + 1]
      BY <1>1, <1>2, <1>3, <3>0, <3>1
    <3>4. q[i + 1].n > seen'[c][s]
      BY <1>4, <3>1, <3>2
    <3>5. StillUsed(s, q[i + 1].n)
      BY <1>2, <3>2 DEF Used, StillUsed
    <3> QED
      BY <2>2, <3>1, <3>2, <3>3, <3>4, <3>5
  <2> QED
    BY <2>1, <2>2
<1>6. ASSUME NEW d \in Clients, NEW s \in Clients PROVE StillUsed(s, seen'[d][s]) /\ seen'[d][d] = 0
  BY <1>1, <1>2, <1>3, <1>4 DEF Ordered, RelayedInOrder, Used, StillUsed
<1>7. RelayedInOrder'
  BY <1>5, <1>6 DEF RelayedInOrder
<1> QED
  BY <1>2, <1>5, <1>6, <1>7 DEF Ordered, Used, StillUsed

(* Only a broadcast, a message received and a message written matter.      *)
LEMMA OrderSteps == HubInv /\ Ordered /\ [HubNext]_hubVars => Ordered'
<1> SUFFICES ASSUME HubInv, Ordered, [HubNext]_hubVars PROVE Ordered'
  OBVIOUS
<1> USE HubAssumption
<1>r. \A s \in Clients : reader[s] = "relaying" => reading[s].from = s /\ reading[s].n <= sends
  BY DEF Ordered
<1>a. ASSUME UNCHANGED <<queue, seen, sends>>,
             \A s \in Clients : reader'[s] = "relaying" => reader[s] = "relaying" /\ reading'[s] = reading[s]
      PROVE  Ordered'
  BY <1>a, <1>r, UsedKept, OrderKept
<1>b. ASSUME NEW c \in Clients, Announce(c) \/ AnnounceLeft(c) PROVE Ordered'
  <2>1. roomOf[c] \in DOMAIN rooms /\ rooms[roomOf[c]] \in SUBSET rooms[roomOf[c]]
    BY <1>b DEF Announce, AnnounceLeft, HubInv, Lives
  <2>2. /\ Broadcast(roomOf[c], rooms[roomOf[c]], Presence) /\ UNCHANGED <<seen, sends>>
        /\ \A s \in Clients : reader'[s] = "relaying" => reader[s] = "relaying" /\ reading'[s] = reading[s]
    BY <1>b DEF Announce, AnnounceLeft, BroadcastPresence, HubInv, HubTypeOK
  <2> QED
    BY <2>1, <2>2, BroadcastOrdered
<1>c. ASSUME NEW c \in Clients, Relay(c) PROVE Ordered'
  <2>1. /\ roomOf[c] \in DOMAIN rooms /\ rooms[roomOf[c]] \ {c} \in SUBSET rooms[roomOf[c]]
        /\ reading[c] \in Message /\ reading[c].from = c
    BY <1>c, <1>r DEF Relay, HubInv, Lives, HubTypeOK
  <2>2. /\ Broadcast(roomOf[c], rooms[roomOf[c]] \ {c}, reading[c]) /\ UNCHANGED <<seen, sends>>
        /\ reader[c] = "relaying" /\ reader'[c] = "reading"
        /\ \A s \in Clients : reader'[s] = "relaying" => reader[s] = "relaying" /\ reading'[s] = reading[s]
    BY <1>c DEF Relay, HubInv, HubTypeOK
  <2> QED
    BY <2>1, <2>2, BroadcastOrdered
<1>d. ASSUME NEW c \in Clients, Receive(c) PROVE Ordered'
  <2>1. /\ sends' = sends + 1 /\ sends \in Nat /\ UNCHANGED <<queue, seen>>
        /\ \A s \in Clients : reader'[s] = "relaying" =>
              \/ s = c /\ reading'[s] = [from |-> c, n |-> sends']
              \/ reader[s] = "relaying" /\ reading'[s] = reading[s]
    BY <1>d DEF Receive, HubInv, HubTypeOK
  <2>2. \A s \in Clients, n \in Nat : Used(s, n) => StillUsed(s, n)
    BY <2>1 DEF Used, StillUsed
  <2>3. \A s \in Clients : reader'[s] = "relaying" => reading'[s].from = s /\ reading'[s].n <= sends'
    <3>1. \A s \in Clients : reading[s].n \in Nat
      BY DEF HubInv, HubTypeOK, NoMessage, Message
    <3> QED
      BY <1>r, <2>1, <3>1
  <2> QED
    BY <2>1, <2>2, <2>3, OrderKept
<1>e. ASSUME NEW c \in Clients,
             FindRoom(c) \/ Enter(c) \/ ReadFails(c) \/ Remove(c) \/ ForgetRoom(c) \/ WriterEnds(c)
             \/ PeerLeaves(c) \/ WriteFails(c)
      PROVE  Ordered'
  BY <1>a, <1>e DEF FindRoom, Enter, ReadFails, Remove, ForgetRoom, WriterEnds, PeerLeaves, WriteFails,
     ReaderStops, WriterStops, HubInv, HubTypeOK
<1>f. CASE UNCHANGED hubVars
  BY <1>a, <1>f DEF hubVars
<1> QED
  BY <1>b, <1>c, <1>d, <1>e, <1>f, WriteOrdered DEF HubNext, Add, ReadPump, WritePump

(* Every client sees the messages of each other client in the order they   *)
(* were received and none twice: for any number of clients, rooms, buffer  *)
(* sizes and dropped connections.                                          *)
THEOREM HubOrder == HubSpec => []RelayedInOrder
<1>1. HubInit => Ordered
  BY HubAssumption DEF HubInit, Ordered, RelayedInOrder, Used, StillUsed
<1>2. Ordered => RelayedInOrder
  BY DEF Ordered
<1> QED
  BY HubStarts, HubStepKeeps, OrderSteps, <1>1, <1>2, PTL DEF HubSpec

-----------------------------------------------------------------------------
(* BoardCoordinator                                                        *)

(* What the running server holds for the elements nobody edited, and what   *)
(* the one save in flight carries while nothing is dirty.                   *)
Trusted == mishaps \cap {"load", "restore", "deleted"} = {}

MemoryAgrees ==
  mishaps = {} /\ loaded /\ ~dirty =>
    IF InFlight = {} THEN row = elements
    ELSE \A s \in InFlight : saving[s] = elements

OneInFlight == mishaps = {} => \A s, t \in InFlight : s = t

UneditedAgree ==
  Trusted =>
    /\ row # Nothing
    /\ \A e \in Elements \ edited :
         /\ loaded => elements[e] = row[e]
         /\ \A s \in InFlight : saving[s][e] = row[e]

IdleUntilLoaded == ~loaded => ~dirty /\ InFlight = {} /\ ~timer /\ fired = 0

BoardInv == /\ BoardTypeOK /\ DirtyIsScheduled /\ IdleUntilLoaded
       /\ OneInFlight /\ MemoryAgrees /\ UneditedAgree

LEMMA EmptyIsSnapshot == Empty \in Snapshots
PROOF BY DEF Empty, Snapshots

LEMMA BoardStarts == BoardInit => BoardInv
<1> SUFFICES ASSUME BoardInit PROVE BoardInv
  OBVIOUS
<1> USE BoardAssumption
<1>1. BoardTypeOK
  <2>1. row \in Snapshots /\ elements \in Snapshots
    BY EmptyIsSnapshot DEF BoardInit
  <2>2. saving \in [Slots -> Snapshots \cup {Nothing}]
    BY DEF BoardInit
  <2>3. ops \in 0..MaxOps /\ faults \in 0..MaxFaults
    BY DEF BoardInit
  <2> QED
    BY <2>1, <2>2, <2>3 DEF BoardInit, BoardTypeOK
<1>2. InFlight = {}
  BY DEF BoardInit, InFlight
<1>3. row # Nothing
  BY DEF BoardInit
<1> QED
  BY <1>1, <1>2, <1>3 DEF BoardInit, BoardInv, DirtyIsScheduled, IdleUntilLoaded, OneInFlight,
     MemoryAgrees, UneditedAgree

(* What a load leaves in the memory.                                        *)
LEMMA LoadFacts ==
  ASSUME BoardInv, NEW known \in Snapshots, Load(known)
  PROVE  /\ mishaps' \subseteq {"load", "save", "overlap", "restore", "deleted"}
         /\ mishaps \subseteq mishaps'
         /\ faults' \in 0..MaxFaults
         /\ "load" \notin mishaps' => known = (IF loaded THEN elements ELSE row)
<1> USE BoardAssumption
<1>1. CASE known = (IF loaded THEN elements ELSE row) /\ UNCHANGED <<mishaps, faults>>
  BY <1>1 DEF BoardInv, BoardTypeOK
<1>2. CASE mishaps' = mishaps \cup {"load"} /\ faults' \in {faults, faults + 1}
           /\ (faults' = faults \/ faults < MaxFaults)
  BY <1>2 DEF BoardInv, BoardTypeOK
<1>3. BoardTypeOK
  BY DEF BoardInv
<1> QED
  BY <1>1, <1>2, <1>3 DEF Load, BoardTypeOK

LEMMA BoardStepKeeps == BoardInv /\ [BoardNext]_boardVars => BoardInv'
<1> SUFFICES ASSUME BoardInv, [BoardNext]_boardVars PROVE BoardInv'
  OBVIOUS
<1> USE BoardAssumption
<1>1. ASSUME NEW e \in Elements, NEW v \in Values \cup {Absent}, ApplyOp(e, v) PROVE BoardInv'
  <2>1. PICK known \in Snapshots : Load(known) /\ elements' = [known EXCEPT ![e] = v]
    BY <1>1 DEF ApplyOp
  <2>2. /\ mishaps' \subseteq {"load", "save", "overlap", "restore", "deleted"}
        /\ mishaps \subseteq mishaps'
        /\ faults' \in 0..MaxFaults
        /\ "load" \notin mishaps' => known = (IF loaded THEN elements ELSE row)
    BY <2>1, LoadFacts
  <2>3. elements' \in Snapshots
    BY <2>1 DEF Snapshots
  <2>4. InFlight' = InFlight
    BY <1>1 DEF ApplyOp, InFlight
  <2>5. BoardTypeOK'
    BY <1>1, <2>2, <2>3 DEF BoardInv, BoardTypeOK, ApplyOp, ScheduleSave
  <2>6. DirtyIsScheduled' /\ IdleUntilLoaded' /\ OneInFlight' /\ MemoryAgrees'
    BY <1>1, <2>2, <2>4 DEF BoardInv, BoardTypeOK, DirtyIsScheduled, IdleUntilLoaded, OneInFlight,
       MemoryAgrees, ApplyOp, ScheduleSave
  <2>7. UneditedAgree'
    BY <1>1, <2>1, <2>2, <2>4 DEF BoardInv, BoardTypeOK, UneditedAgree, Trusted, ApplyOp, Snapshots
  <2> QED
    BY <2>5, <2>6, <2>7 DEF BoardInv
<1>2. ASSUME OtherOp PROVE BoardInv'
  <2>1. PICK known \in Snapshots : Load(known) /\ elements' = known
    BY <1>2 DEF OtherOp
  <2>2. /\ mishaps' \subseteq {"load", "save", "overlap", "restore", "deleted"}
        /\ mishaps \subseteq mishaps'
        /\ faults' \in 0..MaxFaults
        /\ "load" \notin mishaps' => known = (IF loaded THEN elements ELSE row)
    BY <2>1, LoadFacts
  <2>3. InFlight' = InFlight /\ InFlight = {}
    BY <1>2 DEF OtherOp, InFlight, BoardInv, IdleUntilLoaded
  <2>4. BoardTypeOK'
    BY <1>2, <2>1, <2>2 DEF BoardInv, BoardTypeOK, OtherOp
  <2>5. DirtyIsScheduled' /\ IdleUntilLoaded' /\ OneInFlight' /\ MemoryAgrees'
    BY <1>2, <2>1, <2>2, <2>3 DEF BoardInv, DirtyIsScheduled, IdleUntilLoaded, OneInFlight,
       MemoryAgrees, OtherOp
  <2>6. UneditedAgree'
    BY <1>2, <2>1, <2>2, <2>3 DEF BoardInv, UneditedAgree, Trusted, OtherOp
  <2> QED
    BY <2>4, <2>5, <2>6 DEF BoardInv
<1>3. ASSUME TimerFires PROVE BoardInv'
  <2>1. InFlight' = InFlight
    BY <1>3 DEF TimerFires, InFlight, BoardInv, BoardTypeOK
  <2>2. BoardTypeOK'
    <3>1. fired' \in Nat
      BY <1>3 DEF BoardInv, BoardTypeOK, TimerFires
    <3> QED
      BY <1>3, <3>1 DEF BoardInv, BoardTypeOK, TimerFires
  <2>3. DirtyIsScheduled' /\ IdleUntilLoaded'
    BY <1>3, <2>1 DEF BoardInv, BoardTypeOK, DirtyIsScheduled, IdleUntilLoaded, TimerFires, state
  <2>4. OneInFlight' /\ MemoryAgrees'
    BY <1>3, <2>1 DEF BoardInv, BoardTypeOK, OneInFlight, MemoryAgrees, IdleUntilLoaded, TimerFires
  <2>5. UneditedAgree'
    BY <1>3, <2>1 DEF BoardInv, BoardTypeOK, DirtyIsScheduled, UneditedAgree, Trusted, TimerFires, InFlight
  <2> QED
    BY <2>2, <2>3, <2>4, <2>5 DEF BoardInv
<1>4. ASSUME FlushClean PROVE BoardInv'
  BY <1>4 DEF BoardInv, BoardTypeOK, DirtyIsScheduled, IdleUntilLoaded, OneInFlight, MemoryAgrees, UneditedAgree,
     Trusted, InFlight, Snapshots, Fault, state, FlushClean
<1>5. ASSUME NEW s \in Slots, FlushDirty(s) PROVE BoardInv'
  <2>1. InFlight' = InFlight \cup {s}
    BY <1>5 DEF FlushDirty, InFlight, BoardInv, BoardTypeOK
  <2>2. BoardTypeOK'
    <3>1. saving' \in [Slots -> Snapshots \cup {Nothing}] /\ fired' \in Nat
      BY <1>5 DEF BoardInv, BoardTypeOK, FlushDirty
    <3>2. mishaps' \subseteq {"load", "save", "overlap", "restore", "deleted"}
      BY <1>5 DEF BoardInv, BoardTypeOK, FlushDirty
    <3> QED
      BY <1>5, <3>1, <3>2 DEF BoardInv, BoardTypeOK, FlushDirty
  <2>3. DirtyIsScheduled' /\ IdleUntilLoaded'
    BY <1>5, <2>1 DEF BoardInv, BoardTypeOK, DirtyIsScheduled, IdleUntilLoaded, FlushDirty, state
  <2>4. OneInFlight' /\ MemoryAgrees'
    BY <1>5, <2>1 DEF BoardInv, BoardTypeOK, OneInFlight, MemoryAgrees, IdleUntilLoaded, FlushDirty
  <2>5. UneditedAgree'
    BY <1>5, <2>1 DEF BoardInv, BoardTypeOK, DirtyIsScheduled, UneditedAgree, Trusted, FlushDirty, InFlight
  <2> QED
    BY <2>2, <2>3, <2>4, <2>5 DEF BoardInv
<1>6. ASSUME NEW s \in Slots, Save(s) PROVE BoardInv'
  BY <1>6 DEF BoardInv, BoardTypeOK, DirtyIsScheduled, IdleUntilLoaded, OneInFlight, MemoryAgrees, UneditedAgree,
     Trusted, InFlight, Snapshots, Fault, state, Save
<1>7. ASSUME NEW s \in Slots, SaveFails(s) PROVE BoardInv'
  BY <1>7 DEF BoardInv, BoardTypeOK, DirtyIsScheduled, IdleUntilLoaded, OneInFlight, MemoryAgrees, UneditedAgree,
     Trusted, InFlight, Snapshots, Fault, state, SaveFails
<1>8. ASSUME SaveBoardVersion PROVE BoardInv'
  BY <1>8 DEF BoardInv, BoardTypeOK, DirtyIsScheduled, IdleUntilLoaded, OneInFlight, MemoryAgrees, UneditedAgree,
     Trusted, InFlight, Snapshots, Fault, state, SaveBoardVersion
<1>9. ASSUME DeleteBoard PROVE BoardInv'
  BY <1>9 DEF BoardInv, BoardTypeOK, DirtyIsScheduled, IdleUntilLoaded, OneInFlight, MemoryAgrees, UneditedAgree,
     Trusted, InFlight, Snapshots, Fault, state, DeleteBoard
<1>10. ASSUME Restart PROVE BoardInv'
  <2>1. InFlight' = {}
    BY <1>10 DEF Restart, InFlight, BoardInv, BoardTypeOK
  <2>2. BoardTypeOK'
    <3>1. row' \in Snapshots \cup {Nothing}
      BY <1>10 DEF BoardInv, BoardTypeOK, Restart, InFlight
    <3>2. faults' \in 0..MaxFaults
      BY <1>10 DEF BoardInv, BoardTypeOK, Restart, Fault
    <3>3. saving' \in [Slots -> Snapshots \cup {Nothing}] /\ elements' \in Snapshots
      BY <1>10, EmptyIsSnapshot DEF Restart
    <3> QED
      BY <1>10, <3>1, <3>2, <3>3 DEF BoardInv, BoardTypeOK, Restart
  <2>3. DirtyIsScheduled' /\ IdleUntilLoaded'
    BY <1>10, <2>1 DEF BoardInv, BoardTypeOK, DirtyIsScheduled, IdleUntilLoaded, Restart, state
  <2>4. OneInFlight' /\ MemoryAgrees'
    BY <1>10, <2>1 DEF BoardInv, BoardTypeOK, OneInFlight, MemoryAgrees, IdleUntilLoaded, Restart
  <2>5. UneditedAgree'
    BY <1>10, <2>1 DEF BoardInv, BoardTypeOK, DirtyIsScheduled, UneditedAgree, Trusted, Restart, InFlight
  <2> QED
    BY <2>2, <2>3, <2>4, <2>5 DEF BoardInv
<1>11. ASSUME NEW v \in versions, RestoreBoardVersion(v) PROVE BoardInv'
  BY <1>11 DEF BoardInv, BoardTypeOK, DirtyIsScheduled, IdleUntilLoaded, OneInFlight, MemoryAgrees, UneditedAgree,
     Trusted, InFlight, Snapshots, Fault, state, RestoreBoardVersion
<1>12. ASSUME NEW v \in versions, DeleteBoardVersion(v) PROVE BoardInv'
  BY <1>12 DEF BoardInv, BoardTypeOK, DirtyIsScheduled, IdleUntilLoaded, OneInFlight, MemoryAgrees, UneditedAgree,
     Trusted, InFlight, Snapshots, Fault, state, DeleteBoardVersion
<1>13. CASE UNCHANGED boardVars
  BY <1>13 DEF boardVars, state, BoardInv, BoardTypeOK, DirtyIsScheduled, IdleUntilLoaded, OneInFlight,
     MemoryAgrees, UneditedAgree, Trusted, InFlight
<1> QED
  BY <1>1, <1>2, <1>3, <1>4, <1>5, <1>6, <1>7, <1>8, <1>9, <1>10, <1>11, <1>12, <1>13 DEF BoardNext, Flush

(* Every variable keeps its shape.                                          *)
THEOREM BoardTypes == BoardSpec => []BoardTypeOK
<1>1. BoardInv => BoardTypeOK
  BY DEF BoardInv
<1> QED
  BY BoardStarts, BoardStepKeeps, <1>1, PTL DEF BoardSpec

(* With no mishap so far and nothing left to save, the row is the memory,   *)
(* for any number of elements, ops, restarts and save slots.                *)
THEOREM BoardSaved == BoardSpec => []SavedUnlessMishap
<1>1. BoardInv => SavedUnlessMishap
  BY DEF BoardInv, MemoryAgrees, SavedUnlessMishap
<1> QED
  BY BoardStarts, BoardStepKeeps, <1>1, PTL DEF BoardSpec

(* A dirty board has a flush to come.                                       *)
THEOREM BoardScheduled == BoardSpec => []DirtyIsScheduled
<1>1. BoardInv => DirtyIsScheduled
  BY DEF BoardInv
<1> QED
  BY BoardStarts, BoardStepKeeps, <1>1, PTL DEF BoardSpec

(* While every load succeeds and nothing is restored, no step changes the   *)
(* row at an element no op was about.                                       *)
THEOREM BoardUntouched == BoardSpec => OthersUntouched
<1>1. ASSUME BoardInv, BoardNext, mishaps' \cap {"load", "restore", "deleted"} = {},
             NEW e \in Elements \ edited
      PROVE  row'[e] = row[e]
  <2>1. CASE row' = row
    BY <2>1
  <2>2. CASE \E s \in InFlight : row' = saving[s] /\ mishaps' = mishaps
    BY <1>1, <2>2 DEF BoardInv, UneditedAgree, Trusted
  <2>3. CASE \E v \in versions : RestoreBoardVersion(v)
    BY <1>1, <2>3 DEF RestoreBoardVersion
  <2>4. CASE DeleteBoard
    BY <1>1, <2>4 DEF DeleteBoard
  <2> QED
    BY <1>1, <2>1, <2>2, <2>3, <2>4 DEF BoardNext, Flush, ApplyOp, OtherOp, TimerFires, FlushClean,
       FlushDirty, Save, SaveFails, SaveBoardVersion, DeleteBoardVersion, Restart, InFlight
<1>2. BoardInv /\ [BoardNext]_boardVars =>
        (mishaps' \cap {"load", "restore", "deleted"} = {} =>
           \A e \in Elements \ edited : row'[e] = row[e])
  BY <1>1 DEF boardVars
<1>3. BoardInv /\ [BoardNext]_boardVars =>
        [mishaps' \cap {"load", "restore", "deleted"} = {} =>
           \A e \in Elements \ edited : row'[e] = row[e]]_boardVars
  BY <1>2
<1> QED
  BY BoardStarts, BoardStepKeeps, <1>3, PTL DEF BoardSpec, OthersUntouched

=============================================================================

-------------------------------- MODULE Rooms --------------------------------
(***************************************************************************)
(* One room of the WebSocket manager of backend/app/websocket/manager.py,  *)
(* as execution_websocket in routes/executions.py uses it: the sockets     *)
(* that follow a run.  Each has a handler, which reads pings, and a        *)
(* listener, which gets the run's events from Redis and broadcasts each of *)
(* them to the whole room, so that a room of n sockets has n broadcasts.   *)
(*                                                                         *)
(* A broadcast walks along the list of the room while every send is an     *)
(* await, during which others append to the list, remove from it or delete *)
(* the room.  A removal of a socket that is not in the list raises, in the *)
(* listener or at the end of the handler.                                  *)
(*                                                                         *)
(* The run is owned by its caller; a refused connection changes no state.  *)
(* What an event says is left out.                                         *)
(***************************************************************************)
EXTENDS Subsequences

CONSTANT Sockets  \* the sockets opened on the run while the process lives

ASSUME SocketsAssumption == IsFiniteSet(Sockets)

VARIABLES
  room,       \* active_connections[room_id]; <<>> when there is no such key
  handlerPc,  \* the handler of each socket
  listenerPc, \* its listener
  position,   \* where in the list each broadcast is
  receiver,   \* the socket it is sending to
  unsent,     \* the sockets it could not send to, in order
  lost        \* the sockets whose connection has broken

broadcastVars == <<position, receiver, unsent>>
roomVars == <<room, handlerPc, listenerPc, broadcastVars, lost>>

RoomsTypeOK ==
  /\ room \in Seq(Sockets)
  /\ handlerPc \in [Sockets -> {"new", "open", "gone"}]
  /\ listenerPc \in [Sockets -> {"none", "listening", "sending", "ended"}]
  /\ position \in [Sockets -> 0 .. Cardinality(Sockets)]
  /\ receiver \in [Sockets -> Sockets]
  /\ unsent \in [Sockets -> Seq(Sockets)]
  /\ lost \subseteq Sockets

RoomsInit ==
  /\ room = <<>>
  /\ handlerPc = [s \in Sockets |-> "new"]
  /\ listenerPc = [s \in Sockets |-> "none"]
  /\ position = [s \in Sockets |-> 0]
  /\ receiver = [s \in Sockets |-> s]
  /\ unsent = [s \in Sockets |-> <<>>]
  /\ lost = {}

-----------------------------------------------------------------------------

(* disconnect for each of a sequence of sockets, up to the first that raises.  When
   the list is empty the key is deleted, and nothing more can raise.         *)
Listed(sockets) ==
  {n \in 0 .. Len(sockets) : \A i \in 1 .. n : sockets[i] \in Range(room)}
Present(sockets) ==
  SubSeq(sockets, 1, CHOOSE n \in Listed(sockets) : \A k \in Listed(sockets) : k <= n)
Remaining(sockets) == Keep(room, Sockets \ Range(Present(sockets)))
Raises(sockets) == Present(sockets) # sockets /\ Remaining(sockets) # <<>>

(* A broadcast that walks along a deleted list has come to its end; a new list may
   be made under the same key.                                               *)
EndOfList == Cardinality(Sockets)
Walk(positions) ==
  IF room' = <<>> THEN [s \in Sockets |-> IF positions[s] = 0 THEN 0 ELSE EndOfList]
                  ELSE positions

(* connect, and the listener's task.                                         *)
Connect(s) ==
  /\ handlerPc[s] = "new"
  /\ handlerPc' = [handlerPc EXCEPT ![s] = "open"]
  /\ room' = Append(room, s)
  /\ listenerPc' = [listenerPc EXCEPT ![s] = "listening"]
  /\ UNCHANGED <<broadcastVars, lost>>

(* A client disappears without a word: a send to it raises from now on.      *)
LoseConnection(s) ==
  /\ handlerPc[s] = "open"
  /\ lost' = lost \cup {s}
  /\ UNCHANGED <<room, handlerPc, listenerPc, broadcastVars>>

StopListener(s) ==
  /\ listenerPc' = [listenerPc EXCEPT ![s] = "ended"]
  /\ unsent' = [unsent EXCEPT ![s] = <<>>]
  /\ receiver' = [receiver EXCEPT ![s] = s]

(* Mutant: the socket is disconnected before its listener is cancelled.      *)
LeaveDisconnectsFirst(s) ==
  /\ handlerPc[s] = "open"
  /\ handlerPc' = [handlerPc EXCEPT ![s] = "gone"]
  /\ room' = Remaining(<<s>>)
  /\ IF Raises(<<s>>)
       THEN UNCHANGED <<listenerPc, unsent, receiver>> /\ position' = Walk(position)
       ELSE StopListener(s) /\ position' = Walk([position EXCEPT ![s] = 0])
  /\ lost' = lost \cup {s}

(* The client disconnects, or a receive or a pong raises: the listener is cancelled
   and the socket disconnected, which raises when a broadcast has done so.   *)
Leave(s) ==
  /\ handlerPc[s] = "open"
  /\ handlerPc' = [handlerPc EXCEPT ![s] = "gone"]
  /\ StopListener(s)
  /\ room' = Remaining(<<s>>)
  /\ position' = Walk([position EXCEPT ![s] = 0])
  /\ lost' = lost \cup {s}

(* listen_redis has a message and its broadcast begins, if there is a room.  *)
Broadcast(s) ==
  /\ listenerPc[s] = "listening"
  /\ room # <<>>
  /\ listenerPc' = [listenerPc EXCEPT ![s] = "sending"]
  /\ position' = [position EXCEPT ![s] = 1]
  /\ receiver' = [receiver EXCEPT ![s] = room[1]]
  /\ UNCHANGED <<room, handlerPc, unsent, lost>>

Unsent(s) == IF receiver[s] \in lost THEN Append(unsent[s], receiver[s]) ELSE unsent[s]

(* A send returns or raises, and the walk goes on to the next socket.        *)
SendNext(s) ==
  /\ listenerPc[s] = "sending"
  /\ position[s] < Len(room)
  /\ unsent' = [unsent EXCEPT ![s] = Unsent(s)]
  /\ position' = [position EXCEPT ![s] = @ + 1]
  /\ receiver' = [receiver EXCEPT ![s] = room[position[s] + 1]]
  /\ UNCHANGED <<room, handlerPc, listenerPc, lost>>

(* The last send; then the sockets that could not be reached are disconnected.  One
   that another has disconnected ends the listener.                          *)
EndBroadcast(s) ==
  /\ listenerPc[s] = "sending"
  /\ position[s] >= Len(room)
  /\ room' = Remaining(Unsent(s))
  /\ position' = Walk([position EXCEPT ![s] = 0])
  /\ receiver' = [receiver EXCEPT ![s] = s]
  /\ unsent' = [unsent EXCEPT ![s] = <<>>]
  /\ listenerPc' = [listenerPc EXCEPT ![s] = IF Raises(Unsent(s)) THEN "ended" ELSE "listening"]
  /\ UNCHANGED <<handlerPc, lost>>

(* Redis fails, or an event does not parse: the listener ends.               *)
ListenerFails(s) ==
  /\ listenerPc[s] = "listening"
  /\ listenerPc' = [listenerPc EXCEPT ![s] = "ended"]
  /\ UNCHANGED <<room, handlerPc, broadcastVars, lost>>

RoomsNext ==
  \E s \in Sockets :
    \/ Connect(s) \/ LoseConnection(s) \/ Leave(s) \/ Broadcast(s)
    \/ SendNext(s) \/ EndBroadcast(s) \/ ListenerFails(s)

RoomsSpec == RoomsInit /\ [][RoomsNext]_roomVars

-----------------------------------------------------------------------------

(* However broadcasts, arrivals and departures interleave, a socket is in the room
   once, as long as it is open and reachable; and a handler that has ended leaves
   neither its socket nor its listener behind.                               *)
RoomFollowsHandlers ==
  /\ \A i, j \in DOMAIN room : room[i] = room[j] => i = j
  /\ \A s \in Sockets :
       /\ (handlerPc[s] = "open" /\ s \notin lost) => s \in Range(room)
       /\ handlerPc[s] = "gone" => s \notin Range(room) /\ listenerPc[s] = "ended"
=============================================================================

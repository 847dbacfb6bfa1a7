--------------------------- MODULE QubicConnection ---------------------------
(***************************************************************************)
(* One QubicConnection (connection.cpp): a TCP stream to a Qubic node that *)
(* answers requests for its current tick.  The node is external; it is     *)
(* what the client code relies on: it serves the requests of a connection  *)
(* in order, may push packets nobody asked for, and its tick never falls.  *)
(*                                                                         *)
(* A packet is read in one step, header and body.  A read that stops in    *)
(* the middle of a packet leaves the stream misaligned (~synced): what is  *)
(* read next is taken from the middle of a packet, and so is all the rest, *)
(* so that a misaligned stream holds no packets, only noise.               *)
(***************************************************************************)
EXTENDS Naturals, Sequences

CONSTANTS
  MaxTick,  \* bound: the last tick the node reaches
  MaxPush,  \* bound: packets pushed unasked on one connection
  Cut       \* whether a read may stop in the middle of a packet

ASSUME ConnectionAssumption == MaxTick \in Nat /\ MaxPush \in Nat /\ Cut \in BOOLEAN

VARIABLES
  nodeTick, \* the node's current tick, 0 while it has none
  up,       \* requests sent on the current socket and not served yet
  down,     \* packets of the current socket not read yet
  pushed,   \* packets pushed unasked on the current socket
  synced    \* the next byte to read is the first byte of a packet

connection == <<up, down, pushed, synced>>

PacketTypes == {"peers", "computors", "tick", "other", "end"}
Packet(type, tick) == [type |-> type, tick |-> tick]
Packets == [type : PacketTypes, tick : Nat]

ConnectionTypeOK ==
  /\ nodeTick \in Nat
  /\ up \in Seq({"tick", "tx"})
  /\ down \in Seq(Packets)
  /\ pushed \in Nat
  /\ synced \in BOOLEAN

-----------------------------------------------------------------------------
(* connect(): a new socket.  The node greets it with its peers, and asks    *)
(* for the computor list when it has none.                                  *)
Peers == Packet("peers", 0)
Greetings == {<<Peers>>, <<Peers, Packet("computors", 0)>>}

(* Mutant of Fresh: the bytes of the old stream are read on.                *)
FreshKeepsPosition(stream) ==
  /\ up' = <<>>
  /\ down' = IF synced THEN stream ELSE <<>>
  /\ pushed' = 0
  /\ UNCHANGED synced

Fresh(stream) ==
  /\ up' = <<>>
  /\ down' = stream
  /\ pushed' = 0
  /\ synced' = TRUE

(* resolveConnection and the constructor: the old stream is never read again *)
Open == \E stream \in Greetings : Fresh(stream)

(* sendData: nobody looks at its result, so a failed send is a lost request *)
Deliver(request) ==
  /\ up' = IF synced THEN Append(up, request) ELSE up
  /\ UNCHANGED <<down, pushed, synced>>
Lose == UNCHANGED connection

-----------------------------------------------------------------------------
(* receivePacketWithHeaderAs<T>: what one turn of its loop can come to.     *)
Take == down' = Tail(down) /\ UNCHANGED <<up, pushed, synced>>
Arrived == Head(down)

Matches(type) == down # <<>> /\ Arrived.type = type /\ Take
EndReceived == down # <<>> /\ Arrived.type = "end" /\ Take
Skips(type) == down # <<>> /\ Arrived.type \notin {type, "end"} /\ Take

(* receiveData returns fewer bytes than asked: none of the packet, ...      *)
TimesOut == UNCHANGED connection
(* ... or a part of it, which is gone from the stream                       *)
CutShort ==
  /\ Cut /\ synced /\ down # <<>>
  /\ up' = <<>> /\ down' = <<>>
  /\ synced' = FALSE
  /\ UNCHANGED pushed

-----------------------------------------------------------------------------
(* The node.                                                                *)
NodeServe ==
  /\ up # <<>>
  /\ up' = Tail(up)
  /\ down' = IF Head(up) = "tick" THEN Append(down, Packet("tick", nodeTick)) ELSE down
  /\ UNCHANGED <<nodeTick, pushed, synced>>

NodePush ==
  /\ synced /\ pushed < MaxPush
  /\ \E type \in {"other", "end"} : down' = Append(down, Packet(type, 0))
  /\ pushed' = pushed + 1
  /\ UNCHANGED <<nodeTick, up, synced>>

NodeAdvance ==
  /\ nodeTick < MaxTick
  /\ nodeTick' = nodeTick + 1
  /\ UNCHANGED connection
=============================================================================

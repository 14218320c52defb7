------------------------------- MODULE EspTCP -------------------------------
(***************************************************************************)
(* The connections of a listening TCP on the ESP8266: a table of clients,  *)
(* each sending one piece at a time and keeping the rest until that has    *)
(* been acknowledged.  (src/esp/core/EspTCP.h and .cpp)                    *)
(*                                                                         *)
(* A delegate hears of everything that happens and may send at any time;   *)
(* here it may send anything.  lwIP, which calls the handlers, is modelled *)
(* by what they can see of it: its control blocks, which it reuses, and    *)
(* the data it has been given and the peer has not acknowledged.           *)
(***************************************************************************)
EXTENDS Integers, Sequences

CONSTANTS
  MaxConnections,  \* how many clients the table holds
  Pcb,             \* lwIP's control blocks
  NoPcb,           \* the null pointer
  SndBuf,          \* TCP_SND_BUF
  Token,           \* what is sent: pieces of text that are not taken apart
  Faults           \* what peers and lwIP do that the handlers are not ready for

ASSUME EspTCPConstantsOK ==
  /\ MaxConnections \in Nat \ {0} /\ SndBuf \in Nat \ {0}
  /\ NoPcb \notin Pcb
  /\ Faults \subseteq {"partialAcks", "lateAcks", "resets", "writeFails"}

VARIABLES
  clients,   \* _clients
  net        \* lwIP's control blocks, and what the peers have yet to read

tcpVars == <<clients, net>>

Slot == 0 .. MaxConnections - 1
Client == [pcb : Pcb \cup {NoPcb}, sending : BOOLEAN, buffer : Seq(Token)]

(* A control block: free; open; or closed here, the peer having closed before,
   when data of ours may still be on its way.  said and wire are what the
   delegate has sent, and what lwIP has been given, since the peer last read. *)
Block == [link : {"free", "open", "closed"}, unacked : Nat,
          said : Seq(Token), wire : Seq(Token)]

FreeBlock == [link |-> "free", unacked |-> 0, said |-> <<>>, wire |-> <<>>]

(* The types of the variables. *)
TcpTypeOK == clients \in [Slot -> Client] /\ net \in [Pcb -> Block]

InUse(s) == clients[s].pcb # NoPcb
Matches(p) == {s \in Slot : clients[s].pcb = p}
First(S) == CHOOSE s \in S : \A t \in S : s <= t

(* findConnection: the first slot whose control block this is. *)
findConnection(p) == IF Matches(p) = {} THEN -1 ELSE First(Matches(p))

-----------------------------------------------------------------------------
TcpInit ==
  /\ clients = [s \in Slot |-> [pcb |-> NoPcb, sending |-> FALSE, buffer |-> <<>>]]
  /\ net = [p \in Pcb |-> FreeBlock]

(* lwIP accepts the connection of p; s, the first unused slot, takes it. *)
Accept(p, s) ==
  /\ net[p].link = "free"
  /\ ~ InUse(s) /\ \A t \in Slot : t < s => InUse(t)
  /\ clients' = [clients EXCEPT ![s] = [pcb |-> p, sending |-> FALSE, buffer |-> <<>>]]
  /\ net' = [net EXCEPT ![p] = [FreeBlock EXCEPT !.link = "open"]]

(* All slots are used: the connection is aborted, p is as free as it was. *)
Abort(p) ==
  /\ net[p].link = "free"
  /\ \A s \in Slot : InUse(s)
  /\ UNCHANGED tcpVars

(* tcp_write of as much of data as tcp_sndbuf has room for in b, the control
   block of slot s; the client keeps the rest.  A write that fails is reported,
   or not even that, and what it was to write is gone. *)
Transmit(s, b, data) ==
  LET room == SndBuf - b.unacked
      n == IF room < Len(data) THEN room ELSE Len(data)
  IN /\ clients' = [clients EXCEPT ![s].sending = TRUE,
                                   ![s].buffer = SubSeq(data, n + 1, Len(data))]
     /\ \/ net' = [net EXCEPT ![clients[s].pcb] =
                     [b EXCEPT !.wire = @ \o SubSeq(data, 1, n), !.unacked = @ + n]]
        \/ "writeFails" \in Faults /\ net' = [net EXCEPT ![clients[s].pcb] = b]

(* Faulty variant of Send: the buffer is assigned, not appended to. *)
SendReplacing(s, data) ==
  LET p == clients[s].pcb
      b == [net[p] EXCEPT !.said = @ \o data]
  IN \/ ~ InUse(s) /\ UNCHANGED tcpVars
     \/ /\ InUse(s) /\ clients[s].sending
        /\ clients' = [clients EXCEPT ![s].buffer = data]
        /\ net' = [net EXCEPT ![p] = b]
     \/ InUse(s) /\ ~ clients[s].sending /\ Transmit(s, b, data)

(* send: nothing to an unused slot; behind what waits for an acknowledgement,
   into the buffer, which is empty otherwise. *)
Send(s, data) ==
  LET p == clients[s].pcb
      b == [net[p] EXCEPT !.said = @ \o data]
  IN \/ ~ InUse(s) /\ UNCHANGED tcpVars
     \/ /\ InUse(s) /\ clients[s].sending
        /\ clients' = [clients EXCEPT ![s].buffer = @ \o data]
        /\ net' = [net EXCEPT ![p] = b]
     \/ InUse(s) /\ ~ clients[s].sending /\ Transmit(s, b, data)

MayAcknowledge(p) ==
  /\ net[p].unacked > 0
  /\ net[p].link = "open" \/ (net[p].link = "closed" /\ "lateAcks" \in Faults)

(* The peer acknowledges n pieces: sent, and Client::sent, of the client found.
   There is none if p has been closed, and the assertion of sent fails; that of
   Client::sent does if the client is not sending. *)
Sent(p, n) ==
  LET s == findConnection(p)
      b == [net[p] EXCEPT !.unacked = @ - n]
  IN /\ MayAcknowledge(p)
     /\ n \in 1 .. net[p].unacked
     /\ n = net[p].unacked \/ "partialAcks" \in Faults
     /\ IF s >= 0 /\ clients[s].buffer # <<>>
        THEN Transmit(s, b, clients[s].buffer)
        ELSE /\ net' = [net EXCEPT ![p] = b]
             /\ clients' = IF s < 0 THEN clients
                           ELSE [clients EXCEPT ![s].sending = FALSE]

(* tcp_close of the slot's control block, which is then forgotten. *)
Close(s, link) ==
  /\ clients' = [clients EXCEPT ![s].pcb = NoPcb]
  /\ net' = [net EXCEPT ![clients[s].pcb] =
               IF link = "free" THEN FreeBlock
               ELSE [FreeBlock EXCEPT !.link = link, !.unacked = net[clients[s].pcb].unacked]]

(* disconnect, called while data that has come in has not been taken off
   lwIP's hands: it resets the connection and throws away what it holds. *)
Disconnect(s) == IF InUse(s) THEN Close(s, "free") ELSE UNCHANGED tcpVars

(* Faulty variant of PeerCloses: the client is not forgotten. *)
PeerClosesUnnoticed(p) ==
  /\ net[p].link = "open"
  /\ net' = [net EXCEPT ![p].link = "closed"]
  /\ UNCHANGED clients

(* recv without data: the peer has closed, and what it has not acknowledged it
   may still acknowledge. *)
PeerCloses(p) ==
  /\ net[p].link = "open" /\ findConnection(p) >= 0
  /\ Close(findConnection(p), "closed")

(* lwIP is through with a control block that has been closed. *)
Release(p) ==
  /\ net[p].link = "closed"
  /\ net' = [net EXCEPT ![p] = FreeBlock]
  /\ UNCHANGED clients

(* The peer resets the connection.  lwIP frees the control block; no handler
   is registered that would be told. *)
Reset(p) ==
  /\ "resets" \in Faults /\ net[p].link = "open"
  /\ net' = [net EXCEPT ![p] = FreeBlock]
  /\ UNCHANGED clients

(* The peer reads what has reached it. *)
Read(p) ==
  /\ net' = [net EXCEPT ![p].said = SubSeq(@, Len(net[p].wire) + 1, Len(@)),
                        ![p].wire = <<>>]
  /\ UNCHANGED clients

TcpNext ==
  \/ \E p \in Pcb : \/ \E s \in Slot : Accept(p, s)
                    \/ \E n \in 1 .. net[p].unacked : Sent(p, n)
                    \/ Abort(p) \/ PeerCloses(p) \/ Release(p) \/ Reset(p) \/ Read(p)
  \/ \E s \in Slot : \/ Disconnect(s)
                     \/ \E data \in Seq(Token) \ {<<>>} : Send(s, data)

TcpSpec == TcpInit /\ [][TcpNext]_tcpVars

-----------------------------------------------------------------------------
(* What a delegate sends reaches the wire in the order it was sent in, nothing
   twice and nothing left out, however many acknowledgements it takes to get it
   there (Client::send and Client::sent): what has not been written yet is what
   the buffer holds. *)
StreamInOrder ==
  \A s \in Slot : InUse(s) =>
    net[clients[s].pcb].said = net[clients[s].pcb].wire \o clients[s].buffer

(* Every open connection has one slot, and every slot in use an open connection
   (accept, findConnection, disconnect); and a client that is sending waits for
   an acknowledgement that is on its way, for nothing else would wake it. *)
SlotsAreServed ==
  /\ \A p \in Pcb : net[p].link = "open" => \E s \in Slot : Matches(p) = {s}
  /\ \A s \in Slot : InUse(s) =>
       LET b == net[clients[s].pcb] IN
         /\ b.link = "open"
         /\ clients[s].sending => b.unacked > 0
         /\ clients[s].buffer # <<>> => clients[s].sending

(* "assert(_clients[connectionId].inUse())": what may be acknowledged belongs to
   a slot in use. *)
AcksFindClients == \A p \in Pcb : MayAcknowledge(p) => findConnection(p) >= 0
=============================================================================

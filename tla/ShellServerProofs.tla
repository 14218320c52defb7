-------------------------- MODULE ShellServerProofs --------------------------
(* Every client's data reaches the wire in order, and every connection has its
   slot: for tables of any size, any send buffer and any delegate, however little
   peers acknowledge at a time and however late, as long as none resets and lwIP
   takes what it is given.  Then the shells, one such delegate. *)
EXTENDS ShellServer, SequenceTheorems, FiniteSetTheorems, WellFoundedInduction, TLAPS

USE DEF Slot

Steady == Faults \cap {"resets", "writeFails"} = {}

(* What a client and its control block have to do with each other. *)
Good(c, b) ==
  /\ c \in Client /\ b \in Block
  /\ b.link = "open" /\ b.unacked <= SndBuf
  /\ c.sending => b.unacked > 0
  /\ ~ c.sending => c.buffer = <<>> /\ b.unacked < SndBuf
  /\ b.said = b.wire \o c.buffer

(* Slots in use have control blocks of their own, whose clients they are; no
   other block is open. *)
TcpInv ==
  /\ clients \in [Slot -> Client] /\ net \in [Pcb -> Block]
  /\ \A s \in Slot : InUse(s) => Good(clients[s], net[clients[s].pcb])
  /\ \A s, t \in Slot : InUse(s) /\ clients[s].pcb = clients[t].pcb => s = t
  /\ \A p \in Pcb : net[p].link = "open" => \E s \in Slot : clients[s].pcb = p

LEMMA PcbInUse ==
  ASSUME TcpInv, NEW s \in Slot
  PROVE  InUse(s) <=> clients[s].pcb \in Pcb
BY EspTCPConstantsOK DEF TcpInv, InUse, Client

LEMMA Found ==
  ASSUME TcpInv, NEW p \in Pcb, net[p].link = "open"
  PROVE  /\ findConnection(p) \in Slot
         /\ clients[findConnection(p)].pcb = p
         /\ InUse(findConnection(p))
<1>1. PICK s \in Slot : clients[s].pcb = p
  BY DEF TcpInv
<1>2. Matches(p) = {s}
  BY <1>1, EspTCPConstantsOK DEF TcpInv, Matches, InUse
<1>3. First(Matches(p)) = s
  BY <1>2 DEF First
<1> QED
  BY <1>1, <1>2, <1>3, EspTCPConstantsOK DEF findConnection, InUse

(* A client in use and its control block may change together. *)
LEMMA Update ==
  ASSUME TcpInv, NEW s \in Slot, InUse(s), NEW c, NEW b, Good(c, b),
         c.pcb = clients[s].pcb,
         clients' = [clients EXCEPT ![s] = c],
         net' = [net EXCEPT ![clients[s].pcb] = b]
  PROVE  TcpInv'
<1> DEFINE p == clients[s].pcb
<1>1. p \in Pcb
  BY PcbInUse
<1>2. clients' \in [Slot -> Client] /\ net' \in [Pcb -> Block]
  BY <1>1 DEF TcpInv, Good
<1>3. \A t \in Slot : clients'[t].pcb = clients[t].pcb
  BY DEF TcpInv
<1>4. clients'[s] = c /\ net'[p] = b
  BY <1>1 DEF TcpInv
<1>5. ASSUME NEW t \in Slot, InUse(t)' PROVE Good(clients[t], net[clients[t].pcb])'
  <2>1. CASE t = s
    BY <2>1, <1>3, <1>4 DEF Good, Client, Block
  <2>2. CASE t # s
    <3>1. InUse(t) /\ clients[t].pcb # p
      BY <2>2, <1>3, <1>5 DEF TcpInv, InUse
    <3>2. clients'[t] = clients[t] /\ net'[clients[t].pcb] = net[clients[t].pcb]
      BY <2>2, <3>1, PcbInUse DEF TcpInv
    <3>3. Good(clients[t], net[clients[t].pcb])
      BY <3>1 DEF TcpInv
    <3> QED BY <3>2, <3>3 DEF Good, Client, Block
  <2> QED BY <2>1, <2>2
<1>6. ASSUME NEW q \in Pcb, net'[q].link = "open" PROVE \E t \in Slot : clients'[t].pcb = q
  <2>1. CASE q = p
    BY <2>1 DEF TcpInv, Good
  <2>2. CASE q # p
    BY <1>1, <1>6, <2>2 DEF TcpInv
  <2>3. net[q].link = "open" => \E t \in Slot : clients[t].pcb = q
    BY DEF TcpInv
  <2>4. \E t \in Slot : clients[t].pcb = q
    BY <2>1, <2>2, <2>3, <1>6
  <2> QED BY <2>4, <1>3
<1>7. \A t, u \in Slot : InUse(t)' /\ clients'[t].pcb = clients'[u].pcb => t = u
  BY <1>3 DEF TcpInv, InUse
<1> QED BY <1>2, <1>5, <1>6, <1>7 DEF TcpInv

LEMMA Associative ==
  \A x, y, z \in Seq(Token) : (x \o y) \o z = x \o (y \o z)
<1>1. \A S : \A x, y, z \in Seq(S) : (x \o y) \o z = x \o (y \o z)
  BY ConcatAssociative, Zenon
<1> QED BY ONLY <1>1

(* Cut in two at any place, data is the one part behind the other. *)
LEMMA CutData ==
  ASSUME NEW data \in Seq(Token), NEW n \in 0 .. Len(data)
  PROVE  /\ SubSeq(data, 1, n) \in Seq(Token)
         /\ SubSeq(data, n + 1, Len(data)) \in Seq(Token)
         /\ SubSeq(data, 1, n) \o SubSeq(data, n + 1, Len(data)) = data
<1>1. SubSeq(data, 1, n) \in Seq(Token)
  BY ElementOfSeq, SubSeqProperties, LenProperties
<1>2. SubSeq(data, n + 1, Len(data)) \in Seq(Token)
  BY ElementOfSeq, SubSeqProperties, LenProperties
<1>3. /\ Len(data) \in Nat
      /\ 1 \in 1 .. Len(data) + 1 /\ n \in 1 - 1 .. Len(data) /\ Len(data) \in n .. Len(data)
  BY LenProperties
<1>4. SubSeq(data, 1, n) \o SubSeq(data, n + 1, Len(data)) = SubSeq(data, 1, Len(data))
  BY ONLY <1>3, data \in Seq(Token), ConcatAdjacentSubSeq
<1> QED BY <1>1, <1>2, <1>4, SubSeqFull

(* What Transmit leaves behind, when there is room. *)
LEMMA TransmitKeeps ==
  ASSUME TcpInv, Steady, NEW s \in Slot, InUse(s), NEW b \in Block,
         b.link = "open", b.unacked < SndBuf,
         NEW data \in Seq(Token), data # <<>>, b.said = b.wire \o data,
         Transmit(s, b, data)
  PROVE  TcpInv'
<1> DEFINE room == SndBuf - b.unacked
           n == IF room < Len(data) THEN room ELSE Len(data)
           c == [clients[s] EXCEPT !.sending = TRUE,
                                   !.buffer = SubSeq(data, n + 1, Len(data))]
           d == [b EXCEPT !.wire = @ \o SubSeq(data, 1, n), !.unacked = @ + n]
<1>0. b.unacked \in Nat /\ SndBuf \in Nat /\ room \in Nat /\ room > 0
  BY EspTCPConstantsOK DEF Block
<1>1. n \in 1 .. Len(data) /\ n <= room
  <2>1. Len(data) \in Nat /\ Len(data) > 0
    BY EmptySeq, LenProperties
  <2> HIDE DEF room
  <2> QED BY <1>0, <2>1
<1>2. clients[s] \in Client /\ clients[s].pcb \in Pcb
  BY PcbInUse DEF TcpInv
<1> HIDE DEF n
<1>3. /\ SubSeq(data, 1, n) \in Seq(Token)
      /\ SubSeq(data, n + 1, Len(data)) \in Seq(Token)
      /\ SubSeq(data, 1, n) \o SubSeq(data, n + 1, Len(data)) = data
  BY <1>1, CutData, LenProperties
<1>4. b.wire \o SubSeq(data, 1, n) \in Seq(Token)
  BY <1>3, ConcatProperties DEF Block
<1>5. c \in Client /\ c.sending /\ c.pcb = clients[s].pcb
  BY <1>2, <1>3 DEF Client
<1>6. /\ d \in Block /\ d.link = "open" /\ d.said = b.said
      /\ d.unacked > 0 /\ d.unacked <= SndBuf
  <2>1. n \in Nat /\ n > 0
    BY <1>1, LenProperties
  <2>2. b.unacked + n \in Nat /\ b.unacked + n > 0 /\ b.unacked + n <= SndBuf
    BY <1>0, <1>1, <2>1
  <2> QED BY <1>4, <2>2 DEF Block
<1>7. d.said = d.wire \o c.buffer
  <2>1. d.wire = b.wire \o SubSeq(data, 1, n)
    BY DEF Block
  <2>2. c.buffer = SubSeq(data, n + 1, Len(data))
    BY <1>2 DEF Client
  <2>3. b.wire \in Seq(Token)
    BY DEF Block
  <2>4. b.wire \o data =
          (b.wire \o SubSeq(data, 1, n)) \o SubSeq(data, n + 1, Len(data))
    <3> DEFINE x == SubSeq(data, 1, n)  y == SubSeq(data, n + 1, Len(data))
    <3>1. x \in Seq(Token) /\ y \in Seq(Token) /\ x \o y = data
      BY <1>3
    <3> HIDE DEF x, y
    <3>2. (b.wire \o x) \o y = b.wire \o (x \o y)
      BY <2>3, <3>1, Associative
    <3>3. (b.wire \o x) \o y = b.wire \o data
      BY <3>1, <3>2
    <3> QED BY <3>3 DEF x, y
  <2>5. d.said = b.wire \o data
    BY <1>6
  <2> HIDE DEF d, c
  <2> QED BY <2>1, <2>2, <2>4, <2>5
<1>8. Good(c, d)
  BY <1>5, <1>6, <1>7 DEF Good
<1>9. clients' = [clients EXCEPT ![s] = c] /\ net' = [net EXCEPT ![clients[s].pcb] = d]
  BY DEF Transmit, n, Steady
<1> QED BY <1>5, <1>8, <1>9, Update

-----------------------------------------------------------------------------
(* One lemma per operation. *)
LEMMA AcceptKeeps ==
  ASSUME TcpInv, NEW p \in Pcb, NEW f \in Slot, Accept(p, f) PROVE TcpInv'
<1> DEFINE c == [pcb |-> p, sending |-> FALSE, buffer |-> <<>>]
           b == [FreeBlock EXCEPT !.link = "open"]
<1>2. clients' = [clients EXCEPT ![f] = c] /\ net' = [net EXCEPT ![p] = b]
  BY DEF Accept
<1>3. c \in Client /\ b \in Block /\ Good(c, b)
  <2>1. <<>> \in Seq(Token) /\ <<>> \o <<>> = <<>>
    BY EmptySeq, ConcatEmptySeq
  <2>2. c \in Client /\ b \in Block
    BY <2>1 DEF Client, Block, FreeBlock
  <2> QED BY <2>1, <2>2, EspTCPConstantsOK DEF FreeBlock, Good
<1>4. clients' \in [Slot -> Client] /\ net' \in [Pcb -> Block]
  BY <1>2, <1>3 DEF TcpInv
<1>5. f \in Slot /\ ~ InUse(f) /\ clients'[f] = c /\ net'[p] = b
  BY <1>2 DEF TcpInv, Accept
<1>6. \A t \in Slot : t # f => clients'[t] = clients[t]
  BY <1>2 DEF TcpInv
<1>7. \A q \in Pcb : q # p => net'[q] = net[q]
  BY <1>2 DEF TcpInv
<1>8. \A t \in Slot : InUse(t) => clients[t].pcb # p /\ clients[t].pcb \in Pcb
  BY PcbInUse DEF TcpInv, Good, Accept
<1>9. ASSUME NEW t \in Slot, InUse(t)' PROVE Good(clients[t], net[clients[t].pcb])'
  <2>1. CASE t = f
    <3>1. clients'[t] = c /\ net'[clients'[t].pcb] = b
      BY <1>5, <2>1
    <3> HIDE DEF b, c
    <3> QED BY <1>3, <3>1 DEF Good, Client, Block
  <2>2. CASE t # f
    <3>1. InUse(t)
      BY <1>6, <1>9, <2>2 DEF InUse
    <3>2. Good(clients[t], net[clients[t].pcb])
      BY <3>1 DEF TcpInv
    <3>3. clients'[t] = clients[t] /\ net'[clients[t].pcb] = net[clients[t].pcb]
      BY <1>6, <1>7, <1>8, <2>2, <3>1
    <3> QED BY <3>2, <3>3 DEF Good, Client, Block
  <2> QED BY <2>1, <2>2
<1>10. ASSUME NEW t \in Slot, NEW u \in Slot, InUse(t)', clients'[t].pcb = clients'[u].pcb
       PROVE  t = u
  <2>1. \A v \in Slot : clients'[v].pcb = p => v = f
    BY <1>6, <1>8, EspTCPConstantsOK DEF InUse
  <2>2. CASE t = f
    BY <1>5, <1>10, <2>1, <2>2
  <2>3. CASE u = f
    BY <1>5, <1>10, <2>1, <2>3
  <2>4. CASE t # f /\ u # f
    BY <1>6, <1>10, <2>4 DEF TcpInv, InUse
  <2> QED BY <2>2, <2>3, <2>4
<1>11. ASSUME NEW q \in Pcb, net'[q].link = "open"
       PROVE  \E t \in Slot : clients'[t].pcb = q
  <2>1. CASE q = p
    BY <1>5, <2>1
  <2>2. CASE q # p
    <3>1. PICK t \in Slot : clients[t].pcb = q
      BY <1>7, <1>11, <2>2 DEF TcpInv
    <3>2. InUse(t)
      BY <3>1, EspTCPConstantsOK DEF InUse
    <3> QED BY <1>5, <1>6, <3>1, <3>2
  <2> QED BY <2>1, <2>2
<1> QED BY <1>4, <1>9, <1>10, <1>11 DEF TcpInv

LEMMA SendKeeps ==
  ASSUME TcpInv, Steady, NEW s \in Slot, NEW data \in Seq(Token), data # <<>>, Send(s, data)
  PROVE  TcpInv'
<1> DEFINE p == clients[s].pcb
           b == [net[p] EXCEPT !.said = @ \o data]
           c == [clients[s] EXCEPT !.buffer = @ \o data]
<1>1. CASE ~ InUse(s)
  BY <1>1 DEF Send, TcpInv, InUse, Good, tcpVars
<1>2. CASE InUse(s)
  <2>1. p \in Pcb /\ Good(clients[s], net[p])
    BY <1>2, PcbInUse DEF TcpInv
  <2>2. /\ net[p] \in Block /\ clients[s] \in Client
        /\ net[p].said \in Seq(Token) /\ net[p].wire \in Seq(Token)
        /\ clients[s].buffer \in Seq(Token)
    BY <2>1 DEF Good, Block, Client
  <2>3. /\ net[p].said \o data \in Seq(Token)
        /\ clients[s].buffer \o data \in Seq(Token)
        /\ clients[s].buffer \o data # <<>>
    BY <2>2, ConcatProperties, ConcatEqualIffEmpty
  <2>4. /\ b \in Block /\ b.link = "open" /\ b.unacked = net[p].unacked
        /\ b.wire = net[p].wire /\ b.said = net[p].said \o data
    BY <2>1, <2>2, <2>3 DEF Good, Block
  <2>5. b.said = net[p].wire \o (clients[s].buffer \o data)
    <3>1. net[p].said = net[p].wire \o clients[s].buffer
      BY <2>1 DEF Good
    <3>2. (net[p].wire \o clients[s].buffer) \o data
            = net[p].wire \o (clients[s].buffer \o data)
      BY <2>2, Associative
    <3> HIDE DEF b
    <3> QED BY <2>4, <3>1, <3>2
  <2>6. CASE clients[s].sending
    <3>1. clients' = [clients EXCEPT ![s] = c] /\ net' = [net EXCEPT ![p] = b]
      BY <1>2, <2>6 DEF Send
    <3>2. /\ c \in Client /\ c.pcb = p /\ c.sending /\ c.buffer = clients[s].buffer \o data
      BY <2>2, <2>3, <2>6 DEF Client
    <3>3. Good(c, b)
      BY <2>1, <2>4, <2>5, <2>6, <3>2 DEF Good
    <3> QED BY <1>2, <3>1, <3>2, <3>3, Update
  <2>7. CASE ~ clients[s].sending
    <3>1. Transmit(s, b, data)
      BY <1>2, <2>7 DEF Send
    <3>2. b.unacked < SndBuf /\ clients[s].buffer = <<>>
      BY <2>1, <2>4, <2>7 DEF Good
    <3>3. b.said = b.wire \o data
      BY <2>4, <2>5, <3>2, ConcatEmptySeq
    <3> HIDE DEF b
    <3> QED BY <1>2, <2>4, <3>1, <3>2, <3>3, TransmitKeeps
  <2> QED BY <2>6, <2>7
<1> QED BY <1>1, <1>2

(* A block that is not open is no slot's. *)
LEMMA NotFound ==
  ASSUME TcpInv, NEW p \in Pcb, net[p].link # "open"
  PROVE  findConnection(p) = -1 /\ \A s \in Slot : clients[s].pcb # p
<1>1. ASSUME NEW s \in Slot, clients[s].pcb = p PROVE FALSE
  <2>1. InUse(s)
    BY <1>1, PcbInUse
  <2>2. Good(clients[s], net[p])
    BY <1>1, <2>1 DEF TcpInv
  <2> QED BY <2>2 DEF Good
<1>2. Matches(p) = {}
  BY <1>1 DEF Matches
<1> QED BY <1>1, <1>2 DEF findConnection

LEMMA SentKeeps ==
  ASSUME TcpInv, Steady, NEW p \in Pcb, NEW n \in 1 .. net[p].unacked, Sent(p, n)
  PROVE  TcpInv'
<1> DEFINE s == findConnection(p)
           b == [net[p] EXCEPT !.unacked = @ - n]
           c == [clients[s] EXCEPT !.sending = FALSE]
<1>0. net[p] \in Block /\ net[p].unacked \in Nat /\ net[p].unacked - n \in Nat
  <2>1. net[p] \in Block /\ net[p].unacked \in Nat
    BY DEF TcpInv, Block
  <2> QED BY <2>1
<1>1. /\ b \in Block /\ b.unacked = net[p].unacked - n /\ b.link = net[p].link
      /\ b.said = net[p].said /\ b.wire = net[p].wire
  BY <1>0 DEF Block
<1>2. CASE net[p].link = "open"
  <2>2. s \in Slot /\ clients[s].pcb = p /\ InUse(s) /\ s >= 0
    BY <1>2, Found, EspTCPConstantsOK
  <2>3. Good(clients[s], net[p])
    BY <2>2 DEF TcpInv
  <2>4. clients[s] \in Client /\ clients[s].buffer \in Seq(Token)
    BY <2>3 DEF Good, Client
  <2>5. /\ b.link = "open" /\ b.unacked < SndBuf
        /\ b.said = b.wire \o clients[s].buffer
    <3>1. net[p].unacked <= SndBuf /\ SndBuf \in Nat
      BY <2>3, EspTCPConstantsOK DEF Good
    <3>2. net[p].said = net[p].wire \o clients[s].buffer
      BY <2>3 DEF Good
    <3> HIDE DEF b, s
    <3> QED BY <1>0, <1>1, <1>2, <3>1, <3>2
  <2>7. CASE clients[s].buffer # <<>>
    <3>1. Transmit(s, b, clients[s].buffer)
      BY <2>2, <2>7 DEF Sent
    <3> HIDE DEF b, s
    <3> QED BY <1>1, <2>2, <2>4, <2>5, <2>7, <3>1, TransmitKeeps
  <2>8. CASE clients[s].buffer = <<>>
    <3>1. clients' = [clients EXCEPT ![s] = c] /\ net' = [net EXCEPT ![p] = b]
      <4>1. ~ (s < 0) /\ ~ (s >= 0 /\ clients[s].buffer # <<>>)
        BY <2>2, <2>8
      <4> HIDE DEF s
      <4>2. /\ net' = [net EXCEPT ![p] = b]
            /\ clients' = [clients EXCEPT ![s].sending = FALSE]
        BY <4>1 DEF Sent, s
      <4> QED BY <4>2
    <3>2. c \in Client /\ c.pcb = p /\ ~ c.sending /\ c.buffer = clients[s].buffer
      BY <2>2, <2>4 DEF Client
    <3>4. b.unacked <= SndBuf
      BY <1>1, <2>5, EspTCPConstantsOK DEF Block
    <3>5. Good(c, b)
      <4> HIDE DEF b, c, s
      <4> QED BY <1>1, <2>5, <2>8, <3>2, <3>4 DEF Good
    <3> HIDE DEF b, c, s
    <3> QED BY <2>2, <3>1, <3>2, <3>5, Update
  <2> QED BY <2>7, <2>8
<1>3. CASE net[p].link # "open"
  <2>1. s = -1 /\ \A t \in Slot : clients[t].pcb # p
    BY <1>3, NotFound
  <2>2. net' = [net EXCEPT ![p] = b] /\ clients' = clients
    BY <2>1 DEF Sent
  <2> HIDE DEF b, s
  <2>3. net' \in [Pcb -> Block] /\ \A q \in Pcb : q # p => net'[q] = net[q]
    BY <1>1, <2>2 DEF TcpInv
  <2>4. net'[p].link # "open"
    BY <1>1, <1>3, <2>2 DEF TcpInv
  <2>5. ASSUME NEW t \in Slot, InUse(t)' PROVE Good(clients[t], net[clients[t].pcb])'
    <3>1. InUse(t) /\ net'[clients[t].pcb] = net[clients[t].pcb]
      BY <2>1, <2>2, <2>3, <2>5, PcbInUse DEF InUse
    <3>2. Good(clients[t], net[clients[t].pcb])
      BY <3>1 DEF TcpInv
    <3> QED BY <2>2, <3>1, <3>2 DEF Good, Client, Block
  <2> QED BY <2>2, <2>3, <2>4, <2>5 DEF TcpInv, InUse
<1> QED BY <1>2, <1>3

(* A slot gives up its client, and the control block is not open any more. *)
LEMMA GiveUpKeeps ==
  ASSUME TcpInv, NEW s \in Slot, InUse(s), NEW link \in {"free", "closed"},
         Close(s, link)
  PROVE  TcpInv'
<1> DEFINE p == clients[s].pcb
           b == IF link = "free" THEN FreeBlock
                ELSE [FreeBlock EXCEPT !.link = link, !.unacked = net[p].unacked]
<1>1. p \in Pcb
  BY PcbInUse
<1>2. clients' = [clients EXCEPT ![s].pcb = NoPcb] /\ net' = [net EXCEPT ![p] = b]
  BY DEF Close
<1>3. b \in Block /\ b.link # "open"
  <2>1. FreeBlock \in Block /\ FreeBlock.link # "open"
    BY EmptySeq DEF Block, FreeBlock
  <2>2. net[p] \in Block
    BY <1>1 DEF TcpInv
  <2>3. link # "free" => b \in Block /\ b.link = link
    BY <2>2, EmptySeq DEF Block, FreeBlock
  <2>4. CASE link = "free"
    BY <2>1, <2>4
  <2>5. CASE link # "free"
    BY <2>3, <2>5
  <2> QED BY <2>4, <2>5
<1> HIDE DEF b
<1>4. clients' \in [Slot -> Client] /\ net' \in [Pcb -> Block]
  <2>1. clients[s] \in Client
    BY DEF TcpInv
  <2>2. [clients[s] EXCEPT !.pcb = NoPcb] \in Client
    BY <2>1 DEF Client
  <2>3. clients' = [clients EXCEPT ![s] = [clients[s] EXCEPT !.pcb = NoPcb]]
    BY <1>2
  <2>4. clients' \in [Slot -> Client]
    BY <2>2, <2>3 DEF TcpInv
  <2>5. net' \in [Pcb -> Block]
    BY <1>2, <1>3 DEF TcpInv
  <2> QED BY <2>4, <2>5
<1>5. ~ InUse(s)' /\ net'[p] = b
  BY <1>1, <1>2 DEF TcpInv, InUse, Client
<1>6. \A t \in Slot : t # s => clients'[t] = clients[t]
  BY <1>2 DEF TcpInv
<1>7. \A t \in Slot : t # s /\ InUse(t) => clients[t].pcb # p
  BY DEF TcpInv
<1>8. \A q \in Pcb : q # p => net'[q] = net[q]
  BY <1>2 DEF TcpInv
<1>9. ASSUME NEW t \in Slot, InUse(t)' PROVE Good(clients[t], net[clients[t].pcb])'
  <2>1. t # s /\ InUse(t) /\ clients'[t] = clients[t]
    BY <1>5, <1>6, <1>9 DEF InUse
  <2>2. net'[clients[t].pcb] = net[clients[t].pcb]
    BY <1>7, <1>8, <2>1, PcbInUse
  <2>3. Good(clients[t], net[clients[t].pcb])
    BY <2>1 DEF TcpInv
  <2> QED BY <2>1, <2>2, <2>3 DEF Good, Client, Block
<1>10. ASSUME NEW t \in Slot, NEW u \in Slot, InUse(t)', clients'[t].pcb = clients'[u].pcb
       PROVE  t = u
  <2>1. InUse(u)'
    BY <1>10 DEF InUse
  <2> QED BY <1>5, <1>6, <1>10, <2>1 DEF TcpInv, InUse
<1>11. ASSUME NEW q \in Pcb, net'[q].link = "open"
       PROVE  \E t \in Slot : clients'[t].pcb = q
  <2>1. q # p /\ net[q].link = "open"
    BY <1>3, <1>5, <1>8, <1>11
  <2>2. PICK t \in Slot : clients[t].pcb = q
    BY <2>1 DEF TcpInv
  <2> QED BY <1>6, <2>1, <2>2
<1> QED BY <1>4, <1>9, <1>10, <1>11 DEF TcpInv

LEMMA ReleaseKeeps ==
  ASSUME TcpInv, NEW p \in Pcb, Release(p) PROVE TcpInv'
<1>1. FreeBlock \in Block /\ FreeBlock.link # "open"
  BY EmptySeq DEF Block, FreeBlock
<1>2. net' \in [Pcb -> Block] /\ \A q \in Pcb : q # p => net'[q] = net[q]
  BY <1>1 DEF TcpInv, Release
<1>3. net'[p].link # "open"
  BY <1>1 DEF TcpInv, Release
<1>4. \A s \in Slot : InUse(s) => clients[s].pcb \in Pcb /\ clients[s].pcb # p
  BY PcbInUse DEF TcpInv, Good, Release
<1>5. clients' = clients
  BY DEF Release
<1>6. ASSUME NEW t \in Slot, InUse(t)' PROVE Good(clients[t], net[clients[t].pcb])'
  <2>1. InUse(t) /\ net'[clients[t].pcb] = net[clients[t].pcb]
    BY <1>2, <1>4, <1>5, <1>6 DEF InUse
  <2> QED BY <1>5, <2>1 DEF TcpInv, Good, Client, Block
<1> QED BY <1>2, <1>3, <1>5, <1>6 DEF TcpInv, InUse

(* What has been read leaves both histories. *)
LEMMA ReadKeeps ==
  ASSUME TcpInv, NEW p \in Pcb, Read(p) PROVE TcpInv'
<1> DEFINE b == [net[p] EXCEPT !.said = SubSeq(@, Len(net[p].wire) + 1, Len(@)),
                               !.wire = <<>>]
<1>1. net' = [net EXCEPT ![p] = b] /\ clients' = clients
  BY DEF Read, TcpInv
<1>2. /\ net[p] \in Block /\ net[p].said \in Seq(Token) /\ net[p].wire \in Seq(Token)
      /\ Len(net[p].wire) \in Nat /\ Len(net[p].said) \in Nat
  BY LenProperties DEF TcpInv, Block
<1>3. SubSeq(net[p].said, Len(net[p].wire) + 1, Len(net[p].said)) \in Seq(Token)
  BY <1>2, ElementOfSeq, SubSeqProperties
<1>4. /\ b \in Block /\ b.link = net[p].link /\ b.unacked = net[p].unacked
      /\ b.wire = <<>>
      /\ b.said = SubSeq(net[p].said, Len(net[p].wire) + 1, Len(net[p].said))
  BY <1>2, <1>3, EmptySeq DEF Block
<1> HIDE DEF b
<1>5. ASSUME NEW s \in Slot, InUse(s), clients[s].pcb = p PROVE Good(clients[s], b)
  <2> DEFINE w == net[p].wire  u == clients[s].buffer
  <2>1. Good(clients[s], net[p])
    BY <1>5 DEF TcpInv
  <2>2. w \in Seq(Token) /\ u \in Seq(Token) /\ net[p].said = w \o u
    BY <1>2, <2>1 DEF Good, Client
  <2> HIDE DEF w, u
  <2>3. SubSeq(w \o u, Len(w) + 1, Len(w \o u)) = u
    BY <2>2, LenProperties, ConcatProperties, SMTT(30)
  <2>4. <<>> \o u = u
    BY <2>2, ConcatEmptySeq
  <2>5. b.said = b.wire \o u
    BY <1>4, <2>2, <2>3, <2>4 DEF w
  <2> QED BY <1>4, <2>1, <2>5 DEF Good, u
<1>6. CASE \E s \in Slot : InUse(s) /\ clients[s].pcb = p
  <2>1. PICK s \in Slot : InUse(s) /\ clients[s].pcb = p
    BY <1>6
  <2>2. clients' = [clients EXCEPT ![s] = clients[s]]
    BY <1>1 DEF TcpInv
  <2> QED BY <1>1, <1>5, <2>1, <2>2, Update
<1>7. CASE ~ \E s \in Slot : InUse(s) /\ clients[s].pcb = p
  <2>1. net[p].link # "open"
    BY <1>7, Found
  <2>2. net' \in [Pcb -> Block] /\ \A q \in Pcb : q # p => net'[q] = net[q]
    BY <1>1, <1>4 DEF TcpInv
  <2>3. net'[p].link # "open"
    BY <1>1, <1>4, <2>1 DEF TcpInv
  <2>4. ASSUME NEW t \in Slot, InUse(t)' PROVE Good(clients[t], net[clients[t].pcb])'
    <3>1. InUse(t) /\ net'[clients[t].pcb] = net[clients[t].pcb]
      BY <1>1, <1>7, <2>2, <2>4, PcbInUse DEF InUse
    <3>2. Good(clients[t], net[clients[t].pcb])
      BY <3>1 DEF TcpInv
    <3> QED BY <1>1, <3>1, <3>2 DEF Good, Client, Block
  <2> QED BY <1>1, <2>2, <2>3, <2>4 DEF TcpInv, InUse
<1> QED BY <1>6, <1>7

-----------------------------------------------------------------------------
LEMMA TcpInductive ==
  Steady => (TcpInit => TcpInv) /\ (TcpInv /\ [TcpNext]_tcpVars => TcpInv')
<1> SUFFICES ASSUME Steady PROVE (TcpInit => TcpInv) /\ (TcpInv /\ [TcpNext]_tcpVars => TcpInv')
  OBVIOUS
<1>1. TcpInit => TcpInv
  BY EmptySeq DEF TcpInit, TcpInv, InUse, Client, Block, FreeBlock
<1>2. ASSUME TcpInv, [TcpNext]_tcpVars PROVE TcpInv'
  <2>1. ASSUME NEW p \in Pcb, NEW s \in Slot, Accept(p, s) PROVE TcpInv'
    BY <1>2, <2>1, AcceptKeeps
  <2>2. ASSUME NEW p \in Pcb, NEW n \in 1 .. net[p].unacked, Sent(p, n) PROVE TcpInv'
    BY <1>2, <2>2, SentKeeps
  <2>3. ASSUME NEW p \in Pcb, PeerCloses(p) PROVE TcpInv'
    BY <1>2, <2>3, Found, GiveUpKeeps DEF PeerCloses
  <2>4. ASSUME NEW p \in Pcb, Release(p) PROVE TcpInv'
    BY <1>2, <2>4, ReleaseKeeps
  <2>5. ASSUME NEW p \in Pcb, Read(p) PROVE TcpInv'
    BY <1>2, <2>5, ReadKeeps
  <2>6. ASSUME NEW s \in Slot, NEW data \in Seq(Token) \ {<<>>}, Send(s, data) PROVE TcpInv'
    BY <1>2, <2>6, SendKeeps
  <2>7. ASSUME UNCHANGED tcpVars PROVE TcpInv'
    BY <1>2, <2>7 DEF tcpVars, TcpInv, InUse, Good, Client, Block
  <2>8. ASSUME NEW s \in Slot, Disconnect(s) PROVE TcpInv'
    BY <1>2, <2>7, <2>8, GiveUpKeeps DEF Disconnect
  <2>9. ~ \E p \in Pcb : Reset(p)
    BY DEF Reset, Steady
  <2> QED
    BY <1>2, <2>1, <2>2, <2>3, <2>4, <2>5, <2>6, <2>7, <2>8, <2>9 DEF TcpNext, Abort
<1> QED BY <1>1, <1>2

(* A slot's connection is its own, and an acknowledgement is on its way whenever
   its client waits for one: EspTCP's table of clients, for any delegate, and
   whatever part of the data peers acknowledge and when, unless one resets or a
   tcp_write fails. *)
THEOREM SlotsAreAlwaysServed ==
  ASSUME Faults \cap {"resets", "writeFails"} = {}
  PROVE  TcpSpec => []SlotsAreServed
<1> USE DEF Steady
<1>1. TcpInv => SlotsAreServed
  <2> SUFFICES ASSUME TcpInv PROVE SlotsAreServed
    OBVIOUS
  <2>1. ASSUME NEW p \in Pcb, net[p].link = "open" PROVE \E s \in Slot : Matches(p) = {s}
    BY <2>1, Found DEF Matches, TcpInv
  <2>2. \A s \in Slot : InUse(s) => LET b == net[clients[s].pcb] IN
          /\ b.link = "open"
          /\ clients[s].sending => b.unacked > 0
          /\ clients[s].buffer # <<>> => clients[s].sending
    BY DEF TcpInv, Good
  <2> QED BY <2>1, <2>2 DEF SlotsAreServed
<1> QED BY <1>1, TcpInductive, PTL DEF TcpSpec

(* What a delegate sends reaches the wire in order: Client::send and sent, for
   any sizes of messages and of lwIP's buffer, and any acknowledgements. *)
THEOREM StreamIsInOrder ==
  ASSUME Faults \cap {"resets", "writeFails"} = {}
  PROVE  TcpSpec => []StreamInOrder
<1> USE DEF Steady
<1>1. TcpInv => StreamInOrder
  BY DEF TcpInv, StreamInOrder, Good
<1> QED BY <1>1, TcpInductive, PTL DEF TcpSpec

-----------------------------------------------------------------------------
(* What the shells' operators on sequences give. *)
LEMMA Least ==
  ASSUME NEW S, S \subseteq Nat, S # {}
  PROVE  \E x \in S : \A y \in S : x <= y
<1> DEFINE R == StrictSubsetOrdering(Nat)
           below == {1 .. x : x \in S}
<1>1. IsWellFoundedOn(R, FiniteSubsetsOf(Nat))
  BY FS_StrictSubsetOrderingWellFounded
<1>2. \A x \in Nat : 1 .. x \in FiniteSubsetsOf(Nat)
  BY FS_Interval DEF FiniteSubsetsOf
<1>3. below \subseteq FiniteSubsetsOf(Nat) /\ below # {}
  BY <1>2
<1>4. PICK b \in below : \A c \in below : ~ (<<c, b>> \in R)
  <2> HIDE DEF R, below
  <2> QED BY <1>1, <1>3, WFMin
<1>5. PICK x \in S : b = 1 .. x
  OBVIOUS
<1>6. ASSUME NEW y \in S, y < x PROVE FALSE
  <2>1. x \in Nat /\ y \in Nat
    OBVIOUS
  <2>2. 1 .. y \subseteq 1 .. x /\ x \in 1 .. x /\ x \notin 1 .. y
    BY <2>1, <1>6
  <2>3. <<1 .. y, 1 .. x>> \in R
    <3>1. 1 .. y \in SUBSET Nat /\ 1 .. x \in SUBSET Nat /\ 1 .. y # 1 .. x
      BY <2>2
    <3> QED BY <2>2, <3>1, Zenon DEF StrictSubsetOrdering
  <2> QED BY <1>4, <1>5, <2>3
<1> QED BY <1>6

LEMMA MinIs ==
  ASSUME NEW S, S \subseteq Nat, S # {}
  PROVE  Min(S) \in S /\ \A y \in S : Min(S) <= y
BY Least DEF Min

LEMMA KindsOfTokens ==
  \A kind, n : Cmd(kind, n).kind = kind /\ Tok(kind).kind = kind /\ Tok(kind) = Cmd(kind, 0)
               /\ Data(n) = Cmd("data", n)
BY DEF Cmd, Tok, Data

(* The places of the tokens of kinds K in s, counted up to the i-th: where there
   is one more, it is the one more. *)
Count(s, K, i) == Cardinality({h \in Places(s, K) : h <= i})

LEMMA CountIs ==
  ASSUME NEW S, NEW s \in Seq(S), NEW K
  PROVE  /\ Places(s, K) \subseteq 1 .. Len(s)
         /\ IsFiniteSet(Places(s, K)) /\ Cardinality(Places(s, K)) \in Nat
         /\ Count(s, K, 0) = 0
         /\ \A i \in Nat : Count(s, K, i) \in Nat
         /\ \A i \in Nat : Count(s, K, i + 1) = IF i + 1 \in Places(s, K) THEN Count(s, K, i) + 1
                                                ELSE Count(s, K, i)
         /\ \A i, j \in Nat : i <= j => Count(s, K, i) <= Count(s, K, j)
         /\ \A i \in Nat : i >= Len(s) => Count(s, K, i) = Cardinality(Places(s, K))
<1> DEFINE I == Places(s, K)
           Up(i) == {h \in I : h <= i}
<1>1. I \subseteq 1 .. Len(s) /\ Len(s) \in Nat
  BY LenProperties DEF Places
<1>0. \A h \in I : h \in Nat /\ 1 <= h /\ h <= Len(s)
  <2>1. ASSUME NEW h \in I PROVE h \in 1 .. Len(s)
    BY <1>1
  <2> QED BY <1>1, <2>1
<1>2. IsFiniteSet(I) /\ Cardinality(I) \in Nat
  <2>1. IsFiniteSet(1 .. Len(s))
    BY <1>1, FS_Interval
  <2>2. IsFiniteSet(I)
    BY <1>1, <2>1, FS_Subset
  <2> QED BY <2>2, FS_CardinalityType
<1> HIDE DEF I, Up
<1>3. \A i : Count(s, K, i) = Cardinality(Up(i))
  BY DEF Count, I, Up
<1>4. \A i : IsFiniteSet(Up(i)) /\ Cardinality(Up(i)) \in Nat
  <2> TAKE i
  <2>1. Up(i) \in SUBSET I
    BY DEF Up
  <2>2. IsFiniteSet(Up(i))
    BY <1>2, <2>1, FS_Subset
  <2> QED BY <2>2, FS_CardinalityType
<1>5. Count(s, K, 0) = 0
  <2>1. Up(0) = {}
    BY <1>0 DEF Up
  <2> QED BY <1>3, <2>1, FS_EmptySet
<1>6. ASSUME NEW i \in Nat
      PROVE  Cardinality(Up(i + 1)) = IF i + 1 \in I THEN Cardinality(Up(i)) + 1
                                      ELSE Cardinality(Up(i))
  <2>1. CASE i + 1 \in I
    <3>1. Up(i + 1) = Up(i) \cup {i + 1} /\ i + 1 \notin Up(i)
      BY <1>0, <2>1 DEF Up
    <3> QED BY <2>1, <3>1, <1>4, FS_AddElement
  <2>2. CASE i + 1 \notin I
    <3>1. Up(i + 1) = Up(i)
      BY <1>0, <2>2 DEF Up
    <3> QED BY <2>2, <3>1
  <2> QED BY <2>1, <2>2
<1>7. ASSUME NEW i \in Nat, NEW j \in Nat, i <= j PROVE Cardinality(Up(i)) <= Cardinality(Up(j))
  <2>1. Up(i) \in SUBSET Up(j)
    BY <1>0, <1>7 DEF Up
  <2> QED BY <2>1, <1>4, FS_Subset
<1>8. ASSUME NEW i \in Nat, i >= Len(s) PROVE Up(i) = I
  <2>1. \A h \in I : h <= i
    BY <1>0, <1>1, <1>8
  <2> QED BY <2>1 DEF Up
<1> QED BY <1>1, <1>2, <1>3, <1>4, <1>5, <1>6, <1>7, <1>8 DEF I

(* Each place has its number, and each number its place. *)
LEMMA NumberedPlaces ==
  ASSUME NEW S, NEW s \in Seq(S), NEW K
  PROVE  /\ \A i \in Places(s, K) : Count(s, K, i) \in 1 .. Cardinality(Places(s, K))
         /\ \A i, j \in Places(s, K) : Count(s, K, i) = Count(s, K, j) => i = j
         /\ \A j \in 1 .. Cardinality(Places(s, K)) : \E i \in Places(s, K) : Count(s, K, i) = j
<1> DEFINE I == Places(s, K)
           c == Cardinality(I)
           N(i) == Count(s, K, i)
<1>0. \A i \in I : i \in Nat /\ i - 1 \in Nat /\ i - 1 + 1 = i /\ i <= Len(s)
  <2>1. ASSUME NEW i \in I PROVE i \in 1 .. Len(s)
    BY CountIs
  <2> QED BY <2>1, LenProperties
<1>1. c \in Nat /\ N(0) = 0 /\ Len(s) \in Nat
  BY CountIs, LenProperties
<1>2. \A i \in Nat : N(i) \in Nat /\ N(i + 1) = IF i + 1 \in I THEN N(i) + 1 ELSE N(i)
  BY CountIs
<1>3. \A i, j \in Nat : i <= j => N(i) <= N(j)
  BY CountIs
<1>4. N(Len(s)) = c
  BY <1>1, CountIs
<1> HIDE DEF I, c, N
<1>5. ASSUME NEW i \in I PROVE N(i) \in 1 .. c /\ N(i) = N(i - 1) + 1
  <2>1. i \in Nat /\ i - 1 \in Nat /\ i - 1 + 1 = i /\ i <= Len(s)
    BY <1>0
  <2>2. N(i - 1) \in Nat /\ N(i) = N(i - 1) + 1
    BY <1>2, <2>1
  <2>3. N(i) <= c
    BY <1>1, <1>3, <1>4, <2>1
  <2> QED BY <1>1, <2>2, <2>3
<1>6. ASSUME NEW i \in I, NEW j \in I, i < j PROVE N(i) < N(j)
  <2>1. i \in Nat /\ j \in Nat /\ j - 1 \in Nat /\ i <= j - 1
    BY <1>0, <1>6
  <2>2. N(i) <= N(j - 1) /\ N(j) = N(j - 1) + 1
    BY <1>3, <1>5, <2>1
  <2> QED BY <1>2, <2>1, <2>2
<1>7. ASSUME NEW i \in I, NEW j \in I, N(i) = N(j) PROVE i = j
  <2>1. i \in Nat /\ j \in Nat /\ N(i) \in Nat /\ N(j) \in Nat
    BY <1>0, <1>2
  <2> QED BY <1>6, <1>7, <2>1
<1>8. ASSUME NEW j \in 1 .. c PROVE \E i \in I : N(i) = j
  <2> DEFINE T == {i \in Nat : N(i) >= j}
  <2>1. Len(s) \in T /\ T \subseteq Nat
    BY <1>1, <1>4
  <2>2. PICK i \in T : \A h \in T : i <= h
    <3> HIDE DEF T
    <3> QED BY <2>1, Least
  <2>3. i \in Nat /\ N(i) >= j /\ N(i) \in Nat /\ j \in Nat /\ j >= 1
    BY <1>1, <1>2
  <2>4. i - 1 \in Nat
    BY <1>1, <2>3
  <2>5. ~ (N(i - 1) >= j) /\ N(i - 1) \in Nat
    <3>1. i - 1 \notin T
      <4> HIDE DEF T
      <4> QED BY <2>2, <2>3
    <3> QED BY <1>2, <2>4, <3>1
  <2>6. N(i) = IF i \in I THEN N(i - 1) + 1 ELSE N(i - 1)
    <3>1. i - 1 + 1 = i
      BY <2>3
    <3> QED BY <1>2, <2>4, <3>1
  <2>7. i \in I /\ N(i) = j
    BY <2>3, <2>5, <2>6
  <2> QED BY <2>7
<1> QED BY <1>5, <1>7, <1>8 DEF I, c, N

LEMMA OfKindIs ==
  ASSUME NEW S, NEW s \in Seq(S), NEW K
  PROVE  /\ OfKind(s, K) \in Seq(S)
         /\ Len(OfKind(s, K)) = Cardinality(Places(s, K))
         /\ \A i \in Places(s, K) : OfKind(s, K)[Count(s, K, i)] = s[i]
<1> DEFINE I == Places(s, K)
           c == Cardinality(I)
           N(i) == Count(s, K, i)
           Nth(j) == CHOOSE i \in I : N(i) = j
           f == [j \in 1 .. c |-> s[Nth(j)]]
<1>1. OfKind(s, K) = f
  BY DEF OfKind, Count
<1>2. c \in Nat /\ I \subseteq 1 .. Len(s)
  BY CountIs
<1>3. /\ \A i \in I : N(i) \in 1 .. c
      /\ \A i, j \in I : N(i) = N(j) => i = j
      /\ \A j \in 1 .. c : \E i \in I : N(i) = j
  BY NumberedPlaces
<1> HIDE DEF I, c, N
<1>4. \A j \in 1 .. c : Nth(j) \in I /\ N(Nth(j)) = j
  BY <1>3
<1>5. \A i \in I : Nth(N(i)) = i
  BY <1>3, <1>4
<1>6. \A j \in 1 .. c : s[Nth(j)] \in S
  <2> HIDE DEF Nth
  <2>1. ASSUME NEW j \in 1 .. c PROVE Nth(j) \in 1 .. Len(s)
    BY <1>2, <1>4
  <2> QED BY <2>1, ElementOfSeq
<1> HIDE DEF Nth
<1>7. f \in [1 .. c -> S]
  BY <1>6
<1>8. f \in Seq(S) /\ Len(f) = c
  <2> HIDE DEF f
  <2>1. f \in Seq(S)
    BY <1>2, <1>7, SeqDef
  <2>2. DOMAIN f = 1 .. c /\ DOMAIN f = 1 .. Len(f) /\ Len(f) \in Nat
    BY <1>7, <2>1, LenProperties
  <2> QED BY <1>2, <2>1, <2>2
<1>9. \A i \in I : f[N(i)] = s[i]
  BY <1>3, <1>5
<1> QED BY <1>1, <1>8, <1>9 DEF I, c, N

(* That is all there is to know of it. *)
LEMMA OnlyOfKind ==
  ASSUME NEW S, NEW s \in Seq(S), NEW K, NEW f \in Seq(S),
         Len(f) = Cardinality(Places(s, K)),
         \A i \in Places(s, K) : f[Count(s, K, i)] = s[i]
  PROVE  f = OfKind(s, K)
<1> DEFINE g == OfKind(s, K)
<1>1. /\ g \in Seq(S) /\ Len(g) = Len(f)
      /\ \A i \in Places(s, K) : g[Count(s, K, i)] = f[Count(s, K, i)]
  BY OfKindIs
<1>2. \A j \in 1 .. Len(f) : \E i \in Places(s, K) : Count(s, K, i) = j
  BY NumberedPlaces
<1> HIDE DEF g
<1>3. \A j \in 1 .. Len(f) : f[j] = g[j]
  BY <1>1, <1>2
<1>4. f = g
  BY <1>1, <1>3, SeqEqual
<1> QED BY <1>4 DEF g

LEMMA OfKindConcat ==
  ASSUME NEW S, NEW s \in Seq(S), NEW t \in Seq(S), NEW K
  PROVE  OfKind(s \o t, K) = OfKind(s, K) \o OfKind(t, K)
<1> DEFINE u == s \o t
           m == Len(s)
           n == Len(t)
           a == Cardinality(Places(s, K))
           b == Cardinality(Places(t, K))
<1>1. u \in Seq(S) /\ m \in Nat /\ n \in Nat /\ Len(u) = m + n
  BY ConcatProperties, LenProperties
<1>0. \A v \in {s, t, u} : \A i \in Nat :
        /\ Count(v, K, i) \in Nat
        /\ Count(v, K, i + 1) = IF i + 1 \in Places(v, K) THEN Count(v, K, i) + 1
                                 ELSE Count(v, K, i)
  <2> TAKE v \in {s, t, u}
  <2>1. v \in Seq(S)
    BY <1>1
  <2> QED BY <2>1, CountIs
<1>2. \A i \in 1 .. m + n : u[i] = IF i <= m THEN s[i] ELSE t[i - m]
  BY ConcatProperties
<1>3. DOMAIN u = 1 .. m + n /\ DOMAIN s = 1 .. m /\ DOMAIN t = 1 .. n
  BY <1>1, LenProperties
<1>4. a \in Nat /\ b \in Nat
  BY CountIs
<1> HIDE DEF u, m, n, a, b
<1>5. \A i \in 1 .. m : u[i] = s[i] /\ i \in 1 .. m + n
  BY <1>1, <1>2
<1>6. \A i \in 1 .. n : u[m + i] = t[i] /\ m + i \in 1 .. m + n
  <2> TAKE i \in 1 .. n
  <2> DEFINE j == m + i
  <2>1. j \in 1 .. m + n /\ ~ (j <= m) /\ j - m = i
    BY <1>1
  <2> HIDE DEF j
  <2>2. u[j] = t[i]
    BY <1>2, <2>1
  <2> QED BY <2>1, <2>2 DEF j
<1>7. \A i \in 1 .. m : i \in Places(u, K) <=> i \in Places(s, K)
  BY <1>3, <1>5 DEF Places
<1>8. \A i \in 1 .. n : m + i \in Places(u, K) <=> i \in Places(t, K)
  BY <1>3, <1>6 DEF Places
<1>9. \A i \in 0 .. m : Count(u, K, i) = Count(s, K, i)
  <2> DEFINE T == {i \in 0 .. m : Count(u, K, i) # Count(s, K, i)}
  <2> SUFFICES ASSUME T # {} PROVE FALSE
    OBVIOUS
  <2>1. PICK i \in T : \A h \in T : i <= h
    <3>1. T \subseteq Nat
      BY <1>1
    <3> HIDE DEF T
    <3> QED BY <3>1, Least
  <2>2. i \in 0 .. m /\ Count(u, K, i) # Count(s, K, i)
    OBVIOUS
  <2>3. i # 0
    BY <1>1, <2>2, CountIs
  <2> DEFINE k == i - 1
  <2>4. k \in 0 .. m /\ k \in Nat /\ k + 1 = i /\ i \in 1 .. m /\ ~ (i <= k)
    BY <1>1, <2>2, <2>3
  <2> HIDE DEF k
  <2>5. Count(u, K, k) = Count(s, K, k)
    BY <2>1, <2>4
  <2>6. Count(u, K, k + 1) = IF k + 1 \in Places(u, K) THEN Count(u, K, k) + 1
                              ELSE Count(u, K, k)
    BY <1>0, <2>4
  <2>7. Count(s, K, k + 1) = IF k + 1 \in Places(s, K) THEN Count(s, K, k) + 1
                              ELSE Count(s, K, k)
    BY <1>0, <2>4
  <2>8. Count(u, K, i) = Count(s, K, i)
    BY <1>7, <2>4, <2>5, <2>6, <2>7
  <2> QED BY <2>2, <2>8
<1>10. Count(u, K, m) = a
  <2>1. Count(s, K, m) = a
    BY <1>1, CountIs DEF a, m
  <2> QED BY <1>1, <1>9, <2>1
<1>11. \A i \in 0 .. n : Count(u, K, m + i) = a + Count(t, K, i)
  <2> DEFINE T == {i \in 0 .. n : Count(u, K, m + i) # a + Count(t, K, i)}
  <2> SUFFICES ASSUME T # {} PROVE FALSE
    OBVIOUS
  <2>1. PICK i \in T : \A h \in T : i <= h
    <3>1. T \subseteq Nat
      BY <1>1
    <3> HIDE DEF T
    <3> QED BY <3>1, Least
  <2>2. i \in 0 .. n /\ Count(u, K, m + i) # a + Count(t, K, i)
    OBVIOUS
  <2>3. i # 0
    <3>1. Count(t, K, 0) = 0 /\ m + 0 = m /\ a + 0 = a
      BY <1>1, <1>4, CountIs
    <3> QED BY <1>10, <2>2, <3>1
  <2> DEFINE k == i - 1
             l == m + k
  <2>4. k \in 0 .. n /\ k \in Nat /\ k + 1 = i /\ i \in 1 .. n /\ ~ (i <= k)
    BY <1>1, <2>2, <2>3
  <2>5. l \in Nat /\ l + 1 = m + i
    BY <1>1, <2>4
  <2> HIDE DEF k
  <2>6. Count(u, K, m + k) = a + Count(t, K, k)
    BY <2>1, <2>4
  <2>7. Count(u, K, l) = a + Count(t, K, k)
    BY <2>6
  <2> HIDE DEF l
  <2>8. Count(u, K, l + 1) = IF l + 1 \in Places(u, K) THEN Count(u, K, l) + 1
                              ELSE Count(u, K, l)
    BY <1>0, <2>5
  <2>9. Count(t, K, k + 1) = IF k + 1 \in Places(t, K) THEN Count(t, K, k) + 1
                              ELSE Count(t, K, k)
    BY <1>0, <2>4
  <2>10. Count(t, K, k) \in Nat
    BY <1>0, <2>4
  <2>11. m + i \in Places(u, K) <=> i \in Places(t, K)
    BY <1>8, <2>4
  <2>12. l + 1 \in Places(u, K) <=> k + 1 \in Places(t, K)
    BY <2>4, <2>5, <2>11
  <2>13. Count(u, K, l + 1) = a + Count(t, K, k + 1)
    <3> DEFINE x == Count(t, K, k)  y == Count(t, K, k + 1)  z == Count(u, K, l + 1)
    <3>1. /\ x \in Nat
          /\ z = IF l + 1 \in Places(u, K) THEN a + x + 1 ELSE a + x
          /\ y = IF l + 1 \in Places(u, K) THEN x + 1 ELSE x
      BY <2>7, <2>8, <2>9, <2>10, <2>12
    <3> HIDE DEF x, y, z
    <3>2. z = a + y
      BY <1>4, <3>1
    <3> QED BY <3>2 DEF y, z
  <2> QED BY <2>2, <2>4, <2>5, <2>13
<1> DEFINE f == OfKind(s, K)  g == OfKind(t, K)
<1>12. /\ f \in Seq(S) /\ g \in Seq(S) /\ Len(f) = a /\ Len(g) = b
       /\ \A i \in Places(s, K) : f[Count(s, K, i)] = s[i]
       /\ \A i \in Places(t, K) : g[Count(t, K, i)] = t[i]
  BY OfKindIs DEF a, b
<1> HIDE DEF f, g
<1>13. /\ f \o g \in Seq(S) /\ Len(f \o g) = a + b
       /\ \A j \in 1 .. a + b : (f \o g)[j] = IF j <= a THEN f[j] ELSE g[j - a]
  <2>1. /\ f \o g \in Seq(S) /\ Len(f \o g) = Len(f) + Len(g)
        /\ \A j \in 1 .. Len(f) + Len(g) : (f \o g)[j] = IF j <= Len(f) THEN f[j] ELSE g[j - Len(f)]
    BY <1>12, ConcatProperties
  <2> QED BY <1>12, <2>1
<1>14. Cardinality(Places(u, K)) = a + b
  <2>1. Count(t, K, n) = b /\ Count(u, K, m + n) = Cardinality(Places(u, K))
    BY <1>1, CountIs DEF b, n
  <2> QED BY <1>1, <1>11, <2>1
<1>15. ASSUME NEW i \in Places(u, K) PROVE (f \o g)[Count(u, K, i)] = u[i]
  <2>1. i \in 1 .. m + n
    BY <1>1, CountIs
  <2>2. CASE i <= m
    <3>1. i \in 1 .. m /\ i \in 0 .. m
      BY <1>1, <2>1, <2>2
    <3>2. i \in Places(s, K) /\ u[i] = s[i]
      BY <1>5, <1>7, <3>1
    <3>3. Count(s, K, i) \in 1 .. a
      BY <3>2, NumberedPlaces DEF a
    <3>4. Count(s, K, i) \in 1 .. a + b /\ Count(s, K, i) <= a
      BY <1>4, <3>3
    <3> QED BY <1>9, <1>12, <1>13, <3>1, <3>2, <3>4
  <2>3. CASE ~ (i <= m)
    <3> DEFINE h == i - m
    <3>1. h \in 1 .. n /\ h \in 0 .. n /\ i = m + h
      BY <1>1, <2>1, <2>3
    <3> HIDE DEF h
    <3>2. h \in Places(t, K) /\ u[i] = t[h]
      BY <1>6, <1>8, <3>1
    <3>3. Count(t, K, h) \in 1 .. b
      BY <3>2, NumberedPlaces DEF b
    <3> DEFINE k == Count(t, K, h)
    <3>4. Count(u, K, i) = a + k /\ g[k] = t[h]
      BY <1>11, <1>12, <3>1, <3>2
    <3>5. k \in 1 .. b
      BY <3>3
    <3> HIDE DEF k
    <3> DEFINE l == a + k
    <3>6. l \in 1 .. a + b /\ ~ (l <= a) /\ l - a = k
      BY <1>4, <3>5
    <3>7. Count(u, K, i) = l
      BY <3>4
    <3> HIDE DEF l
    <3>8. (f \o g)[l] = g[k]
      BY <1>13, <3>6
    <3> QED BY <3>2, <3>4, <3>7, <3>8
  <2> QED BY <2>2, <2>3
<1>16. f \o g = OfKind(u, K)
  <2> DEFINE h == f \o g
  <2>1. /\ h \in Seq(S) /\ Len(h) = Cardinality(Places(u, K))
        /\ \A i \in Places(u, K) : h[Count(u, K, i)] = u[i]
    BY <1>13, <1>14, <1>15
  <2> HIDE DEF h
  <2>2. h = OfKind(u, K)
    BY <1>1, <2>1, OnlyOfKind
  <2> QED BY <2>2 DEF h
<1> QED BY <1>16 DEF f, g, u

(* Whatever else two sequences hold. *)
LEMMA OfKindAlike ==
  ASSUME NEW S, NEW s \in Seq(S), NEW t \in Seq(S), NEW K,
         Places(s, K) = Places(t, K), \A i \in Places(s, K) : s[i] = t[i]
  PROVE  OfKind(s, K) = OfKind(t, K)
<1> DEFINE f == OfKind(s, K)
<1>1. /\ f \in Seq(S) /\ Len(f) = Cardinality(Places(t, K))
      /\ \A i \in Places(t, K) : f[Count(s, K, i)] = t[i]
  BY OfKindIs
<1>2. \A i : Count(s, K, i) = Count(t, K, i)
  BY DEF Count
<1> HIDE DEF f
<1>3. f = OfKind(t, K)
  BY <1>1, <1>2, OnlyOfKind
<1> QED BY <1>3 DEF f

LEMMA OfNoKind ==
  ASSUME NEW S, NEW s \in Seq(S), NEW K, \A i \in 1 .. Len(s) : s[i].kind \notin K
  PROVE  OfKind(s, K) = <<>>
<1>1. Places(s, K) = {}
  BY LenProperties DEF Places
<1>2. OfKind(s, K) \in Seq(S) /\ Len(OfKind(s, K)) = 0
  BY <1>1, OfKindIs, FS_EmptySet
<1> QED BY <1>2, EmptySeq

-----------------------------------------------------------------------------
(* The types of a shell, of what it is asked and of what it answers; no more of
   a file or of a listing has been read than there is. *)
Files ==
  {f \in [mode : {"none", "r", "w", "dir", "bad"}, at : Nat, size : Sizes \cup {0}] : f.at <= f.size}
Losses == {"file", "dir", "bad", "erase", "left"}
Shells ==
  [state : ShellStates, binary : BOOLEAN, file : Files, dir : Files,
   saved : Seq(Token), lost : SUBSET Losses]
Messages == Seq(Token) \ {<<>>}
Answers == [shell : Shells, says : Seq(Messages), stays : BOOLEAN]
Words ==
  {t \in Token : /\ t.kind \in {"get", "put"} => t.n \in Sizes \cup {-1, 0}
                 /\ t.kind = "ls" => t.n \in Sizes}

LEMMA MessagesAre ==
  /\ {Welcome, Error, Info, Prompt, Eot, Stale, <<Tok("nl")>>} \subseteq Messages
  /\ \A m \in Messages : <<m>> \in Seq(Messages)
  /\ <<Error, Info>> \in Seq(Messages) /\ <<>> \in Seq(Messages)
<1>1. {Tok("welcome"), Tok("prompt"), Tok("error"), Tok("info"), Tok("eot"), Tok("stale"),
       Tok("nl")} \subseteq Token
  BY TokensOK
<1> QED BY <1>1 DEF Messages, Welcome, Error, Info, Prompt, Eot, Stale

LEMMA PiecesAre ==
  ASSUME NEW at \in Nat, NEW k \in Nat, NEW n \in Sizes \cup {0, 2 * Lines}, at + k <= n
  PROVE  /\ Pieces(at, k) \in Seq(Token) /\ Len(Pieces(at, k)) = k
         /\ \A i \in 1 .. k : Pieces(at, k)[i] = Data(at + i)
         /\ k > 0 => Pieces(at, k) \in Messages
<1>1. \A i \in 1 .. k : Data(at + i) \in Token
  <2> TAKE i \in 1 .. k
  <2>1. n \in Nat
    BY ServerConstantsOK
  <2>2. n # 0 /\ at + i \in 1 .. n
    BY <2>1
  <2> QED BY <2>2, TokensOK
<1>2. Pieces(at, k) \in [1 .. k -> Token]
  BY <1>1 DEF Pieces
<1>3. Pieces(at, k) \in Seq(Token)
  BY <1>2, SeqDef
<1>4. Len(Pieces(at, k)) = k
  <2>1. DOMAIN Pieces(at, k) = 1 .. k /\ DOMAIN Pieces(at, k) = 1 .. Len(Pieces(at, k))
        /\ Len(Pieces(at, k)) \in Nat
    BY <1>2, <1>3, LenProperties
  <2> QED BY <2>1
<1> QED BY <1>3, <1>4, EmptySeq DEF Messages, Pieces

LEMMA FilesAre ==
  /\ None \in Files /\ Bad \in Files
  /\ \A n \in Sizes \cup {0} : /\ Opened("r", n) \in Files /\ Opened("dir", n) \in Files
                              /\ Opened("w", n) \in Files
BY ServerConstantsOK DEF None, Bad, Opened, Files

LEMMA UndeletedIs ==
  \A what : \A kind \in {"file", "dir", "left"} :
    Undeleted(what, kind) \subseteq {"bad", kind}
BY DEF Undeleted

LEMMA FilesHave ==
  \A f \in Files : /\ f.at \in Nat /\ f.size \in Nat /\ f.size \in Sizes \cup {0}
                   /\ f.at <= f.size
<1>1. \A n \in Sizes \cup {0} : n \in Nat
  BY ServerConstantsOK
<1> QED BY <1>1 DEF Files

LEMMA GetPieceTypes ==
  ASSUME NEW sh \in Shells, NEW fails \in BOOLEAN
  PROVE  GetPiece(sh, fails) \in Answers
<1> DEFINE left == sh.file.size - sh.file.at
           k == IF left < BufferSize THEN left ELSE BufferSize
           after == IF k < BufferSize THEN None ELSE [sh.file EXCEPT !.at = @ + k]
           says == IF k > 0 THEN Pieces(sh.file.at, k)
                   ELSE IF sh.binary THEN <<Tok("nl")>> ELSE Stale
<1>1. sh.file \in Files
  BY DEF Shells
<1>2. /\ sh.file.at \in Nat /\ sh.file.size \in Sizes \cup {0} /\ sh.file.at <= sh.file.size
      /\ sh.file.size \in Nat
  BY <1>1, FilesHave
<1>3. k \in Nat /\ sh.file.at + k <= sh.file.size
  BY <1>2, ShellConstantsOK
<1> HIDE DEF k
<1>4. after \in Files
  BY <1>1, <1>2, <1>3, FilesAre DEF Files
<1>5. says \in Messages
  BY <1>2, <1>3, PiecesAre, MessagesAre
<1> HIDE DEF after, says
<1>6. [sh EXCEPT !.file = after] \in Shells
  BY <1>4 DEF Shells
<1>7. [[sh EXCEPT !.file = None] EXCEPT !.state = "NeedPrompt"] \in Shells
  BY FilesAre DEF Shells, ShellStates
<1>8. [sh EXCEPT !.state = "NeedPrompt"] \in Shells
  BY DEF Shells, ShellStates
<1>9. \A x \in Shells : \A m \in Messages : Result(x, <<m>>) \in Answers
  BY MessagesAre DEF Result, Answers
<1>10. GetPiece(sh, fails) =
         IF fails \/ sh.file = Bad
         THEN Failed(IF sh.binary THEN [sh EXCEPT !.file = None] ELSE sh)
         ELSE Result([sh EXCEPT !.file = after], <<says>>)
  BY DEF GetPiece, after, says, k
<1>11. Failed(IF sh.binary THEN [sh EXCEPT !.file = None] ELSE sh) \in Answers
  BY <1>7, <1>8, <1>9, MessagesAre DEF Failed
<1> QED BY <1>5, <1>6, <1>9, <1>10, <1>11

LEMMA SendCompleteTypes ==
  ASSUME NEW sh \in Shells, NEW fails \in BOOLEAN
  PROVE  SendComplete(sh, fails) \in Answers
<1>1. \A x \in Shells : \A m \in Messages : Result(x, <<m>>) \in Answers
  BY MessagesAre DEF Result, Answers
<1>2. Result(sh, <<>>) \in Answers
  BY MessagesAre DEF Result, Answers
<1>3. \A state \in ShellStates : [sh EXCEPT !.state = state] \in Shells
  BY DEF Shells
<1>4. [sh EXCEPT !.state = "NeedPrompt"] \in Shells /\ [sh EXCEPT !.state = "ShowingPrompt"] \in Shells
  BY <1>3 DEF ShellStates
<1>5. [[sh EXCEPT !.dir = None] EXCEPT !.state = "ShowingPrompt"] \in Shells
  BY FilesAre DEF Shells, ShellStates
<1>6. CASE sh.state = "Init"
  BY <1>1, <1>4, <1>6, MessagesAre DEF SendComplete
<1>7. CASE sh.state = "NeedPrompt"
  BY <1>1, <1>4, <1>7, MessagesAre DEF SendComplete, ShowPrompt
<1>8. CASE sh.state = "ListFiles"
  <2>1. /\ sh.dir \in Files /\ sh.dir.at \in Nat /\ sh.dir.size \in Sizes \cup {0}
        /\ sh.dir.size \in Nat
    BY FilesHave DEF Shells
  <2>2. CASE sh.dir.at < sh.dir.size
    <3>1. sh.dir.at + 1 <= sh.dir.size
      BY <2>1, <2>2
    <3>2. [sh.dir EXCEPT !.at = @ + 1] \in Files
      BY <2>1, <3>1 DEF Files
    <3>3. [sh EXCEPT !.dir.at = @ + 1] \in Shells
      BY <3>2 DEF Shells
    <3>4. Pieces(sh.dir.at, 1) \in Messages
      BY <2>1, <3>1, PiecesAre
    <3> QED BY <1>1, <1>8, <2>2, <3>3, <3>4 DEF SendComplete
  <2> QED BY <1>1, <1>5, <1>8, <2>2, MessagesAre DEF SendComplete, ShowPrompt
<1>9. CASE sh.state = "GetFile"
  BY <1>1, <1>4, <1>9, GetPieceTypes, MessagesAre DEF SendComplete
<1>10. CASE sh.state \notin {"Init", "NeedPrompt", "ListFiles", "GetFile"}
  BY <1>2, <1>10 DEF SendComplete
<1> QED BY <1>6, <1>7, <1>8, <1>9, <1>10

LEMMA ExecuteTypes ==
  ASSUME NEW sh \in Shells, NEW c \in Words, NEW fails \in BOOLEAN
  PROVE  Execute(sh, c, fails) \in Answers
<1>1. \A x \in Shells : \A m \in Messages : Result(x, <<m>>) \in Answers
  BY MessagesAre DEF Result, Answers
<1>2. \A x \in Shells : Result(x, <<>>) \in Answers
  BY MessagesAre DEF Result, Answers
<1>3. \A x \in Shells : Failed(x) \in Answers /\ Done(x) \in Answers
  <2> TAKE x \in Shells
  <2>1. [x EXCEPT !.state = "NeedPrompt"] \in Shells
    BY DEF Shells, ShellStates
  <2> QED BY <1>1, <2>1, MessagesAre DEF Failed, Done
<1>4. \A f \in Files : Open(sh, f) \in Shells
  BY UndeletedIs DEF Open, Shells, Losses
<1>5. CASE c.kind = "nl"
  BY <1>2, <1>5 DEF Execute
<1>6. CASE c.kind = "ls"
  <2>1. Opened("dir", c.n) \in Files
    BY <1>6, FilesAre DEF Words
  <2> DEFINE x == [sh EXCEPT !.dir = Opened("dir", c.n), !.state = "ListFiles",
                             !.lost = @ \cup Undeleted(sh.dir, "dir")]
  <2>2. x \in Shells
    BY <2>1, UndeletedIs DEF Shells, ShellStates, Losses
  <2>3. Execute(sh, c, fails) = SendComplete(x, fails)
    BY <1>6 DEF Execute
  <2> HIDE DEF x
  <2> QED BY <2>2, <2>3, SendCompleteTypes
<1>7. CASE c.kind \in {"text", "binary", "info"}
  <2>1. [sh EXCEPT !.binary = FALSE] \in Shells /\ [sh EXCEPT !.binary = TRUE] \in Shells
    BY DEF Shells
  <2> QED BY <1>3, <1>7, <2>1 DEF Execute
<1>8. CASE c.kind = "get"
  <2> DEFINE x == [Open(sh, OpenedFile("r", c)) EXCEPT !.state = "GetFile"]
  <2>1. OpenedFile("r", c) \in Files
    BY <1>8, FilesAre DEF OpenedFile, Words, Exists
  <2>2. x \in Shells
    BY <1>4, <2>1 DEF Shells, ShellStates
  <2>3. Execute(sh, c, fails) = SendComplete(x, fails)
    BY <1>8 DEF Execute
  <2> HIDE DEF x
  <2> QED BY <2>2, <2>3, SendCompleteTypes
<1>9. CASE c.kind = "put"
  <2>1. OpenedFile("w", c) \in Files
    BY <1>9, FilesAre DEF OpenedFile, Words, Exists
  <2>2. [Open(sh, OpenedFile("w", c)) EXCEPT !.state = "PutFile", !.saved = <<>>] \in Shells
    BY <1>4, <2>1, EmptySeq DEF Shells, ShellStates
  <2> QED BY <1>2, <1>9, <2>2 DEF Execute
<1>10. CASE c.kind = "run"
  <2>1. [sh EXCEPT !.state = "NeedPrompt"] \in Shells
    BY DEF Shells, ShellStates
  <2> QED BY <1>10, <2>1, MessagesAre DEF Execute, Result, Answers
<1>11. CASE c.kind = "quit"
  <2>1. [Result(sh, <<>>) EXCEPT !.stays = FALSE] \in Answers
    BY <1>2 DEF Answers, Result
  <2> QED BY <1>11, <2>1 DEF Execute
<1>12. CASE c.kind = "erase"
  <2>1. [sh EXCEPT !.lost = @ \cup {"erase"}] \in Shells
    BY DEF Shells, Losses
  <2> QED BY <1>3, <1>12, <2>1 DEF Execute
<1>13. CASE c.kind \notin {"nl", "ls", "text", "binary", "info", "erase", "get", "put", "run",
                          "quit"}
  BY <1>3, <1>13 DEF Execute
<1> QED BY <1>5, <1>6, <1>7, <1>8, <1>9, <1>10, <1>11, <1>12, <1>13

LEMMA WordsAre ==
  /\ Words \subseteq Token
  /\ \A s \in Seq(Words) : s \in Seq(Token)
<1>1. Words \subseteq Token
  BY DEF Words
<1> QED BY <1>1, SeqMonotonic

LEMMA PartIs ==
  ASSUME NEW S, NEW s \in Seq(S), NEW i \in 1 .. Len(s) + 1, NEW k \in 0 .. Len(s)
  PROVE  /\ SubSeq(s, i, k) \in Seq(S)
         /\ Len(SubSeq(s, i, k)) = IF i <= k THEN k - i + 1 ELSE 0
         /\ \A j \in 1 .. k - i + 1 : SubSeq(s, i, k)[j] = s[i + j - 1]
<1>1. Len(s) \in Nat
  BY LenProperties
<1>2. i \in Int /\ k \in Int
  BY <1>1
<1>3. \A j \in i .. k : s[j] \in S
  <2> TAKE j \in i .. k
  <2>1. j \in 1 .. Len(s)
    BY <1>1
  <2> QED BY <2>1, ElementOfSeq
<1>4. /\ SubSeq(s, i, k) \in Seq(S)
      /\ Len(SubSeq(s, i, k)) = IF i <= k THEN k - i + 1 ELSE 0
      /\ \A j \in 1 .. k - i + 1 : SubSeq(s, i, k)[j] = s[i + j - 1]
  BY ONLY <1>2, <1>3, SubSeqProperties
<1> QED BY <1>4

LEMMA DecodedIs ==
  ASSUME NEW s \in Seq(Token)
  PROVE  /\ Decoded(s) \in Seq(Token) /\ Len(Decoded(s)) = Len(s)
         /\ \A i \in 1 .. Len(s) :
              Decoded(s)[i] = s[i] \/ (s[i].kind = "data" /\ Decoded(s)[i] = Tok("garbled"))
<1>1. Len(s) \in Nat /\ DOMAIN s = 1 .. Len(s) /\ \A i \in 1 .. Len(s) : s[i] \in Token
  BY LenProperties, ElementOfSeq
<1>2. DOMAIN Decoded(s) = 1 .. Len(s)
  BY <1>1 DEF Decoded
<1>3. ASSUME NEW i \in 1 .. Len(s)
      PROVE  Decoded(s)[i] = s[i] \/ (s[i].kind = "data" /\ Decoded(s)[i] = Tok("garbled"))
  BY <1>1 DEF Decoded
<1>4. Tok("garbled") \in Token
  BY TokensOK
<1>5. \A i \in 1 .. Len(s) : Decoded(s)[i] \in Token
  BY <1>1, <1>3, <1>4
<1>6. Decoded(s) = [i \in 1 .. Len(s) |-> Decoded(s)[i]]
  BY <1>1 DEF Decoded
<1>7. Decoded(s) \in [1 .. Len(s) -> Token]
  BY <1>5, <1>6
<1>8. Decoded(s) \in Seq(Token)
  BY <1>1, <1>7, SeqDef
<1>9. Len(Decoded(s)) = Len(s)
  <2>1. DOMAIN Decoded(s) = 1 .. Len(Decoded(s)) /\ Len(Decoded(s)) \in Nat
    BY <1>8, LenProperties
  <2> QED BY <1>1, <1>2, <2>1
<1> QED BY <1>3, <1>8, <1>9

LEMMA WriteTypes ==
  ASSUME NEW sh \in Shells, NEW s \in Seq(Token)
  PROVE  /\ Write(sh, s) \in Shells
         /\ Write(sh, s).state = sh.state /\ Write(sh, s).binary = sh.binary
         /\ Write(sh, s).file = sh.file /\ Write(sh, s).dir = sh.dir
         /\ Write(sh, s).lost = sh.lost
         /\ sh.file # Bad => Write(sh, s) = [sh EXCEPT !.saved = @ \o OfKind(s, DataKinds)]
<1>1. OfKind(s, DataKinds) \in Seq(Token)
  BY OfKindIs
<1>2. sh.saved \in Seq(Token)
  BY DEF Shells
<1>3. sh.saved \o OfKind(s, DataKinds) \in Seq(Token)
  BY <1>1, <1>2, ConcatProperties
<1> QED BY <1>3 DEF Write, Shells

LEMMA EndPutTypes ==
  ASSUME NEW sh \in Shells
  PROVE  EndPut(sh) \in Answers
<1>1. [[sh EXCEPT !.file = None] EXCEPT !.state = "ShowingPrompt"] \in Shells
  BY FilesAre DEF Shells, ShellStates
<1> QED BY <1>1, MessagesAre DEF EndPut, ShowPrompt, Result, Answers

(* The words of what is received, and how much of it is looked at. *)
LEMMA ReceivedParts ==
  ASSUME NEW s \in Seq(Words), s # <<>>
  PROVE  LET huge == Places(s, {"huge"})
             upTo == IF huge = {} THEN Len(s) ELSE Min(huge)
             large == Places(SubSeq(s, 1, upTo), {"long", "huge"})
             words == {i \in DOMAIN s : s[i].kind # "nl"}
         IN /\ upTo \in 1 .. Len(s)
            /\ Cardinality(large) \in Nat /\ (large # {} => Cardinality(large) > 0)
            /\ [i \in 1 .. Cardinality(large) |-> Error] \in Seq(Messages)
            /\ large = {} => [i \in 1 .. Cardinality(large) |-> Error] = <<>>
            /\ words # {} => Min(words) \in words /\ s[Min(words)] \in Words
                             /\ \A i \in words : Min(words) <= i
<1> DEFINE huge == Places(s, {"huge"})
           upTo == IF huge = {} THEN Len(s) ELSE Min(huge)
           large == Places(SubSeq(s, 1, upTo), {"long", "huge"})
           words == {i \in DOMAIN s : s[i].kind # "nl"}
           c == Cardinality(large)
           errors == [i \in 1 .. c |-> Error]
<1>1. Len(s) \in Nat /\ Len(s) > 0 /\ DOMAIN s = 1 .. Len(s)
  BY LenProperties, EmptySeq
<1>2. upTo \in 1 .. Len(s)
  <2>1. huge \subseteq 1 .. Len(s)
    BY CountIs
  <2> HIDE DEF huge
  <2>2. huge \subseteq Nat
    BY <1>1, <2>1
  <2>3. huge # {} => Min(huge) \in huge
    BY <2>2, MinIs
  <2>4. huge # {} => Min(huge) \in 1 .. Len(s)
    BY <2>1, <2>3
  <2> QED BY <1>1, <2>4 DEF upTo
<1> HIDE DEF upTo
<1>3. SubSeq(s, 1, upTo) \in Seq(Words)
  BY <1>1, <1>2, PartIs
<1>4. IsFiniteSet(large) /\ c \in Nat
  BY <1>3, CountIs
<1> HIDE DEF large
<1>5. large # {} => c > 0
  BY <1>4, FS_EmptySet
<1>6. large = {} => c = 0
  BY FS_EmptySet
<1> HIDE DEF c
<1>7. errors \in Seq(Messages)
  <2>1. errors \in [1 .. c -> Messages]
    BY MessagesAre
  <2> HIDE DEF errors
  <2> QED BY <1>4, <2>1, SeqDef
<1>8. c = 0 => errors = <<>>
  <2>1. c = 0 => DOMAIN errors = {}
    BY <1>4
  <2> HIDE DEF errors
  <2>2. Len(errors) \in Nat /\ DOMAIN errors = 1 .. Len(errors)
    BY <1>7, LenProperties
  <2>3. Len(errors) # 0 => 1 \in DOMAIN errors
    BY <2>2
  <2>4. c = 0 => Len(errors) = 0
    BY <2>1, <2>3
  <2> QED BY <1>7, <2>4, EmptySeq
<1>9. ASSUME words # {}
      PROVE  /\ Min(words) \in words /\ s[Min(words)] \in Words
             /\ \A i \in words : Min(words) <= i
  <2>1. words \subseteq 1 .. Len(s) /\ words \subseteq Nat
    BY <1>1
  <2> HIDE DEF words
  <2>2. Min(words) \in words /\ \A i \in words : Min(words) <= i
    BY <1>9, <2>1, MinIs
  <2>3. Min(words) \in 1 .. Len(s)
    BY <2>1, <2>2
  <2> QED BY <2>2, <2>3, ElementOfSeq
<1> HIDE DEF words, errors
<1>10. large = {} => errors = <<>>
  BY <1>6, <1>8
<1> QED BY <1>2, <1>4, <1>5, <1>7, <1>9, <1>10 DEF large, c, errors, upTo, huge, words

LEMMA ReceivedTypes ==
  ASSUME NEW sh \in Shells, NEW s \in Seq(Words), s # <<>>, NEW fails \in BOOLEAN
  PROVE  Received(sh, s, fails) \in Answers
<1> DEFINE huge == Places(s, {"huge"})
           upTo == IF huge = {} THEN Len(s) ELSE Min(huge)
           large == Places(SubSeq(s, 1, upTo), {"long", "huge"})
           errors == [i \in 1 .. Cardinality(large) |-> Error]
           told == IF large = {} THEN sh ELSE [sh EXCEPT !.state = "NeedPrompt"]
           words == {i \in DOMAIN s : s[i].kind # "nl"}
           c == IF words = {} THEN Tok("nl") ELSE s[Min(words)]
           written == Write(told, SubSeq(Decoded(s), 1, upTo))
           Telling(r) == [r EXCEPT !.says = errors \o @]
<1>1. /\ upTo \in 1 .. Len(s) /\ errors \in Seq(Messages)
      /\ words # {} => s[Min(words)] \in Words
  BY ReceivedParts
<1>2. c \in Words
  <2>1. Tok("nl") \in Token /\ Tok("nl").kind = "nl"
    BY TokensOK DEF Tok
  <2> HIDE DEF words
  <2> QED BY <1>1, <2>1 DEF Words
<1>3. s \in Seq(Token) /\ Decoded(s) \in Seq(Token) /\ Len(Decoded(s)) = Len(s) /\ Len(s) \in Nat
  BY WordsAre, DecodedIs, LenProperties
<1>4. told \in Shells
  <2> HIDE DEF large
  <2> QED BY DEF Shells, ShellStates
<1> HIDE DEF huge, upTo, large, words, c, told
<1>5. SubSeq(Decoded(s), 1, upTo) \in Seq(Token)
  BY <1>1, <1>3, PartIs
<1>6. written \in Shells
  BY <1>4, <1>5, WriteTypes
<1> HIDE DEF written, errors
<1>7. \A r \in Answers : Telling(r) \in Answers
  <2> TAKE r \in Answers
  <2>1. errors \o r.says \in Seq(Messages)
    BY <1>1, ConcatProperties DEF Answers
  <2> QED BY <2>1 DEF Answers
<1>8. [Failed([written EXCEPT !.file = None]) EXCEPT !.stays = FALSE] \in Answers
  <2>1. [[written EXCEPT !.file = None] EXCEPT !.state = "NeedPrompt"] \in Shells
    BY <1>6, FilesAre DEF Shells, ShellStates
  <2> QED BY <2>1, MessagesAre DEF Failed, Result, Answers
<1>9. Result(written, errors) \in Answers
  BY <1>1, <1>6 DEF Result, Answers
<1>10. Result(Write(sh, s), <<>>) \in Answers
  BY <1>3, WriteTypes, MessagesAre DEF Result, Answers
<1> HIDE DEF Telling
<1>11. Received(sh, s, fails) =
         CASE sh.state # "PutFile" -> Execute(sh, c, fails)
           [] sh.state = "PutFile" /\ ~ sh.binary ->
                IF PutEnds(sh, s) THEN EndPut(sh) ELSE Result(Write(sh, s), <<>>)
           [] sh.state = "PutFile" /\ sh.binary ->
                IF huge # {}
                THEN Telling([Failed([written EXCEPT !.file = None]) EXCEPT !.stays = FALSE])
                ELSE IF PutEnds(sh, s) THEN Telling(EndPut(written))
                ELSE Result(written, errors)
  BY DEF Received, huge, upTo, large, words, c, told, written, errors, Telling
<1>12. CASE sh.state # "PutFile"
  BY <1>2, <1>11, <1>12, ExecuteTypes
<1>13. CASE sh.state = "PutFile" /\ ~ sh.binary
  BY <1>10, <1>11, <1>13, EndPutTypes
<1>14. CASE sh.state = "PutFile" /\ sh.binary
  BY <1>6, <1>7, <1>8, <1>9, <1>11, <1>14, EndPutTypes
<1>15. sh.binary \in BOOLEAN
  BY DEF Shells
<1> QED BY <1>12, <1>13, <1>14, <1>15

-----------------------------------------------------------------------------
(* What the operations of the table do to the slots and to what has been said. *)
LEMMA SendDoes ==
  ASSUME TcpInv, Steady, NEW s \in Slot, InUse(s), NEW data \in Seq(Token), Send(s, data)
  PROVE  /\ \A t \in Slot : clients'[t].pcb = clients[t].pcb
         /\ net'[clients[s].pcb].said = net[clients[s].pcb].said \o data
         /\ \A q \in Pcb : q # clients[s].pcb => net'[q] = net[q]
<1> DEFINE p == clients[s].pcb
           b == [net[p] EXCEPT !.said = @ \o data]
<1>1. p \in Pcb /\ net[p] \in Block /\ clients \in [Slot -> Client] /\ net \in [Pcb -> Block]
  BY PcbInUse DEF TcpInv
<1>2. b.said = net[p].said \o data
  BY <1>1 DEF Block
<1> HIDE DEF b
<1>3. CASE clients[s].sending
  <2>1. /\ clients' = [clients EXCEPT ![s].buffer = @ \o data]
        /\ net' = [net EXCEPT ![p] = b]
    BY <1>3 DEF Send, b
  <2> QED BY <1>1, <1>2, <2>1 DEF Client
<1>4. CASE ~ clients[s].sending
  <2>1. Transmit(s, b, data)
    BY <1>4 DEF Send, b
  <2> DEFINE n == IF SndBuf - b.unacked < Len(data) THEN SndBuf - b.unacked ELSE Len(data)
             d == [b EXCEPT !.wire = @ \o SubSeq(data, 1, n), !.unacked = @ + n]
  <2>2. /\ clients' = [clients EXCEPT ![s].sending = TRUE,
                                      ![s].buffer = SubSeq(data, n + 1, Len(data))]
        /\ net' = [net EXCEPT ![p] = d]
    BY <2>1 DEF Transmit, Steady
  <2>3. d.said = b.said
    <3>1. DOMAIN b = {"link", "unacked", "said", "wire"}
      BY <1>1 DEF Block, b
    <3> QED BY <3>1
  <2> HIDE DEF n, d
  <2> QED BY <1>1, <1>2, <2>2, <2>3 DEF Client
<1> QED BY <1>3, <1>4

LEMMA SentDoes ==
  ASSUME TcpInv, Steady, NEW p \in Pcb, NEW n \in 1 .. net[p].unacked, Sent(p, n)
  PROVE  /\ net[p].link = "open" \/ findConnection(p) = -1
         /\ \A t \in Slot : clients'[t].pcb = clients[t].pcb
         /\ \A q \in Pcb : net'[q].said = net[q].said
         /\ \A q \in Pcb : q # p => net'[q] = net[q]
<1> DEFINE s == findConnection(p)
           b == [net[p] EXCEPT !.unacked = @ - n]
<1>1. \/ net[p].link = "open" /\ s \in Slot /\ clients[s].pcb = p /\ s >= 0
      \/ net[p].link # "open" /\ s = -1
  BY Found, NotFound, EspTCPConstantsOK
<1>2. net[p] \in Block /\ clients \in [Slot -> Client] /\ net \in [Pcb -> Block]
  BY DEF TcpInv
<1>3. b.said = net[p].said /\ DOMAIN b = {"link", "unacked", "said", "wire"}
  BY <1>2 DEF Block
<1> HIDE DEF b, s
<1>4. CASE s = -1
  <2>1. net' = [net EXCEPT ![p] = b] /\ clients' = clients
    BY <1>4 DEF Sent, s, b
  <2> QED BY <1>2, <1>3, <1>4, <2>1 DEF s
<1>5. CASE s # -1 /\ clients[s].buffer # <<>>
  <2> DEFINE data == clients[s].buffer
             k == IF SndBuf - b.unacked < Len(data) THEN SndBuf - b.unacked ELSE Len(data)
             d == [b EXCEPT !.wire = @ \o SubSeq(data, 1, k), !.unacked = @ + k]
  <2>1. Transmit(s, b, data)
    BY <1>1, <1>5 DEF Sent, s, b
  <2>2. /\ clients' = [clients EXCEPT ![s].sending = TRUE,
                                      ![s].buffer = SubSeq(data, k + 1, Len(data))]
        /\ net' = [net EXCEPT ![p] = d]
    BY <1>1, <1>5, <2>1 DEF Transmit, Steady
  <2>3. d.said = b.said
    BY <1>3
  <2> HIDE DEF k, d, data
  <2> QED BY <1>1, <1>2, <1>3, <1>5, <2>2, <2>3 DEF Client
<1>6. CASE s # -1 /\ clients[s].buffer = <<>>
  <2>1. ~ (s >= 0 /\ clients[s].buffer # <<>>) /\ ~ (s < 0)
    BY <1>1, <1>6, EspTCPConstantsOK
  <2>2. net' = [net EXCEPT ![p] = b] /\ clients' = [clients EXCEPT ![s].sending = FALSE]
    BY <2>1 DEF Sent, s, b
  <2> QED BY <1>1, <1>2, <1>3, <1>6, <2>2 DEF Client
<1> QED BY <1>4, <1>5, <1>6

LEMMA ReadDoes ==
  ASSUME TcpInv, NEW p \in Pcb, Read(p)
  PROVE  /\ clients' = clients
         /\ net'[p].said = SubSeq(net[p].said, Len(net[p].wire) + 1, Len(net[p].said))
         /\ \A q \in Pcb : q # p => net'[q] = net[q]
<1> DEFINE d == [net[p] EXCEPT !.said = SubSeq(@, Len(net[p].wire) + 1, Len(@)), !.wire = <<>>]
<1>1. net[p] \in Block /\ net \in [Pcb -> Block]
  BY DEF TcpInv
<1>2. net' = [net EXCEPT ![p] = d] /\ clients' = clients
  BY <1>1 DEF Read
<1>3. d.said = SubSeq(net[p].said, Len(net[p].wire) + 1, Len(net[p].said))
  BY <1>1 DEF Block
<1> HIDE DEF d
<1> QED BY <1>1, <1>2, <1>3

LEMMA CloseDoes ==
  ASSUME TcpInv, NEW s \in Slot, InUse(s), NEW link, Close(s, link)
  PROVE  /\ ~ InUse(s)'
         /\ \A t \in Slot : t # s => clients'[t] = clients[t]
         /\ \A q \in Pcb : q # clients[s].pcb => net'[q] = net[q]
BY PcbInUse DEF TcpInv, Close, InUse, Client

LEMMA AcceptDoes ==
  ASSUME TcpInv, NEW p \in Pcb, NEW s \in Slot, Accept(p, s)
  PROVE  /\ ~ InUse(s) /\ clients'[s].pcb = p
         /\ \A t \in Slot : t # s => clients'[t] = clients[t] /\ clients[t].pcb # p
         /\ net'[p].said = <<>>
         /\ \A q \in Pcb : q # p => net'[q] = net[q]
<1>1. clients' = [clients EXCEPT ![s] = [pcb |-> p, sending |-> FALSE, buffer |-> <<>>]]
  BY DEF Accept
<1>2. net' = [net EXCEPT ![p] = [FreeBlock EXCEPT !.link = "open"]]
  BY DEF Accept
<1>3. [FreeBlock EXCEPT !.link = "open"].said = <<>>
  BY DEF FreeBlock
<1>4. ASSUME NEW t \in Slot, t # s PROVE clients'[t] = clients[t] /\ clients[t].pcb # p
  <2>1. InUse(t) => net[clients[t].pcb].link = "open"
    BY DEF TcpInv, Good
  <2>2. net[p].link = "free"
    BY DEF Accept
  <2>3. clients[t].pcb = p => InUse(t)
    BY EspTCPConstantsOK DEF InUse
  <2> QED BY <1>1, <1>4, <2>1, <2>2, <2>3 DEF TcpInv
<1> QED BY <1>1, <1>2, <1>3, <1>4 DEF TcpInv, Accept

(* The body of a put: two pieces of data and the end of the line, line by line. *)
LEMMA BodyIs ==
  ASSUME NEW k \in 1 .. Lines
  PROVE  /\ Body(k) \in Seq(Words) /\ Len(Body(k)) = 3 * k
         /\ \A i \in 1 .. 3 * k :
              \E q \in 0 .. k - 1 :
                \/ i = 3 * q + 1 /\ Body(k)[i] = Data(2 * q + 1)
                \/ i = 3 * q + 2 /\ Body(k)[i] = Data(2 * q + 2)
                \/ i = 3 * q + 3 /\ Body(k)[i] = Tok("nl")
<1>1. k \in Nat /\ Lines \in Nat /\ k <= Lines /\ 3 * k \in Nat
  BY ServerConstantsOK
<1>2. ASSUME NEW i \in 1 .. 3 * k
      PROVE  \E q \in 0 .. k - 1 :
                \/ i = 3 * q + 1 /\ Body(k)[i] = Data(2 * q + 1)
                \/ i = 3 * q + 2 /\ Body(k)[i] = Data(2 * q + 2)
                \/ i = 3 * q + 3 /\ Body(k)[i] = Tok("nl")
  <2> DEFINE q == (i - 1) \div 3
  <2>1. Body(k)[i] = IF i % 3 = 0 THEN Tok("nl") ELSE Data(i - q)
    BY DEF Body
  <2>2. i \in Nat /\ i >= 1 /\ i <= 3 * k
    BY <1>1
  <2>3. q \in Int /\ 3 * q <= i - 1 /\ i - 1 <= 3 * q + 2
    BY <2>2
  <2>4. i % 3 = 0 <=> i = 3 * q + 3
    BY <2>2, <2>3
  <2> HIDE DEF q
  <2>5. q \in 0 .. k - 1
    BY <1>1, <2>2, <2>3
  <2>6. i = 3 * q + 1 \/ i = 3 * q + 2 \/ i = 3 * q + 3
    BY <2>2, <2>3
  <2>7. CASE i = 3 * q + 1
    <3>1. i - q = 2 * q + 1 /\ i % 3 # 0
      BY <2>3, <2>4, <2>7
    <3> QED BY <2>1, <2>5, <2>7, <3>1
  <2>8. CASE i = 3 * q + 2
    <3>1. i - q = 2 * q + 2 /\ i % 3 # 0
      BY <2>3, <2>4, <2>8
    <3> QED BY <2>1, <2>5, <2>8, <3>1
  <2>9. CASE i = 3 * q + 3
    BY <2>1, <2>4, <2>5, <2>9
  <2> QED BY <2>6, <2>7, <2>8, <2>9
<1>3. ASSUME NEW i \in 1 .. 3 * k PROVE Body(k)[i] \in Words
  <2>1. PICK q \in 0 .. k - 1 :
                \/ i = 3 * q + 1 /\ Body(k)[i] = Data(2 * q + 1)
                \/ i = 3 * q + 2 /\ Body(k)[i] = Data(2 * q + 2)
                \/ i = 3 * q + 3 /\ Body(k)[i] = Tok("nl")
    BY <1>2
  <2>2. 2 * q + 1 \in 1 .. 2 * Lines /\ 2 * q + 2 \in 1 .. 2 * Lines
    BY <1>1
  <2>3. Data(2 * q + 1) \in Token /\ Data(2 * q + 2) \in Token
    BY <2>2, TokensOK
  <2>4. Tok("nl") \in Token
    BY TokensOK
  <2> QED BY <2>1, <2>3, <2>4 DEF Words, Data, Tok
<1>4. Body(k) = [i \in 1 .. 3 * k |-> Body(k)[i]]
  BY DEF Body
<1>5. Body(k) \in [1 .. 3 * k -> Words]
  BY <1>3, <1>4
<1>6. Body(k) \in Seq(Words)
  BY <1>1, <1>5, SeqDef
<1>7. Len(Body(k)) = 3 * k
  <2>1. DOMAIN Body(k) = 1 .. 3 * k /\ DOMAIN Body(k) = 1 .. Len(Body(k))
        /\ Len(Body(k)) \in Nat
    BY <1>5, <1>6, LenProperties
  <2> QED BY <1>1, <2>1
<1> QED BY <1>2, <1>6, <1>7

(* What a put may send. *)
Bodies(binary) ==
  {Body(k) : k \in 1 .. Lines}
  \cup IF binary THEN {<<Tok(k), Tok("nl")>> : k \in {"long", "huge"}} ELSE {}

LEMMA BodiesAre ==
  ASSUME NEW binary, NEW b \in Bodies(binary), NEW n \in {-1, 0}
  PROVE  /\ b \in Seq(Words)
         /\ <<Cmd("put", n)>> \o b \o Eot \in Seq(Words)
         /\ <<Cmd("put", n)>> \o b \o Eot # <<>>
<1>1. {Tok("eot"), Tok("long"), Tok("huge"), Tok("nl"), Cmd("put", n)} \subseteq Words
  <2>1. Tok("eot") \in Token /\ Tok("long") \in Token /\ Tok("huge") \in Token /\ Tok("nl") \in Token
    BY TokensOK
  <2>2. Cmd("put", n) \in Token
    <3>1. n \in Sizes \cup {-1, 0}
      OBVIOUS
    <3> QED BY <3>1, TokensOK
  <2> QED BY <2>1, <2>2 DEF Words, Cmd, Tok
<1>2. b \in Seq(Words)
  <2>1. \A k \in 1 .. Lines : Body(k) \in Seq(Words)
    BY BodyIs
  <2>2. <<Tok("long"), Tok("nl")>> \in Seq(Words) /\ <<Tok("huge"), Tok("nl")>> \in Seq(Words)
    BY <1>1
  <2> QED BY <2>1, <2>2 DEF Bodies
<1>3. <<Cmd("put", n)>> \in Seq(Words) /\ Eot \in Seq(Words)
  BY <1>1 DEF Eot
<1>4. /\ <<Cmd("put", n)>> \o b \in Seq(Words)
      /\ <<Cmd("put", n)>> \o b \o Eot \in Seq(Words)
  BY <1>2, <1>3, ConcatProperties
<1>5. <<Cmd("put", n)>> \o b \o Eot # <<>>
  <2>1. Eot # <<>>
    BY DEF Eot
  <2> QED BY <1>3, <1>4, <2>1, ConcatEqualIffEmpty
<1> QED BY <1>2, <1>4, <1>5

LEMMA AsksAre ==
  ASSUME NEW binary, NEW line \in Asks(binary)
  PROVE  /\ line \in Seq(Words) /\ line # <<>>
         /\ \/ \E k \in {"nl", "text", "binary", "info", "erase", "run", "quit", "unknown"} :
                 line = <<Tok(k)>>
            \/ \E n \in Sizes : line = <<Cmd("ls", n)>>
            \/ line = <<Cmd("get", -1)>>
            \/ \E n \in Sizes : /\ line = <<Cmd("get", n)>>
                                /\ binary \/ "wholeBuffers" \in Careless \/ n % BufferSize # 0
            \/ \E n \in {-1, 0}, b \in Bodies(binary) : line = <<Cmd("put", n)>> \o b \o Eot
<1>1. \/ \E k \in {"nl", "text", "binary", "info", "erase", "run", "quit", "unknown"} :
           line = <<Tok(k)>>
      \/ \E n \in Sizes : line = <<Cmd("ls", n)>>
      \/ line = <<Cmd("get", -1)>>
      \/ \E n \in Sizes : /\ line = <<Cmd("get", n)>>
                          /\ binary \/ "wholeBuffers" \in Careless \/ n % BufferSize # 0
      \/ \E n \in {-1, 0}, b \in Bodies(binary) : line = <<Cmd("put", n)>> \o b \o Eot
  <2> DEFINE gets == IF binary \/ "wholeBuffers" \in Careless THEN Sizes
                     ELSE {n \in Sizes : n % BufferSize # 0}
             A == {<<Tok(k)>> : k \in {"nl", "text", "binary", "info", "erase", "run", "quit",
                                       "unknown"}}
             B == {<<Cmd("ls", n)>> : n \in Sizes}
             C == {<<Cmd("get", n)>> : n \in gets \cup {-1}}
             D == UNION {{<<Cmd("put", n)>> \o b \o Eot : b \in Bodies(binary)} : n \in {-1, 0}}
  <2>1. Asks(binary) = A \cup B \cup C \cup D
    BY DEF Asks, Bodies
  <2>2. gets \subseteq Sizes
        /\ \A n \in gets : binary \/ "wholeBuffers" \in Careless \/ n % BufferSize # 0
    OBVIOUS
  <2> HIDE DEF gets
  <2>3. line \in C => \/ line = <<Cmd("get", -1)>>
                     \/ \E n \in gets : line = <<Cmd("get", n)>>
    BY Zenon
  <2>4. line \in D => \E n \in {-1, 0}, b \in Bodies(binary) : line = <<Cmd("put", n)>> \o b \o Eot
    BY Zenon
  <2>5. line \in A => \E k \in {"nl", "text", "binary", "info", "erase", "run", "quit", "unknown"} :
                        line = <<Tok(k)>>
    BY Zenon
  <2>6. line \in B => \E n \in Sizes : line = <<Cmd("ls", n)>>
    BY Zenon
  <2> HIDE DEF A, B, C, D
  <2>7. line \in A \/ line \in B \/ line \in C \/ line \in D
    BY <2>1
  <2> QED BY <2>2, <2>3, <2>4, <2>5, <2>6, <2>7, Zenon
<1>2. {Tok(k) : k \in {"nl", "text", "binary", "info", "erase", "run", "quit", "unknown"}}
        \subseteq Words
  BY TokensOK DEF Words, Tok
<1>3. /\ \A n \in Sizes : Cmd("ls", n) \in Words /\ Cmd("get", n) \in Words
      /\ Cmd("get", -1) \in Words
  BY TokensOK DEF Words, Cmd
<1>4. \A w \in Words : <<w>> \in Seq(Words) /\ <<w>> # <<>>
  OBVIOUS
<1> QED BY <1>1, <1>2, <1>3, <1>4, BodiesAre

-----------------------------------------------------------------------------
(* The invariant of the types: while a shell has something to say, the slot is
   its own. *)
Dues == [slot : {-1} \cup Slot, says : Seq(Messages), stays : BOOLEAN]
Peers == [inbound : Seq(Words), asked : Seq(Words)]

ServerInv ==
  /\ TcpInv
  /\ shells \in [Slot -> Shells]
  /\ peers \in [Pcb -> Peers]
  /\ due \in Dues
  /\ due # Idle => due.slot \in Slot /\ InUse(due.slot)

LEMMA ConnectedIs ==
  /\ NewShell \in Shells /\ Silent \in Peers /\ Idle \in Dues
  /\ \A b \in SUBSET Losses : [Connected EXCEPT !.shell.lost = b] \in Answers
<1>1. NewShell \in Shells
  BY FilesAre, EmptySeq DEF NewShell, Shells, ShellStates, Losses
<1>2. Connected \in Answers
  BY <1>1, SendCompleteTypes DEF Connected
<1>3. \A b \in SUBSET Losses : [Connected EXCEPT !.shell.lost = b] \in Answers
  <2> TAKE b \in SUBSET Losses
  <2> DEFINE sh == [Connected.shell EXCEPT !.lost = b]
  <2>1. sh \in Shells
    BY <1>2 DEF Answers, Shells
  <2>2. [Connected EXCEPT !.shell.lost = b] = [Connected EXCEPT !.shell = sh]
    OBVIOUS
  <2> HIDE DEF sh
  <2> QED BY <1>2, <2>1, <2>2 DEF Answers
<1>4. Tok("nl") \in Words
  BY TokensOK DEF Words, Tok
<1>5. Silent \in Peers
  BY <1>4, EmptySeq DEF Silent, Peers
<1>6. Idle \in Dues
  BY EmptySeq DEF Idle, Dues
<1> QED BY <1>1, <1>3, <1>5, <1>6

LEMMA HearTypes ==
  ASSUME shells \in [Slot -> Shells], NEW s \in Slot, NEW r \in Answers, InUse(s)', Hear(s, r)
  PROVE  /\ shells' \in [Slot -> Shells] /\ due' \in Dues
         /\ due' # Idle => due'.slot \in Slot /\ InUse(due.slot)'
<1>1. shells' \in [Slot -> Shells]
  BY DEF Hear, Answers
<1>2. [slot |-> s, says |-> r.says, stays |-> r.stays] \in Dues
  BY DEF Answers, Dues
<1>3. /\ due' \in Dues
      /\ due' # Idle => due'.slot = s
  BY <1>2, ConnectedIs DEF Hear
<1> QED BY <1>1, <1>3 DEF InUse

LEMMA ServerInitial == ServerInit => ServerInv
<1> SUFFICES ASSUME ServerInit PROVE ServerInv
  OBVIOUS
<1>1. TcpInv
  BY EmptySeq DEF ServerInit, TcpInit, TcpInv, InUse, Client, Block, FreeBlock
<1> QED BY <1>1, ConnectedIs DEF ServerInit, ServerInv

LEMMA SayTypes ==
  ASSUME ServerInv, Steady, Say
  PROVE  ServerInv' /\ [TcpNext]_tcpVars
<1>0. PICK s \in Slot : s = due.slot
  BY DEF Say, ServerInv
<1>1. s = due.slot /\ InUse(s) /\ due \in Dues
  BY <1>0 DEF Say, ServerInv
<1>2. due.says \in Seq(Messages) /\ shells[s] \in Shells
  BY <1>1 DEF Dues, ServerInv
<1>3. CASE due.says # <<>>
  <2> DEFINE m == Head(due.says)
  <2>1. m \in Messages /\ Tail(due.says) \in Seq(Messages)
    BY <1>2, <1>3, HeadTailProperties
  <2>2. m \in Seq(Token) /\ m \in Seq(Token) \ {<<>>}
    BY <2>1 DEF Messages
  <2> HIDE DEF m
  <2>3. Send(s, m) /\ UNCHANGED <<shells, peers>>
    BY <1>1, <1>3 DEF Say, m
  <2>4. TcpNext
    BY <1>1, <2>2, <2>3 DEF TcpNext
  <2>5. TcpInv'
    BY <2>4, TcpInductive DEF ServerInv
  <2>6. \A t \in Slot : clients'[t].pcb = clients[t].pcb
    BY <1>1, <2>2, <2>3, SendDoes DEF ServerInv
  <2>7. InUse(s)'
    BY <1>1, <2>6 DEF InUse
  <2>8. due' = Idle \/ due' = [due EXCEPT !.says = Tail(@)]
    BY <1>3 DEF Say
  <2>9. due' \in Dues /\ (due' # Idle => due'.slot = s)
    BY <1>1, <2>1, <2>8, ConnectedIs DEF Dues
  <2> QED BY <2>3, <2>4, <2>5, <2>7, <2>9 DEF ServerInv, InUse
<1>4. CASE due.says = <<>>
  <2>1. /\ Disconnect(s) /\ due' = Idle /\ UNCHANGED peers
        /\ shells' = [shells EXCEPT ![s] = SendComplete(@, FALSE).shell]
    BY <1>1, <1>4 DEF Say
  <2>2. TcpNext
    BY <1>1, <2>1 DEF TcpNext
  <2>3. TcpInv'
    BY <2>2, TcpInductive DEF ServerInv
  <2>4. SendComplete(shells[s], FALSE).shell \in Shells
    BY <1>2, SendCompleteTypes DEF Answers
  <2>5. shells' \in [Slot -> Shells]
    BY <2>1, <2>4 DEF ServerInv
  <2> QED BY <2>1, <2>2, <2>3, <2>5, ConnectedIs DEF ServerInv
<1> QED BY <1>3, <1>4

LEMMA ConnectTypes ==
  ASSUME ServerInv, Steady, NEW p \in Pcb, Connect(p)
  PROVE  ServerInv' /\ [TcpNext]_tcpVars
<1>1. PICK s \in Slot :
        LET old == shells[s] IN
          /\ Accept(p, s)
          /\ Hear(s, [Connected EXCEPT !.shell.lost =
               old.lost \cup Undeleted(old.file, "left") \cup Undeleted(old.dir, "left")])
  BY DEF Connect
<1> DEFINE b == shells[s].lost \cup Undeleted(shells[s].file, "left")
                              \cup Undeleted(shells[s].dir, "left")
           r == [Connected EXCEPT !.shell.lost = b]
<1>2. b \in SUBSET Losses
  BY UndeletedIs DEF ServerInv, Shells, Losses
<1>3. r \in Answers
  <2> HIDE DEF b
  <2> QED BY <1>2, ConnectedIs
<1>4. TcpNext
  BY <1>1 DEF TcpNext
<1>5. TcpInv'
  BY <1>4, TcpInductive DEF ServerInv
<1>6. InUse(s)'
  BY <1>1, AcceptDoes, EspTCPConstantsOK DEF ServerInv, InUse
<1>7. Hear(s, r)
  BY <1>1
<1> HIDE DEF r
<1>8. /\ shells' \in [Slot -> Shells] /\ due' \in Dues
      /\ due' # Idle => due'.slot \in Slot /\ InUse(due.slot)'
  BY <1>3, <1>6, <1>7, HearTypes DEF ServerInv
<1>9. peers' \in [Pcb -> Peers]
  BY ConnectedIs DEF Connect, ServerInv
<1> QED BY <1>4, <1>5, <1>8, <1>9 DEF ServerInv

LEMMA AckTypes ==
  ASSUME ServerInv, Steady, NEW p \in Pcb, Ack(p)
  PROVE  ServerInv' /\ [TcpNext]_tcpVars
<1>1. PICK n \in 1 .. net[p].unacked : Sent(p, n)
  BY DEF Ack
<1>2. \A t \in Slot : clients'[t].pcb = clients[t].pcb
  BY <1>1, SentDoes DEF ServerInv
<1>3. TcpNext
  BY <1>1 DEF TcpNext
<1>4. TcpInv'
  BY <1>3, TcpInductive DEF ServerInv
<1>5. CASE findConnection(p) = -1
  <2>1. UNCHANGED <<shells, due, peers>>
    BY <1>5 DEF Ack
  <2> QED BY <1>2, <1>3, <1>4, <2>1 DEF ServerInv, InUse
<1>6. CASE findConnection(p) # -1
  <2>0. PICK s \in Slot : s = findConnection(p)
    BY <1>6, Found, NotFound DEF ServerInv
  <2>1. InUse(s) /\ ~ (s < 0)
    BY <1>6, <2>0, Found, NotFound, EspTCPConstantsOK DEF ServerInv
  <2>2. InUse(s)'
    BY <1>2, <2>1 DEF InUse
  <2>3. PICK fails \in MayFail(shells[s]) : Hear(s, SendComplete(shells[s], fails))
    BY <2>0, <2>1 DEF Ack
  <2>4. fails \in BOOLEAN /\ shells[s] \in Shells
    BY <2>3 DEF MayFail, ServerInv
  <2>5. SendComplete(shells[s], fails) \in Answers
    BY <2>4, SendCompleteTypes
  <2>6. /\ shells' \in [Slot -> Shells] /\ due' \in Dues
        /\ due' # Idle => due'.slot \in Slot /\ InUse(due.slot)'
    BY <2>2, <2>3, <2>5, HearTypes DEF ServerInv
  <2> QED BY <1>3, <1>4, <2>6 DEF ServerInv, Ack
<1> QED BY <1>5, <1>6

LEMMA LeaveTypes ==
  ASSUME ServerInv, Steady, NEW p \in Pcb, Leave(p)
  PROVE  ServerInv' /\ [TcpNext]_tcpVars
<1> DEFINE s == findConnection(p)
<1>1. /\ PeerCloses(p) /\ due = Idle /\ due' = due
      /\ shells' = [shells EXCEPT ![s] = SendComplete(@, FALSE).shell]
      /\ peers' = [peers EXCEPT ![p] = Silent]
  BY DEF Leave
<1>2. s \in Slot
  BY <1>1, Found DEF ServerInv, PeerCloses
<1>3. TcpNext
  BY <1>1 DEF TcpNext
<1>4. TcpInv'
  BY <1>3, TcpInductive DEF ServerInv
<1> HIDE DEF s
<1>5. SendComplete(shells[s], FALSE).shell \in Shells
  BY <1>2, SendCompleteTypes DEF ServerInv, Answers
<1> QED BY <1>1, <1>2, <1>3, <1>4, <1>5, ConnectedIs DEF ServerInv

LEMMA LwipTypes ==
  ASSUME ServerInv, Steady, NEW p \in Pcb, Lwip(p)
  PROVE  ServerInv' /\ [TcpNext]_tcpVars
<1>1. TcpNext /\ due = Idle /\ UNCHANGED <<shells, peers, due>>
  BY DEF Lwip, TcpNext
<1>2. TcpInv'
  BY <1>1, TcpInductive DEF ServerInv
<1> QED BY <1>1, <1>2 DEF ServerInv

LEMMA AskTypes ==
  ASSUME ServerInv, Steady, NEW p \in Pcb, Ask(p)
  PROVE  ServerInv' /\ [TcpNext]_tcpVars
<1>1. PICK line \in Asks(shells[findConnection(p)].binary) :
        /\ peers' = [peers EXCEPT ![p] = [inbound |-> line, asked |-> line]]
        /\ IF line = <<Tok("nl")>> THEN UNCHANGED tcpVars ELSE Read(p)
  BY DEF Ask
<1>2. [TcpNext]_tcpVars
  BY <1>1 DEF TcpNext
<1>3. TcpInv'
  BY <1>2, TcpInductive DEF ServerInv
<1>4. line \in Seq(Words)
  BY AsksAre
<1>5. peers' \in [Pcb -> Peers]
  BY <1>1, <1>4 DEF ServerInv, Peers
<1>6. due = Idle /\ UNCHANGED <<shells, due>>
  BY DEF Ask
<1> QED BY <1>2, <1>3, <1>5, <1>6 DEF ServerInv

LEMMA ReceiveTypes ==
  ASSUME ServerInv, Steady, NEW p \in Pcb, Receive(p)
  PROVE  ServerInv' /\ [TcpNext]_tcpVars
<1> DEFINE q == peers[p].inbound
<1>1. net[p].link = "open" /\ q # <<>> /\ UNCHANGED tcpVars
  BY DEF Receive
<1>0. PICK s \in Slot : s = findConnection(p)
  BY <1>1, Found DEF ServerInv
<1>2. s = findConnection(p) /\ InUse(s)
  BY <1>0, <1>1, Found DEF ServerInv
<1>3. q \in Seq(Words) /\ Len(q) \in Nat
  BY LenProperties DEF ServerInv, Peers
<1> HIDE DEF q
<1>4. PICK k \in 1 .. Len(q), fails \in MayFail(shells[s]) :
        /\ Hear(s, Received(shells[s], SubSeq(q, 1, k), fails))
        /\ peers' = [peers EXCEPT ![p].inbound = SubSeq(q, k + 1, Len(q))]
  BY <1>2 DEF Receive, q
<1>5. /\ SubSeq(q, 1, k) \in Seq(Words) /\ SubSeq(q, 1, k) # <<>>
      /\ SubSeq(q, k + 1, Len(q)) \in Seq(Words)
  <2>1. 1 \in 1 .. Len(q) + 1 /\ k \in 0 .. Len(q) /\ k + 1 \in 1 .. Len(q) + 1
        /\ Len(q) \in 0 .. Len(q)
    BY <1>3
  <2>2. SubSeq(q, 1, k) \in Seq(Words) /\ Len(SubSeq(q, 1, k)) = k
    BY <1>3, <2>1, PartIs
  <2>3. SubSeq(q, k + 1, Len(q)) \in Seq(Words)
    BY <1>3, <2>1, PartIs
  <2>4. k # 0
    BY <1>3
  <2> QED BY <2>2, <2>3, <2>4, EmptySeq
<1>6. fails \in BOOLEAN /\ shells[s] \in Shells
  BY <1>2, <1>4 DEF MayFail, ServerInv
<1>7. Received(shells[s], SubSeq(q, 1, k), fails) \in Answers
  BY <1>5, <1>6, ReceivedTypes
<1>8. TcpInv' /\ InUse(s)'
  BY <1>1, <1>2, TcpInductive DEF ServerInv, InUse, tcpVars
<1>9. /\ shells' \in [Slot -> Shells] /\ due' \in Dues
      /\ due' # Idle => due'.slot \in Slot /\ InUse(due.slot)'
  BY <1>2, <1>4, <1>7, <1>8, HearTypes DEF ServerInv
<1>10. peers' \in [Pcb -> Peers]
  BY <1>4, <1>5 DEF ServerInv, Peers, q
<1> QED BY <1>1, <1>8, <1>9, <1>10 DEF ServerInv

LEMMA ServerStep ==
  ASSUME Steady, ServerInv, [ServerNext]_vars
  PROVE  ServerInv' /\ [TcpNext]_tcpVars
<1>1. CASE UNCHANGED vars
  <2>1. TcpInv'
    BY <1>1, TcpInductive DEF ServerInv, vars, tcpVars
  <2> QED BY <1>1, <2>1 DEF vars, tcpVars, ServerInv, InUse
<1>2. CASE Say
  BY <1>2, SayTypes
<1>3. ASSUME NEW p \in Pcb,
             Connect(p) \/ Ack(p) \/ Leave(p) \/ Lwip(p) \/ Ask(p) \/ Receive(p)
      PROVE  ServerInv' /\ [TcpNext]_tcpVars
  BY <1>3, ConnectTypes, AckTypes, LeaveTypes, LwipTypes, AskTypes, ReceiveTypes
<1> QED BY <1>1, <1>2, <1>3 DEF ServerNext

(* A shell is one of the delegates EspTCP is written for: whatever the shells and
   their peers do, careful or not, the table of clients does what EspTCP says. *)
THEOREM ServerImplementsTcp ==
  ASSUME Faults \cap {"resets", "writeFails"} = {}
  PROVE  ServerSpec => TcpSpec
<1> USE DEF Steady
<1>1. ServerInit => TcpInit
  BY DEF ServerInit
<1>2. ServerInv /\ [ServerNext]_vars => ServerInv' /\ [TcpNext]_tcpVars
  BY ServerStep
<1> QED BY <1>1, <1>2, ServerInitial, PTL DEF ServerSpec, TcpSpec

(* The shells' types: no more of a file or of a listing has been read than there
   is, whatever is asked for and in whatever order. *)
THEOREM ServerTypes ==
  ASSUME Faults \cap {"resets", "writeFails"} = {}
  PROVE  ServerSpec => []ServerTypeOK
<1> USE DEF Steady
<1>1. ServerInv => ServerTypeOK
  <2> SUFFICES ASSUME ServerInv PROVE ServerTypeOK
    OBVIOUS
  <2>1. TcpTypeOK
    BY DEF ServerInv, TcpInv, TcpTypeOK
  <2>2. ASSUME NEW s \in Slot
        PROVE  /\ shells[s].state \in ShellStates
               /\ shells[s].saved \in Seq(Token)
               /\ shells[s].binary \in BOOLEAN
               /\ shells[s].lost \subseteq {"file", "dir", "bad", "erase", "left"}
               /\ shells[s].file \in Files
               /\ shells[s].dir \in Files
    BY DEF ServerInv, Shells, Losses
  <2>3. \A f \in Files : f.at \in 0 .. f.size
    BY FilesHave
  <2>4. \A p \in Pcb : peers[p].inbound \in Seq(Token) /\ peers[p].asked \in Seq(Token)
    BY WordsAre DEF ServerInv, Peers
  <2>5. due.slot \in {-1} \cup Slot /\ due.says \in Seq(Seq(Token)) /\ due.stays \in BOOLEAN
    <3>1. Messages \subseteq Seq(Token)
      BY DEF Messages
    <3>2. due.slot \in {-1} \cup Slot /\ due.says \in Seq(Messages) /\ due.stays \in BOOLEAN
      BY DEF ServerInv, Dues
    <3> QED BY <3>1, <3>2, SeqMonotonic
  <2> QED BY <2>1, <2>2, <2>3, <2>4, <2>5 DEF ServerTypeOK
<1>2. ServerInv /\ [ServerNext]_vars => ServerInv'
  BY ServerStep
<1> QED BY <1>1, <1>2, ServerInitial, PTL DEF ServerSpec

-----------------------------------------------------------------------------
(* Which answers a shell that nobody hurries gives.  said, says: what it has said
   since the peer last read, and what it is about to say; pr: the peer. *)
Mentions(said, says, k) == Kind(said, k) \/ \E i \in 1 .. Len(says) : Kind(says[i], k)
Text(said, says) == IF says = <<>> THEN said ELSE said \o says[1]
Prompts(said, says) ==
  LET last == IF says = <<>> THEN said ELSE says[Len(says)]
  IN last # <<>> /\ last[Len(last)].kind = "prompt"
Errs(said, says) ==
  \/ said # <<>> /\ said[1].kind = "error"
  \/ said = <<>> /\ says # <<>> /\ says[1][1].kind = "error"
Carried == DataKinds \cup {"stale"}

(* As many pieces of a file as make whole buffers; a file of whole buffers. *)
Buffers(at) == \E q \in Nat : at = BufferSize * q
EvenSize(n) == n % BufferSize = 0

(* The first d pieces, and nothing of a file after them. *)
Delivers(text, d) ==
  /\ d <= Len(text)
  /\ \A i \in 1 .. Len(text) : IF i <= d THEN text[i] = Data(i) ELSE text[i].kind \notin Carried

(* A command is on its way. *)
Commanded(sh, said, pr) ==
  /\ pr.inbound = pr.asked /\ sh.state = "ShowingPrompt"
  /\ pr.asked \in Asks(sh.binary)
  /\ pr.asked = <<Tok("nl")>> \/ said = <<>>

(* So is the rest of a put, of which the file, if it could be opened, holds the j
   first tokens' data. *)
Putting(sh, said, pr) ==
  /\ sh.state = "PutFile" /\ said = <<>>
  /\ \E n \in {-1, 0}, b \in Bodies(sh.binary) : pr.asked = <<Cmd("put", n)>> \o b \o Eot
  /\ \E j \in 1 .. Len(pr.asked) - 1 :
       /\ pr.inbound = SubSeq(pr.asked, j + 1, Len(pr.asked))
       /\ Exists(pr.asked[1])
          => sh.file # Bad /\ sh.saved = OfKind(SubSeq(pr.asked, 1, j), DataKinds)
       /\ sh.binary => j = 1 \/ (pr.asked[j].kind = "data" /\ pr.asked[j].n % 2 = 0)

Listing(sh, said, pr, says) ==
  /\ sh.state = "ListFiles"
  /\ pr.asked[1].kind = "ls" /\ sh.dir.size = pr.asked[1].n
  /\ Len(says) <= 1
  /\ Delivers(Text(said, says), sh.dir.at) /\ Len(Text(said, says)) = sh.dir.at
  /\ ~ Mentions(said, says, "prompt") /\ ~ Mentions(said, says, "eot")

(* Of text, the last piece is never a whole buffer. *)
Getting(sh, said, pr, says) ==
  /\ sh.state = "GetFile"
  /\ pr.asked[1].kind = "get" /\ Exists(pr.asked[1])
  /\ Len(says) <= 1
  /\ ~ Mentions(said, says, "prompt") /\ ~ Mentions(said, says, "eot")
  /\ \/ sh.file = None /\ Delivers(Text(said, says), pr.asked[1].n)
     \/ /\ sh.file.mode = "r" /\ sh.file.size = pr.asked[1].n
        /\ Delivers(Text(said, says), sh.file.at) /\ Len(Text(said, says)) = sh.file.at
        /\ Buffers(sh.file.at) /\ (sh.binary \/ ~ EvenSize(sh.file.size))

Ended(sh, said, pr, says) ==
  /\ sh.state \in {"NeedPrompt", "ShowingPrompt"}
  /\ Prompts(said, says) => sh.state = "ShowingPrompt"
  /\ \/ pr.asked[1].kind = "get" /\ Exists(pr.asked[1]) /\ Mentions(said, says, "eot")
     \/ pr.asked[1].kind = "ls"
     => Len(says) <= 1 /\ Delivers(Text(said, says), pr.asked[1].n)
  /\ pr.asked[1].kind = "put" /\ Exists(pr.asked[1])
     => sh.saved = OfKind(pr.asked, DataKinds) \/ Errs(said, says)

Answering(sh, said, pr, says, stays) ==
  /\ pr.inbound = <<>> /\ pr.asked # <<>>
  /\ \/ stays /\ (Listing(sh, said, pr, says) \/ Getting(sh, said, pr, says))
     \/ Ended(sh, said, pr, says)

Fits(sh, said, pr, says, stays) ==
  \/ says = <<>> /\ stays /\ (Commanded(sh, said, pr) \/ Putting(sh, said, pr))
  \/ Answering(sh, said, pr, says, stays)

(* The invariant of the answers: a shell in use is somewhere between a command and
   the prompt. *)
Says(s) == IF due.slot = s THEN due.says ELSE <<>>
Stays(s) == due.slot = s => due.stays
SlotFits(s) ==
  InUse(s) =>
    Fits(shells[s], net[clients[s].pcb].said, peers[clients[s].pcb], Says(s), Stays(s))
DueFits == due # Idle => due.says # <<>> \/ ~ due.stays
AnswerInv == DueFits /\ \A s \in Slot : SlotFits(s)

LEMMA KindConcat ==
  ASSUME NEW S, NEW s \in Seq(S), NEW t \in Seq(S), NEW k
  PROVE  Kind(s \o t, k) <=> Kind(s, k) \/ Kind(t, k)
<1> DEFINE u == s \o t  m == Len(s)  n == Len(t)
<1>1. /\ u \in Seq(S) /\ Len(u) = m + n /\ m \in Nat /\ n \in Nat
      /\ \A i \in 1 .. m + n : u[i] = IF i <= m THEN s[i] ELSE t[i - m]
  BY ConcatProperties, LenProperties
<1>2. DOMAIN u = 1 .. m + n /\ DOMAIN s = 1 .. m /\ DOMAIN t = 1 .. n
  BY <1>1, LenProperties
<1> HIDE DEF u, m, n
<1>3. ASSUME NEW i \in 1 .. m, s[i].kind = k PROVE Kind(u, k)
  <2>1. i \in 1 .. m + n /\ i <= m
    BY <1>1
  <2>2. u[i] = s[i]
    BY <1>1, <2>1
  <2> QED BY <1>2, <1>3, <2>1, <2>2 DEF Kind
<1>4. ASSUME NEW i \in 1 .. n, t[i].kind = k PROVE Kind(u, k)
  <2> DEFINE j == m + i
  <2>1. j \in 1 .. m + n /\ ~ (j <= m) /\ j - m = i
    BY <1>1
  <2> HIDE DEF j
  <2>2. u[j] = t[i]
    BY <1>1, <2>1
  <2> QED BY <1>2, <1>4, <2>1, <2>2 DEF Kind
<1>5. ASSUME NEW j \in 1 .. m + n, u[j].kind = k PROVE Kind(s, k) \/ Kind(t, k)
  <2>1. CASE j <= m
    <3>1. j \in 1 .. m /\ u[j] = s[j]
      BY <1>1, <2>1
    <3> QED BY <1>2, <1>5, <3>1 DEF Kind
  <2>2. CASE ~ (j <= m)
    <3>1. j - m \in 1 .. n /\ u[j] = t[j - m]
      BY <1>1, <2>2
    <3> QED BY <1>2, <1>5, <3>1 DEF Kind
  <2> QED BY <2>1, <2>2
<1>6. Kind(u, k) <=> Kind(s, k) \/ Kind(t, k)
  BY <1>2, <1>3, <1>4, <1>5 DEF Kind
<1> QED BY <1>6 DEF u

(* What follows the pieces of a file. *)
LEMMA OthersFollow ==
  ASSUME NEW x \in Seq(Token), NEW m \in Seq(Token), NEW d \in Nat, Delivers(x, d),
         \A i \in 1 .. Len(m) : m[i].kind \notin Carried
  PROVE  Delivers(x \o m, d)
<1>1. /\ Len(x \o m) = Len(x) + Len(m) /\ Len(x) \in Nat /\ Len(m) \in Nat
      /\ \A i \in 1 .. Len(x) + Len(m) : (x \o m)[i] = IF i <= Len(x) THEN x[i] ELSE m[i - Len(x)]
  BY ConcatProperties, LenProperties
<1>2. d <= Len(x)
  BY DEF Delivers
<1>3. ASSUME NEW i \in 1 .. Len(x) + Len(m)
      PROVE  IF i <= d THEN (x \o m)[i] = Data(i) ELSE (x \o m)[i].kind \notin Carried
  <2>1. CASE i <= Len(x)
    <3>1. i \in 1 .. Len(x) /\ (x \o m)[i] = x[i]
      BY <1>1, <2>1
    <3> QED BY <3>1 DEF Delivers
  <2>2. CASE ~ (i <= Len(x))
    <3>1. i - Len(x) \in 1 .. Len(m) /\ (x \o m)[i] = m[i - Len(x)] /\ ~ (i <= d)
      BY <1>1, <1>2, <2>2
    <3> QED BY <3>1
  <2> QED BY <2>1, <2>2
<1> QED BY <1>1, <1>2, <1>3 DEF Delivers

LEMMA PiecesFollow ==
  ASSUME NEW x \in Seq(Token), NEW d \in Nat, Delivers(x, d), Len(x) = d,
         NEW k \in Nat, NEW m \in Seq(Token), Len(m) = k, \A i \in 1 .. k : m[i] = Data(d + i)
  PROVE  Delivers(x \o m, d + k) /\ Len(x \o m) = d + k
<1>1. /\ Len(x \o m) = d + k
      /\ \A i \in 1 .. d + k : (x \o m)[i] = IF i <= d THEN x[i] ELSE m[i - d]
  <2>1. /\ Len(x \o m) = Len(x) + Len(m)
        /\ \A i \in 1 .. Len(x) + Len(m) : (x \o m)[i] = IF i <= Len(x) THEN x[i] ELSE m[i - Len(x)]
    BY ConcatProperties
  <2> QED BY <2>1
<1>2. ASSUME NEW i \in 1 .. d + k PROVE (x \o m)[i] = Data(i)
  <2>1. CASE i <= d
    <3>1. i \in 1 .. Len(x) /\ (x \o m)[i] = x[i]
      BY <1>1, <2>1
    <3> QED BY <2>1, <3>1 DEF Delivers
  <2>2. CASE ~ (i <= d)
    <3> DEFINE j == i - d
    <3>1. j \in 1 .. k /\ d + j = i /\ (x \o m)[i] = m[j]
      BY <1>1, <2>2
    <3> HIDE DEF j
    <3>2. m[j] = Data(d + j)
      BY <3>1
    <3> QED BY <3>1, <3>2
  <2> QED BY <2>1, <2>2
<1>3. \A i \in 1 .. d + k : i <= d + k
  OBVIOUS
<1> QED BY <1>1, <1>2, <1>3 DEF Delivers

(* All there is of a file in what delivers it. *)
LEMMA DeliversAll ==
  ASSUME NEW x \in Seq(Token), NEW d \in Nat, Delivers(x, d)
  PROVE  OfKind(x, Carried) = Pieces(0, d)
<1> DEFINE f == Pieces(0, d)
           I == Places(x, Carried)
<1>1. Len(x) \in Nat /\ DOMAIN x = 1 .. Len(x) /\ d <= Len(x)
  BY LenProperties DEF Delivers
<1>2. \A i \in 1 .. Len(x) : i <= d => x[i] = Data(i)
  BY DEF Delivers
<1>3. \A i \in 1 .. d : i \in 1 .. Len(x) /\ x[i] = Data(i) /\ x[i].kind \in Carried
  <2> TAKE i \in 1 .. d
  <2>1. i \in 1 .. Len(x) /\ i <= d
    BY <1>1
  <2> QED BY <1>2, <2>1 DEF Carried, DataKinds, Data
<1>4. I = 1 .. d
  <2>1. ASSUME NEW i \in I PROVE i \in 1 .. d
    <3>1. i \in 1 .. Len(x) /\ x[i].kind \in Carried
      BY <1>1 DEF Places
    <3>2. i <= d
      BY <3>1 DEF Delivers
    <3> QED BY <1>1, <3>1, <3>2
  <2>2. ASSUME NEW i \in 1 .. d PROVE i \in I
    BY <1>1, <1>3 DEF Places
  <2> QED BY <2>1, <2>2
<1>5. \A i \in 1 .. d : Count(x, Carried, i) = i
  <2> TAKE i \in 1 .. d
  <2>1. {h \in 1 .. d : h <= i} = 1 .. i
    BY SMTT(30)
  <2>2. Cardinality(1 .. i) = i
    BY FS_Interval
  <2> QED BY <1>4, <2>1, <2>2 DEF Count
<1>6. Cardinality(I) = d
  BY <1>4, FS_Interval
<1>7. f \in [1 .. d -> {x[i] : i \in 1 .. d}] /\ \A i \in 1 .. d : f[i] = x[i]
  <2>1. \A i \in 1 .. d : f[i] = x[i] /\ 0 + i = i
    BY <1>3 DEF Pieces
  <2>2. f = [i \in 1 .. d |-> f[i]]
    BY DEF Pieces
  <2> QED BY <2>1, <2>2
<1>8. f \in Seq(Token) /\ Len(f) = d
  <2>1. \A i \in 1 .. d : x[i] \in Token
    BY <1>3, ElementOfSeq
  <2>2. f \in [1 .. d -> Token]
    BY <1>7, <2>1
  <2> HIDE DEF f
  <2>3. f \in Seq(Token)
    BY <2>2, SeqDef
  <2>4. DOMAIN f = 1 .. d /\ DOMAIN f = 1 .. Len(f) /\ Len(f) \in Nat
    BY <2>2, <2>3, LenProperties
  <2> QED BY <2>3, <2>4
<1> HIDE DEF f
<1>9. \A i \in I : f[Count(x, Carried, i)] = x[i]
  BY <1>4, <1>5, <1>7
<1>10. f = OfKind(x, Carried)
  BY <1>6, <1>8, <1>9, OnlyOfKind
<1> QED BY <1>10 DEF f

(* A message that goes out is still part of what has been said and will be. *)
LEMMA SaidSame ==
  ASSUME NEW said \in Seq(Token), NEW says \in Seq(Messages), says # <<>>
  PROVE  LET all == said \o Head(says) IN
           /\ all \in Seq(Token) /\ all # <<>>
           /\ \A k : Mentions(all, Tail(says), k) <=> Mentions(said, says, k)
           /\ Prompts(all, Tail(says)) <=> Prompts(said, says)
           /\ Errs(said, says) => Errs(all, Tail(says))
           /\ Len(says) <= 1 => Tail(says) = <<>> /\ Text(all, Tail(says)) = Text(said, says)
           /\ Len(Tail(says)) = Len(says) - 1
<1> DEFINE m == Head(says)  rest == Tail(says)  all == said \o m  n == Len(says)
<1>1. /\ m \in Messages /\ rest \in Seq(Messages) /\ Len(rest) = n - 1
      /\ \A i \in 1 .. Len(rest) : rest[i] = says[i + 1]
      /\ n \in Nat /\ n > 0
  BY HeadTailProperties, LenProperties, EmptySeq
<1>2. m = says[1]
  BY <1>1
<1>3. m \in Seq(Token) /\ m # <<>> /\ Len(m) \in Nat /\ Len(m) > 0 /\ Len(said) \in Nat
  BY <1>1, LenProperties, EmptySeq DEF Messages
<1> HIDE DEF m, rest, n
<1>4. /\ all \in Seq(Token) /\ all # <<>> /\ Len(all) = Len(said) + Len(m)
      /\ \A i \in 1 .. Len(said) + Len(m) :
           all[i] = IF i <= Len(said) THEN said[i] ELSE m[i - Len(said)]
  BY <1>3, ConcatProperties, ConcatEqualIffEmpty
<1>5. \A k : Kind(all, k) <=> Kind(said, k) \/ Kind(m, k)
  BY <1>3, KindConcat
<1> HIDE DEF all
<1>6. ASSUME NEW k PROVE Mentions(all, rest, k) <=> Mentions(said, says, k)
  <2>1. ASSUME NEW i \in 1 .. n, Kind(says[i], k) PROVE Mentions(all, rest, k)
    <3>1. CASE i = 1
      BY <1>2, <1>5, <2>1, <3>1 DEF Mentions
    <3>2. CASE i # 1
      <4> DEFINE j == i - 1
      <4>1. j \in 1 .. Len(rest) /\ j + 1 = i
        BY <1>1, <3>2
      <4> HIDE DEF j
      <4>2. rest[j] = says[i]
        BY <1>1, <4>1
      <4> QED BY <2>1, <4>1, <4>2 DEF Mentions
    <3> QED BY <3>1, <3>2
  <2>2. ASSUME NEW i \in 1 .. Len(rest), Kind(rest[i], k) PROVE Mentions(said, says, k)
    <3>1. i + 1 \in 1 .. n /\ rest[i] = says[i + 1]
      BY <1>1
    <3> QED BY <2>2, <3>1 DEF Mentions, n
  <2>3. Kind(said, k) => Mentions(all, rest, k)
    BY <1>5 DEF Mentions
  <2>4. Kind(all, k) => Mentions(said, says, k)
    <3>1. 1 \in 1 .. n
      BY <1>1
    <3> QED BY <1>2, <1>5, <3>1 DEF Mentions, n
  <2> QED BY <2>1, <2>2, <2>3, <2>4 DEF Mentions, n
<1>7. Prompts(all, rest) <=> Prompts(said, says)
  <2>1. CASE rest = <<>>
    <3>1. n = 1
      BY <1>1, <2>1, EmptySeq
    <3>2. all[Len(all)] = m[Len(m)]
      <4> DEFINE j == Len(all)
      <4>1. j \in 1 .. Len(said) + Len(m) /\ ~ (j <= Len(said)) /\ j - Len(said) = Len(m)
        BY <1>3, <1>4
      <4> HIDE DEF j
      <4>2. all[j] = m[Len(m)]
        BY <1>4, <4>1
      <4> QED BY <4>2 DEF j
    <3> QED BY <1>2, <1>3, <1>4, <2>1, <3>1, <3>2 DEF Prompts, n
  <2>2. CASE rest # <<>>
    <3> DEFINE j == Len(rest)
    <3>1. j \in 1 .. Len(rest) /\ j + 1 = n
      BY <1>1, <2>2, EmptySeq
    <3> HIDE DEF j
    <3>2. rest[j] = says[j + 1]
      BY <1>1, <3>1
    <3>3. rest[Len(rest)] = says[Len(says)]
      BY <3>1, <3>2 DEF j, n
    <3> QED BY <2>2, <3>3 DEF Prompts
  <2> QED BY <2>1, <2>2
<1>8. Errs(said, says) => Errs(all, rest)
  <2>1. CASE said = <<>>
    <3>1. Len(said) = 0
      BY <2>1
    <3>2. 1 \in 1 .. Len(said) + Len(m) /\ ~ (1 <= Len(said)) /\ 1 - Len(said) = 1
      BY <1>3, <3>1
    <3>3. all[1] = m[1]
      BY <1>4, <3>2
    <3> QED BY <1>2, <1>4, <2>1, <3>3 DEF Errs
  <2>2. CASE said # <<>>
    <3>1. Len(said) > 0
      BY <1>3, <2>2, EmptySeq
    <3>2. 1 \in 1 .. Len(said) + Len(m) /\ 1 <= Len(said)
      BY <1>3, <3>1
    <3>3. all[1] = said[1]
      BY <1>4, <3>2
    <3> QED BY <1>4, <2>2, <3>3 DEF Errs
  <2> QED BY <2>1, <2>2
<1>9. ASSUME n <= 1 PROVE rest = <<>> /\ Text(all, rest) = Text(said, says)
  <2>1. Len(rest) = 0
    BY <1>1, <1>9
  <2>2. rest = <<>>
    BY <1>1, <2>1, EmptySeq
  <2> QED BY <1>2, <2>2 DEF Text, all
<1> QED BY <1>1, <1>4, <1>6, <1>7, <1>8, <1>9 DEF all, m, rest, n

LEMMA OneMessage ==
  ASSUME NEW said \in Seq(Token), NEW m \in Messages, NEW says, says = <<m>>
  PROVE  /\ Text(said, says) = said \o m
         /\ Mentions(said, says, "prompt") <=> Kind(said, "prompt") \/ Kind(m, "prompt")
         /\ Mentions(said, says, "eot") <=> Kind(said, "eot") \/ Kind(m, "eot")
         /\ Prompts(said, says) <=> m[Len(m)].kind = "prompt"
         /\ Errs(said, <<>>) => Errs(said, says)
         /\ Len(says) <= 1 /\ says # <<>>
<1>1. Len(says) = 1 /\ says[1] = m /\ says # <<>>
  OBVIOUS
<1>2. \A i : i \in 1 .. 1 <=> i = 1
  OBVIOUS
<1>3. m # <<>>
  BY DEF Messages
<1>4. Text(said, says) = said \o m
  BY <1>1 DEF Text
<1>5. \A k : Mentions(said, says, k) <=> Kind(said, k) \/ Kind(m, k)
  BY <1>1, <1>2 DEF Mentions
<1>6. Prompts(said, says) <=> m[Len(m)].kind = "prompt"
  BY <1>1, <1>3 DEF Prompts
<1>7. Errs(said, <<>>) => Errs(said, says)
  BY DEF Errs
<1>8. Len(says) <= 1
  BY <1>1
<1> QED BY <1>1, <1>4, <1>5, <1>6, <1>7, <1>8

LEMMA NoMessage ==
  ASSUME NEW said
  PROVE  /\ Text(said, <<>>) = said
         /\ Mentions(said, <<>>, "prompt") <=> Kind(said, "prompt")
         /\ Mentions(said, <<>>, "eot") <=> Kind(said, "eot")
         /\ Len(<<>>) = 0
<1>1. Len(<<>>) = 0 /\ \A i : i \notin 1 .. 0
  OBVIOUS
<1> QED BY <1>1 DEF Text, Mentions

LEMMA SayFits ==
  ASSUME NEW sh \in Shells, NEW said \in Seq(Token), NEW pr \in Peers, NEW stays,
         NEW says \in Seq(Messages), says # <<>>, Answering(sh, said, pr, says, stays)
  PROVE  Answering(sh, said \o Head(says), pr, Tail(says), stays)
<1> DEFINE all == said \o Head(says)  rest == Tail(says)
<1>1. /\ \A k : Mentions(all, rest, k) <=> Mentions(said, says, k)
      /\ Prompts(all, rest) <=> Prompts(said, says)
      /\ Errs(said, says) => Errs(all, rest)
      /\ Len(says) <= 1 => rest = <<>> /\ Text(all, rest) = Text(said, says)
  BY SaidSame
<1>2. Len(rest) = Len(says) - 1 /\ Len(says) \in Nat
  BY SaidSame, LenProperties
<1> HIDE DEF all, rest
<1>3. Len(says) <= 1 => Len(rest) <= 1
  BY <1>2
<1>4. Listing(sh, said, pr, says) => Listing(sh, all, pr, rest)
  BY <1>1, <1>3 DEF Listing
<1>5. Getting(sh, said, pr, says) => Getting(sh, all, pr, rest)
  BY <1>1, <1>3 DEF Getting
<1>6. Ended(sh, said, pr, says) => Ended(sh, all, pr, rest)
  BY <1>1, <1>3 DEF Ended
<1>7. Answering(sh, all, pr, rest, stays)
  BY <1>4, <1>5, <1>6 DEF Answering
<1> QED BY <1>7 DEF all, rest

(* Messages that carry nothing of a file, and the kinds of those that do. *)
LEMMA PlainMessages ==
  /\ \A m \in {Welcome, Error, Info, Prompt, Eot, <<Tok("nl")>>} :
       /\ m \in Messages
       /\ \A i \in 1 .. Len(m) : m[i].kind \notin Carried
       /\ m # Prompt => ~ Kind(m, "prompt") /\ m[Len(m)].kind # "prompt"
       /\ m # Eot => ~ Kind(m, "eot")
  /\ Prompt[Len(Prompt)].kind = "prompt"
  /\ Error # Prompt /\ Error # Eot /\ Info # Prompt /\ Info # Eot /\ Eot # Prompt
  /\ <<Tok("nl")>> # Prompt /\ <<Tok("nl")>> # Eot /\ Welcome # Prompt
<1>1. /\ \A k \in {"prompt", "error", "eot", "nl"} :
           \A i \in 1 .. Len(<<Tok(k)>>) : i = 1
      /\ \A k : \A i \in 1 .. Len(<<Tok(k), Tok(k)>>) : i = 1 \/ i = 2
      /\ \A k : \A i \in 1 .. Len(<<Tok(k), Tok(k), Tok(k)>>) : i = 1 \/ i = 2 \/ i = 3
  OBVIOUS
<1>2. \A k : /\ Len(<<Tok(k)>>) = 1 /\ <<Tok(k)>>[1] = Tok(k)
             /\ Len(<<Tok(k), Tok(k)>>) = 2 /\ <<Tok(k), Tok(k)>>[1] = Tok(k)
             /\ <<Tok(k), Tok(k)>>[2] = Tok(k)
             /\ DOMAIN <<Tok(k)>> = {1} /\ DOMAIN <<Tok(k), Tok(k)>> = {1, 2}
             /\ Len(<<Tok(k), Tok(k), Tok(k)>>) = 3
             /\ <<Tok(k), Tok(k), Tok(k)>>[1] = Tok(k) /\ <<Tok(k), Tok(k), Tok(k)>>[2] = Tok(k)
             /\ <<Tok(k), Tok(k), Tok(k)>>[3] = Tok(k)
             /\ DOMAIN <<Tok(k), Tok(k), Tok(k)>> = {1, 2, 3}
  OBVIOUS
<1>3. \A k : Tok(k).kind = k
  BY DEF Tok
<1>4. {Welcome, Error, Info, Prompt, Eot, <<Tok("nl")>>} \subseteq Messages
  BY MessagesAre
<1>5. \A k \in {"prompt", "error", "eot", "nl", "welcome", "info"} : k \notin Carried
  BY DEF Carried, DataKinds
<1>6. \A k \in {"prompt", "error", "eot", "nl"} :
        LET m == <<Tok(k)>> IN
          /\ \A i \in 1 .. Len(m) : m[i].kind \notin Carried
          /\ \A j : Kind(m, j) <=> j = k
          /\ m[Len(m)].kind = k
  BY <1>1, <1>2, <1>3, <1>5 DEF Kind
<1>7. \A k \in {"welcome"} :
        LET m == <<Tok(k), Tok(k)>> IN
          /\ \A i \in 1 .. Len(m) : m[i].kind \notin Carried
          /\ \A j : Kind(m, j) <=> j = k
          /\ m[Len(m)].kind = k
  BY <1>1, <1>2, <1>3, <1>5 DEF Kind
<1>8. \A k \in {"info"} :
        LET m == <<Tok(k), Tok(k), Tok(k)>> IN
          /\ \A i \in 1 .. Len(m) : m[i].kind \notin Carried
          /\ \A j : Kind(m, j) <=> j = k
          /\ m[Len(m)].kind = k
  BY <1>1, <1>2, <1>3, <1>5 DEF Kind
<1> QED BY <1>4, <1>6, <1>7, <1>8 DEF Welcome, Error, Info, Prompt, Eot

LEMMA PlainErrors ==
  /\ Error \in Messages /\ Info \in Messages
  /\ \A k \in {"prompt", "eot"} : ~ Kind(Error, k) /\ ~ Kind(Info, k)
  /\ Error[Len(Error)].kind # "prompt" /\ Info[Len(Info)].kind # "prompt"
  /\ \A i \in 1 .. Len(Error) : Error[i].kind \notin Carried
  /\ \A i \in 1 .. Len(Info) : Info[i].kind \notin Carried
<1>1. Error # Prompt /\ Error # Eot /\ Info # Prompt /\ Info # Eot
  BY PlainMessages
<1>2. ASSUME NEW m \in {Error, Info}
      PROVE  /\ m \in Messages /\ ~ Kind(m, "prompt") /\ ~ Kind(m, "eot")
             /\ m[Len(m)].kind # "prompt" /\ \A i \in 1 .. Len(m) : m[i].kind \notin Carried
  BY <1>1, PlainMessages
<1> QED BY <1>2

(* What was asked of a file or of a listing there is. *)
LEMMA AskedIs ==
  ASSUME NEW pr \in Peers, pr.asked # <<>>
  PROVE  /\ pr.asked[1] \in Words /\ Len(pr.asked) \in Nat /\ Len(pr.asked) > 0
         /\ pr.asked[1].kind = "ls" => pr.asked[1].n \in Sizes /\ pr.asked[1].n \in Nat
         /\ pr.asked[1].kind = "get" /\ Exists(pr.asked[1])
            => pr.asked[1].n \in Sizes \cup {0} /\ pr.asked[1].n \in Nat
<1>1. pr.asked \in Seq(Words)
  BY DEF Peers
<1>2. Len(pr.asked) \in Nat /\ Len(pr.asked) > 0 /\ pr.asked[1] \in Words
  <2>1. Len(pr.asked) \in Nat /\ Len(pr.asked) > 0
    BY <1>1, LenProperties, EmptySeq
  <2>2. 1 \in 1 .. Len(pr.asked)
    BY <2>1
  <2> QED BY <1>1, <2>1, <2>2, ElementOfSeq
<1> DEFINE c == pr.asked[1]
<1>3. c \in Words
  BY <1>2
<1> HIDE DEF c
<1>4. c.kind = "ls" => c.n \in Sizes /\ c.n \in Nat
  BY <1>3, ServerConstantsOK DEF Words
<1>5. ASSUME c.kind = "get", Exists(c) PROVE c.n \in Sizes \cup {0} /\ c.n \in Nat
  <2>1. c.n \in Sizes \cup {-1, 0}
    BY <1>3, <1>5 DEF Words
  <2>2. c.n >= 0
    BY <1>5 DEF Exists
  <2> DEFINE n == c.n
  <2>3. n \in Sizes \cup {-1, 0} /\ n >= 0
    BY <2>1, <2>2
  <2> HIDE DEF n
  <2>4. n # -1
    BY <2>3
  <2>5. n \in Sizes \cup {0}
    BY <2>3, <2>4
  <2>6. Sizes \subseteq Nat
    BY ServerConstantsOK
  <2>7. n \in Nat
    BY <2>5, <2>6
  <2> QED BY <2>5, <2>7 DEF n
<1> QED BY <1>2, <1>4, <1>5 DEF c

LEMMA PieceMessages ==
  ASSUME NEW at \in Nat, NEW k \in Nat, k > 0, NEW n \in Sizes \cup {0}, at + k <= n
  PROVE  LET m == Pieces(at, k) IN
           /\ m \in Messages /\ m \in Seq(Token) /\ Len(m) = k
           /\ \A i \in 1 .. k : m[i] = Data(at + i)
           /\ ~ Kind(m, "prompt") /\ ~ Kind(m, "eot") /\ m[Len(m)].kind # "prompt"
<1> DEFINE m == Pieces(at, k)
<1>1. m \in Messages /\ m \in Seq(Token) /\ Len(m) = k /\ \A i \in 1 .. k : m[i] = Data(at + i)
  BY PiecesAre
<1>2. DOMAIN m = 1 .. k /\ k \in 1 .. k
  BY <1>1, LenProperties
<1> HIDE DEF m
<1>3. \A i \in 1 .. k : m[i].kind = "data"
  BY <1>1 DEF Data
<1> QED BY <1>1, <1>2, <1>3 DEF Kind, m

LEMMA Multiples ==
  ASSUME NEW b \in Nat \ {0}, NEW q \in Nat
  PROVE  b * q + b = b * (q + 1) /\ (b * q) % b = 0 /\ b * 0 = 0
<1>1. \A x, y \in Int : x * (y + 1) = x * y + x
  OBVIOUS
<1>2. \A r \in Int : (b * r) % b = 0
  OBVIOUS
<1>3. \A x \in Int : x * 0 = 0
  OBVIOUS
<1> QED BY <1>1, <1>2, <1>3

(* The state in which GetPiece is called, and what it makes of it. *)
LEMMA GetPieceFits ==
  ASSUME NEW sh \in Shells, NEW said \in Seq(Token), NEW pr \in Peers, pr.inbound = <<>>,
         sh.state = "GetFile",
         pr.asked[1].kind = "get", Exists(pr.asked[1]),
         ~ Kind(said, "prompt"), ~ Kind(said, "eot"),
         sh.file.mode = "r", sh.file.size = pr.asked[1].n,
         Delivers(said, sh.file.at), Len(said) = sh.file.at,
         Buffers(sh.file.at), sh.binary \/ ~ EvenSize(sh.file.size), pr.asked # <<>>,
         NEW fails \in BOOLEAN, fails => sh.binary
  PROVE  LET r == GetPiece(sh, fails) IN
           r.stays /\ Answering(r.shell, said, pr, r.says, r.stays)
<1> DEFINE at == sh.file.at
           n == sh.file.size
           k == IF n - at < BufferSize THEN n - at ELSE BufferSize
           r == GetPiece(sh, fails)
<1>1. at \in Nat /\ n \in Nat /\ n \in Sizes \cup {0} /\ at <= n /\ sh.file \in Files
  BY FilesHave DEF Shells
<1>2. k \in Nat /\ at + k <= n /\ BufferSize \in Nat \ {0}
  BY <1>1, ShellConstantsOK
<1>3. \A m \in Messages : m \in Seq(Token)
  BY DEF Messages
<1>b. sh.file # Bad
  BY DEF Bad, Opened
<1>4. CASE fails
  <2> DEFINE x == [[sh EXCEPT !.file = None] EXCEPT !.state = "NeedPrompt"]
  <2>1. r = Result(x, <<Error>>)
    BY <1>4 DEF GetPiece, Failed
  <2>2. x.state = "NeedPrompt"
    BY DEF Shells
  <2>3. Error \in Messages /\ ~ Kind(Error, "eot") /\ Error[Len(Error)].kind # "prompt"
    BY PlainErrors
  <2>4. ~ Mentions(said, <<Error>>, "eot") /\ ~ Prompts(said, <<Error>>)
    <3> DEFINE says == <<Error>>
    <3>1. says = <<Error>>
      OBVIOUS
    <3> HIDE DEF says
    <3>2. ~ Mentions(said, says, "eot") /\ ~ Prompts(said, says)
      BY <2>3, <3>1, OneMessage
    <3> QED BY <3>2 DEF says
  <2> HIDE DEF x
  <2>5. Ended(x, said, pr, <<Error>>)
    BY <2>2, <2>4 DEF Ended
  <2> QED BY <2>1, <2>5 DEF Result, Answering
<1>5. CASE ~ fails /\ k > 0
  <2> DEFINE after == IF k < BufferSize THEN None ELSE [sh.file EXCEPT !.at = @ + k]
             m == Pieces(at, k)
             x == [sh EXCEPT !.file = after]
  <2>1. r = Result(x, <<m>>)
    BY <1>b, <1>5 DEF GetPiece
  <2>2. /\ m \in Messages /\ m \in Seq(Token) /\ Len(m) = k /\ \A i \in 1 .. k : m[i] = Data(at + i)
        /\ ~ Kind(m, "prompt") /\ ~ Kind(m, "eot")
    BY <1>1, <1>2, <1>5, PieceMessages
  <2> HIDE DEF m, k, at
  <2>a. Delivers(said, at) /\ Len(said) = at
    BY DEF at
  <2>3. Delivers(said \o m, at + k) /\ Len(said \o m) = at + k
    BY <1>1, <1>2, <2>2, <2>a, PiecesFollow
  <2> DEFINE says == <<m>>
  <2>s. says = <<m>>
    OBVIOUS
  <2> HIDE DEF says
  <2>4. /\ Text(said, says) = said \o m /\ Len(says) <= 1
        /\ ~ Mentions(said, says, "prompt") /\ ~ Mentions(said, says, "eot")
    BY <2>2, <2>s, OneMessage
  <2>5. x.state = "GetFile" /\ x.binary = sh.binary /\ x.file = after
    BY DEF Shells
  <2>6. CASE k < BufferSize
    <3>1. at + k = n /\ x.file = None
      BY <1>1, <1>2, <2>5, <2>6 DEF k
    <3>2. Delivers(Text(said, says), pr.asked[1].n)
      BY <2>3, <2>4, <3>1 DEF says
    <3> HIDE DEF x
    <3>3. Getting(x, said, pr, says)
      BY <2>4, <2>5, <3>1, <3>2 DEF Getting, says
    <3> QED BY <2>1, <3>3 DEF Result, Answering, says
  <2>7. CASE ~ (k < BufferSize)
    <3>1. k = BufferSize
      BY <1>1, <1>2, <2>7 DEF k
    <3>2. x.file.mode = "r" /\ x.file.size = pr.asked[1].n /\ x.file.at = at + k
      BY <1>1, <2>5, <2>7 DEF Files, at
    <3>5. Buffers(x.file.at)
      <4>1. PICK q \in Nat : at = BufferSize * q
        BY DEF at, Buffers
      <4>2. at + k = BufferSize * (q + 1) /\ q + 1 \in Nat
        BY <1>2, <3>1, <4>1, Multiples
      <4> QED BY <3>2, <4>2 DEF Buffers
    <3>6. Delivers(Text(said, says), x.file.at) /\ Len(Text(said, says)) = x.file.at
      BY <2>3, <2>4, <3>2 DEF says
    <3>7. x.binary \/ ~ EvenSize(x.file.size)
      BY <2>5, <3>2
    <3> HIDE DEF x
    <3>8. Getting(x, said, pr, says)
      BY <2>4, <2>5, <3>2, <3>5, <3>6, <3>7 DEF Getting, says
    <3> QED BY <2>1, <3>8 DEF Result, Answering, says
  <2> QED BY <2>6, <2>7
<1>6. CASE ~ fails /\ k = 0
  <2> DEFINE x == [sh EXCEPT !.file = None]
             m == <<Tok("nl")>>
             says == <<m>>
  <2>1. at = n
    BY <1>1, <1>2, <1>6
  <2>2. sh.binary
    <3>1. PICK q \in Nat : at = BufferSize * q
      BY DEF Buffers
    <3>2. at % BufferSize = 0
      BY <1>2, <3>1, Multiples
    <3> QED BY <2>1, <3>2 DEF EvenSize
  <2>3. r = Result(x, says)
    <3>1. ~ (k > 0) /\ k < BufferSize
      BY <1>2, <1>6
    <3> QED BY <1>b, <1>6, <2>2, <3>1 DEF GetPiece
  <2>4. x.state = "GetFile" /\ x.file = None
    BY DEF Shells
  <2>5. /\ m \in Messages /\ ~ Kind(m, "prompt") /\ ~ Kind(m, "eot")
        /\ \A i \in 1 .. Len(m) : m[i].kind \notin Carried
    BY PlainMessages
  <2>s. says = <<m>>
    OBVIOUS
  <2> HIDE DEF m, says
  <2>6. /\ Text(said, says) = said \o m /\ Len(says) <= 1
        /\ ~ Mentions(said, says, "prompt") /\ ~ Mentions(said, says, "eot")
    BY <2>5, <2>s, OneMessage
  <2>7. Delivers(said \o m, n)
    BY <1>1, <1>3, <2>1, <2>5, OthersFollow
  <2> HIDE DEF x, says
  <2>8. Getting(x, said, pr, says)
    BY <2>4, <2>6, <2>7 DEF Getting
  <2> QED BY <2>3, <2>8 DEF Result, Answering
<1>7. fails \/ k > 0 \/ k = 0
  BY <1>2
<1> QED BY <1>4, <1>5, <1>6, <1>7

LEMMA AnswerGoesOn ==
  ASSUME Careless = {}, NEW sh \in Shells, NEW said \in Seq(Token), NEW pr \in Peers,
         Answering(sh, said, pr, <<>>, TRUE), NEW fails \in MayFail(sh)
  PROVE  LET r == SendComplete(sh, fails) IN
           /\ r.stays /\ Answering(r.shell, said, pr, r.says, r.stays)
<1> DEFINE r == SendComplete(sh, fails)
<1>1. fails \in BOOLEAN /\ (fails => sh.binary)
  BY DEF MayFail, Shells
<1>2. /\ pr.inbound = <<>> /\ pr.asked # <<>>
      /\ Text(said, <<>>) = said
      /\ Mentions(said, <<>>, "prompt") <=> Kind(said, "prompt")
      /\ Mentions(said, <<>>, "eot") <=> Kind(said, "eot")
  BY NoMessage DEF Answering
<1>3. \A m \in Messages : m \in Seq(Token)
  BY DEF Messages
<1>p. /\ Prompt \in Messages /\ ~ Kind(Prompt, "eot")
      /\ \A i \in 1 .. Len(Prompt) : Prompt[i].kind \notin Carried
  BY PlainMessages
<1>4. CASE Listing(sh, said, pr, <<>>)
  <2>1. /\ sh.state = "ListFiles"
        /\ pr.asked[1].kind = "ls" /\ sh.dir.size = pr.asked[1].n
        /\ Delivers(said, sh.dir.at) /\ Len(said) = sh.dir.at
        /\ ~ Kind(said, "prompt") /\ ~ Kind(said, "eot")
    BY <1>2, <1>4 DEF Listing
  <2>2. sh.dir.at \in Nat /\ sh.dir.size \in Nat /\ sh.dir.size \in Sizes \cup {0}
        /\ sh.dir.at <= sh.dir.size /\ sh.dir \in Files
    BY FilesHave DEF Shells
  <2>3. CASE sh.dir.at < sh.dir.size
    <3> DEFINE m == Pieces(sh.dir.at, 1)
               x == [sh EXCEPT !.dir.at = @ + 1]
               says == <<m>>
    <3>1. r = Result(x, says)
      BY <2>1, <2>3 DEF SendComplete
    <3>2. sh.dir.at + 1 <= sh.dir.size
      BY <2>2, <2>3
    <3>3. /\ m \in Messages /\ m \in Seq(Token) /\ Len(m) = 1
          /\ \A i \in 1 .. 1 : m[i] = Data(sh.dir.at + i)
          /\ ~ Kind(m, "prompt") /\ ~ Kind(m, "eot")
      <4> DEFINE at == sh.dir.at  size == sh.dir.size
      <4>1. at \in Nat /\ size \in Sizes \cup {0} /\ at + 1 <= size /\ 1 \in Nat /\ 1 > 0
        BY <2>2, <3>2
      <4> HIDE DEF at, size
      <4>2. LET p == Pieces(at, 1) IN
              /\ p \in Messages /\ p \in Seq(Token) /\ Len(p) = 1
              /\ \A i \in 1 .. 1 : p[i] = Data(at + i)
              /\ ~ Kind(p, "prompt") /\ ~ Kind(p, "eot")
        BY <4>1, PieceMessages
      <4> QED BY <4>2 DEF at
    <3>s. says = <<m>>
      OBVIOUS
    <3> HIDE DEF m, says
    <3>4. Delivers(said \o m, sh.dir.at + 1) /\ Len(said \o m) = sh.dir.at + 1
      BY <2>1, <2>2, <3>3, PiecesFollow
    <3>5. /\ Text(said, says) = said \o m /\ Len(says) <= 1
          /\ ~ Mentions(said, says, "prompt") /\ ~ Mentions(said, says, "eot")
      BY <2>1, <3>3, <3>s, OneMessage
    <3>6. /\ x.state = "ListFiles"
          /\ x.dir.size = sh.dir.size /\ x.dir.at = sh.dir.at + 1
      BY <2>1, <2>2 DEF Shells, Files
    <3> HIDE DEF x, says
    <3>7. Listing(x, said, pr, says)
      BY <2>1, <3>4, <3>5, <3>6 DEF Listing
    <3> QED BY <1>2, <3>1, <3>7 DEF Result, Answering
  <2>4. CASE ~ (sh.dir.at < sh.dir.size)
    <3> DEFINE x == [[sh EXCEPT !.dir = None] EXCEPT !.state = "ShowingPrompt"]
               says == <<Prompt>>
    <3>1. r = Result(x, says)
      BY <2>1, <2>4 DEF SendComplete, ShowPrompt
    <3>2. x.state = "ShowingPrompt"
      BY DEF Shells
    <3>3. sh.dir.at = pr.asked[1].n
      BY <2>1, <2>2, <2>4
    <3>4. Delivers(said \o Prompt, pr.asked[1].n)
      BY <1>3, <1>p, <2>1, <2>2, <3>3, OthersFollow
    <3>s. says = <<Prompt>>
      OBVIOUS
    <3> HIDE DEF x, says
    <3>5. Text(said, says) = said \o Prompt /\ Len(says) <= 1
      BY <1>p, <3>s, OneMessage
    <3>6. Ended(x, said, pr, says)
      BY <2>1, <3>2, <3>4, <3>5 DEF Ended
    <3> QED BY <1>2, <3>1, <3>6 DEF Result, Answering
  <2> QED BY <2>3, <2>4
<1>5. CASE Getting(sh, said, pr, <<>>)
  <2>1. /\ sh.state = "GetFile"
        /\ pr.asked[1].kind = "get" /\ Exists(pr.asked[1])
        /\ ~ Kind(said, "prompt") /\ ~ Kind(said, "eot")
        /\ \/ sh.file = None /\ Delivers(said, pr.asked[1].n)
           \/ /\ sh.file.mode = "r" /\ sh.file.size = pr.asked[1].n
              /\ Delivers(said, sh.file.at) /\ Len(said) = sh.file.at
              /\ Buffers(sh.file.at) /\ (sh.binary \/ ~ EvenSize(sh.file.size))
    BY <1>2, <1>5 DEF Getting
  <2>2. CASE sh.file = None
    <3>1. Delivers(said, pr.asked[1].n)
      BY <2>1, <2>2 DEF None, Opened
    <3>2. PICK n \in Nat : n = pr.asked[1].n
      BY <1>2, <2>1, AskedIs
    <3> DEFINE x == [sh EXCEPT !.state = "NeedPrompt"]
               says == <<Eot>>
    <3>3. r = Result(x, says)
      BY <2>1, <2>2 DEF SendComplete
    <3>4. x.state = "NeedPrompt"
      BY DEF Shells
    <3>5. /\ Eot \in Messages /\ Eot[Len(Eot)].kind # "prompt"
          /\ \A i \in 1 .. Len(Eot) : Eot[i].kind \notin Carried
      BY PlainMessages
    <3>6. Delivers(said \o Eot, n)
      BY <1>3, <3>1, <3>2, <3>5, OthersFollow
    <3>s. says = <<Eot>>
      OBVIOUS
    <3> HIDE DEF x, says
    <3>7. Text(said, says) = said \o Eot /\ Len(says) <= 1 /\ ~ Prompts(said, says)
      BY <3>5, <3>s, OneMessage
    <3>8. Ended(x, said, pr, says)
      BY <2>1, <3>2, <3>4, <3>6, <3>7 DEF Ended
    <3> QED BY <1>2, <3>3, <3>8 DEF Result, Answering
  <2>3. CASE sh.file # None
    <3>1. r = GetPiece(sh, fails)
      BY <2>1, <2>3 DEF SendComplete
    <3>2. r.stays /\ Answering(r.shell, said, pr, r.says, r.stays)
      BY <1>1, <1>2, <2>1, <2>3, <3>1, GetPieceFits
    <3> QED BY <3>2
  <2> QED BY <2>2, <2>3
<1>6. CASE Ended(sh, said, pr, <<>>)
  <2>1. CASE sh.state = "NeedPrompt"
    <3> DEFINE x == [sh EXCEPT !.state = "ShowingPrompt"]
               says == <<Prompt>>
    <3>1. r = Result(x, says)
      BY <2>1 DEF SendComplete, ShowPrompt
    <3>2. x.state = "ShowingPrompt" /\ x.saved = sh.saved
      BY DEF Shells
    <3>s. says = <<Prompt>>
      OBVIOUS
    <3> HIDE DEF says
    <3>3. /\ Text(said, says) = said \o Prompt /\ Len(says) <= 1
          /\ Mentions(said, says, "eot") <=> Kind(said, "eot")
          /\ Errs(said, <<>>) => Errs(said, says)
      BY <1>p, <3>s, OneMessage
    <3>4. \/ pr.asked[1].kind = "get" /\ Exists(pr.asked[1]) /\ Mentions(said, says, "eot")
          \/ pr.asked[1].kind = "ls"
          => Delivers(said \o Prompt, pr.asked[1].n)
      <4> SUFFICES ASSUME \/ pr.asked[1].kind = "get" /\ Exists(pr.asked[1]) /\ Kind(said, "eot")
                          \/ pr.asked[1].kind = "ls"
                   PROVE Delivers(said \o Prompt, pr.asked[1].n)
        BY <3>3
      <4>1. Delivers(said, pr.asked[1].n)
        BY <1>2, <1>6 DEF Ended
      <4>2. pr.asked[1].n \in Nat
        BY <1>2, AskedIs
      <4> QED BY <1>3, <1>p, <4>1, <4>2, OthersFollow
    <3> HIDE DEF x, says
    <3>5. Ended(x, said, pr, says)
      BY <1>6, <3>2, <3>3, <3>4 DEF Ended
    <3> QED BY <1>2, <3>1, <3>5 DEF Result, Answering
  <2>2. CASE sh.state = "ShowingPrompt"
    <3>1. r = Result(sh, <<>>)
      BY <2>2 DEF SendComplete
    <3> QED BY <1>2, <1>6, <3>1 DEF Result, Answering
  <2> QED BY <1>6, <2>1, <2>2 DEF Ended
<1> QED BY <1>4, <1>5, <1>6 DEF Answering

(* A shell that has said its last word but the prompt on something of which
   nothing is to be read back. *)
LEMMA PlainAnswer ==
  ASSUME NEW x, x.state = "NeedPrompt", NEW said, NEW pr, NEW stays,
         pr.inbound = <<>>, pr.asked # <<>>, pr.asked[1].kind # "ls",
         pr.asked[1].kind \in {"get", "put"} => ~ Exists(pr.asked[1]),
         NEW says, says \in {<<Error>>, <<Info>>, <<Error, Info>>}
  PROVE  Answering(x, said, pr, says, stays)
<1>1. says # <<>> /\ (says[Len(says)] = Error \/ says[Len(says)] = Info)
  <2>1. CASE says = <<Error>>
    <3>1. Len(says) = 1 /\ says[1] = Error /\ says # <<>>
      BY ONLY <2>1
    <3> QED BY ONLY <3>1
  <2>2. CASE says = <<Info>>
    <3>1. Len(says) = 1 /\ says[1] = Info /\ says # <<>>
      BY ONLY <2>2
    <3> QED BY ONLY <3>1
  <2>3. CASE says = <<Error, Info>>
    <3>1. Len(says) = 2 /\ says[2] = Info /\ says # <<>>
      BY ONLY <2>3
    <3> QED BY ONLY <3>1
  <2> QED BY <2>1, <2>2, <2>3
<1>2. ~ Prompts(said, says)
  BY <1>1, PlainErrors DEF Prompts
<1>3. Ended(x, said, pr, says)
  BY <1>2 DEF Ended
<1> QED BY <1>3 DEF Answering

LEMMA WordReceived ==
  ASSUME NEW sh \in Shells, sh.state # "PutFile", NEW w \in Words,
         w.kind = "nl" => w = Tok("nl"), NEW fails
  PROVE  Received(sh, <<w>>, fails) = Execute(sh, w, fails)
<1> DEFINE s == <<w>>
           huge == Places(s, {"huge"})
           upTo == IF huge = {} THEN Len(s) ELSE Min(huge)
           large == Places(SubSeq(s, 1, upTo), {"long", "huge"})
           errors == [i \in 1 .. Cardinality(large) |-> Error]
           told == IF large = {} THEN sh ELSE [sh EXCEPT !.state = "NeedPrompt"]
           words == {i \in DOMAIN s : s[i].kind # "nl"}
           c == IF words = {} THEN Tok("nl") ELSE s[Min(words)]
           written == Write(told, SubSeq(Decoded(s), 1, upTo))
           Telling(r) == [r EXCEPT !.says = errors \o @]
<1>1. c = w
  <2>1. DOMAIN s = {1} /\ s[1] = w
    OBVIOUS
  <2> HIDE DEF s
  <2>2. w.kind = "nl" => words = {}
    BY <2>1
  <2>3. w.kind # "nl" => words = {1}
    BY <2>1
  <2> HIDE DEF words
  <2>4. words = {1} => Min(words) = 1
    <3>1. {1} \subseteq Nat /\ {1} # {}
      OBVIOUS
    <3>2. Min({1}) \in {1}
      BY <3>1, MinIs
    <3> QED BY <3>2
  <2> QED BY <2>1, <2>2, <2>3, <2>4
<1> HIDE DEF huge, upTo, large, errors, told, words, c, written, Telling
<1>2. Received(sh, s, fails) =
         CASE sh.state # "PutFile" -> Execute(sh, c, fails)
           [] sh.state = "PutFile" /\ ~ sh.binary ->
                IF PutEnds(sh, s) THEN EndPut(sh) ELSE Result(Write(sh, s), <<>>)
           [] sh.state = "PutFile" /\ sh.binary ->
                IF huge # {}
                THEN Telling([Failed([written EXCEPT !.file = None]) EXCEPT !.stays = FALSE])
                ELSE IF PutEnds(sh, s) THEN Telling(EndPut(written))
                ELSE Result(written, errors)
  BY DEF Received, huge, upTo, large, words, c, told, written, errors, Telling
<1> HIDE DEF s
<1>3. Received(sh, s, fails) = Execute(sh, c, fails)
  BY <1>2
<1> QED BY <1>1, <1>3 DEF s

(* A shell at the prompt, of what it may be asked for in one word. *)
LEMMA ExecuteFits ==
  ASSUME Careless = {}, NEW sh \in Shells, NEW said \in Seq(Token), NEW pr \in Peers,
         sh.state = "ShowingPrompt", pr.inbound = <<>>,
         NEW w \in Words, pr.asked = <<w>>, w.kind = "nl" \/ said = <<>>,
         NEW fails \in MayFail(sh),
         \/ w.kind \in {"nl", "text", "binary", "info", "erase", "run", "quit", "unknown", "ls"}
         \/ w.kind = "get" /\ (Exists(w) => sh.binary \/ ~ EvenSize(w.n))
  PROVE  LET r == Execute(sh, w, fails) IN
           Answering(r.shell, said, pr, r.says, r.stays)
<1> DEFINE r == Execute(sh, w, fails)
           c == pr.asked[1]
<1>1. c = w /\ pr.asked # <<>>
  OBVIOUS
<1> HIDE DEF c
<1>3. CASE w.kind = "nl"
  <2>1. r = Result(sh, <<>>)
    BY <1>3 DEF Execute
  <2>2. Ended(sh, said, pr, <<>>)
    BY <1>1, <1>3 DEF Ended, c
  <2> QED BY <1>1, <2>1, <2>2 DEF Result, Answering
<1>4. CASE w.kind \in {"text", "binary", "info", "erase", "run", "unknown"}
  <2> DEFINE x == r.shell  says == r.says
  <2>1. /\ x.state = "NeedPrompt"
        /\ says \in {<<Error>>, <<Info>>, <<Error, Info>>} /\ r.stays = TRUE
    BY <1>4 DEF Execute, Done, Failed, Result, Shells
  <2> HIDE DEF x, says
  <2>3. c.kind # "ls" /\ c.kind \notin {"get", "put"}
    BY <1>1, <1>4
  <2>4. Answering(x, said, pr, says, r.stays)
    BY <1>1, <2>1, <2>3, PlainAnswer DEF c
  <2> QED BY <2>4 DEF x, says
<1>5. CASE w.kind = "quit"
  <2>1. r.shell = sh /\ r.says = <<>> /\ r.stays = FALSE
    BY <1>5 DEF Execute, Result
  <2>2. Ended(sh, said, pr, <<>>)
    BY <1>1, <1>5 DEF Ended, c
  <2> QED BY <1>1, <2>1, <2>2 DEF Answering
<1>6. CASE w.kind = "get" /\ ~ Exists(w)
  <2> DEFINE y == [Open(sh, Bad) EXCEPT !.state = "GetFile"]
             x == r.shell  says == r.says
  <2>1. r = SendComplete(y, fails)
    BY <1>6 DEF Execute, OpenedFile
  <2>2. y \in Shells /\ y.state = "GetFile" /\ y.file = Bad
    BY FilesAre, UndeletedIs DEF Open, Shells, ShellStates, Losses
  <2> HIDE DEF y
  <2>3. r = Failed(IF y.binary THEN [y EXCEPT !.file = None] ELSE y)
    <3>1. Bad # None
      BY DEF Bad, None, Opened
    <3> QED BY <2>1, <2>2, <3>1 DEF SendComplete, GetPiece
  <2>4. x.state = "NeedPrompt" /\ says = <<Error>> /\ r.stays = TRUE
    BY <2>2, <2>3 DEF Failed, Result, Shells
  <2> HIDE DEF x, says
  <2>5. c.kind # "ls" /\ ~ Exists(c)
    BY <1>1, <1>6
  <2>6. Answering(x, said, pr, says, r.stays)
    BY <1>1, <2>4, <2>5, PlainAnswer DEF c
  <2> QED BY <2>6 DEF x, says
<1>7. CASE w.kind = "ls"
  <2> DEFINE x == [sh EXCEPT !.dir = Opened("dir", w.n), !.state = "ListFiles",
                             !.lost = @ \cup Undeleted(sh.dir, "dir")]
  <2>1. r = SendComplete(x, fails)
    BY <1>7 DEF Execute
  <2>2. x.state = "ListFiles" /\ x.dir = Opened("dir", w.n) /\ x.binary = sh.binary
    BY DEF Shells
  <2>3. x \in Shells
    <3>1. Opened("dir", w.n) \in Files
      BY <1>7, FilesAre DEF Words
    <3> QED BY <3>1, UndeletedIs DEF Shells, ShellStates, Losses
  <2> HIDE DEF x
  <2>4. said = <<>>
    BY <1>7
  <2>5. Listing(x, said, pr, <<>>)
    <3>1. x.dir.size = w.n /\ x.dir.at = 0
      BY <2>2 DEF Opened
    <3>2. Len(said) = 0 /\ Delivers(said, 0) /\ ~ Kind(said, "prompt") /\ ~ Kind(said, "eot")
      BY <2>4 DEF Delivers, Kind
    <3> QED BY <1>1, <1>7, <2>2, <3>1, <3>2, NoMessage DEF Listing, c
  <2>6. fails \in MayFail(x)
    BY <2>2 DEF MayFail
  <2>7. Answering(x, said, pr, <<>>, TRUE)
    BY <1>1, <2>5 DEF Answering
  <2> QED BY <2>1, <2>3, <2>6, <2>7, AnswerGoesOn
<1>8. CASE w.kind = "get" /\ Exists(w) /\ (sh.binary \/ ~ EvenSize(w.n))
  <2> DEFINE x == [Open(sh, Opened("r", w.n)) EXCEPT !.state = "GetFile"]
  <2>1. r = SendComplete(x, fails)
    BY <1>8 DEF Execute, OpenedFile
  <2>2. x.state = "GetFile" /\ x.file = Opened("r", w.n) /\ x.binary = sh.binary
    BY DEF Shells, Open
  <2>3. x \in Shells
    <3>1. Opened("r", w.n) \in Files
      <4>1. w.n \in Sizes \cup {0}
        BY <1>1, <1>8, AskedIs DEF c
      <4> QED BY <4>1, FilesAre
    <3> QED BY <3>1, UndeletedIs DEF Shells, ShellStates, Open, Losses
  <2> HIDE DEF x
  <2>4. said = <<>>
    BY <1>8
  <2>5. Getting(x, said, pr, <<>>)
    <3>1. x.file.mode = "r" /\ x.file.size = w.n /\ x.file.at = 0
      BY <2>2 DEF Opened
    <3>2. Len(said) = 0 /\ Delivers(said, 0) /\ ~ Kind(said, "prompt") /\ ~ Kind(said, "eot")
      BY <2>4 DEF Delivers, Kind
    <3>3. Buffers(0)
      BY ShellConstantsOK, Multiples DEF Buffers
    <3> QED BY <1>1, <1>8, <2>2, <3>1, <3>2, <3>3, NoMessage DEF Getting, c
  <2>6. fails \in MayFail(x)
    BY <2>2 DEF MayFail
  <2>7. Answering(x, said, pr, <<>>, TRUE)
    BY <1>1, <2>5 DEF Answering
  <2> QED BY <2>1, <2>3, <2>6, <2>7, AnswerGoesOn
<1> QED BY <1>3, <1>4, <1>5, <1>6, <1>7, <1>8

-----------------------------------------------------------------------------
(* A put: the command, the two halves of every four characters, the end of the
   line after them, and \04. *)
Odd(t) == t.kind = "data" /\ t.n % 2 = 1
Even(t) == t.kind = "data" /\ t.n % 2 = 0

(* Where the token at i of s belongs to a line whose first is at 1 or after "nl". *)
Lined(s, i) ==
  \/ Odd(s[i]) /\ (i = 1 \/ s[i - 1].kind = "nl") /\ i < Len(s) /\ Even(s[i + 1])
  \/ Even(s[i]) /\ i >= 2 /\ Odd(s[i - 1]) /\ (i = 2 \/ s[i - 2].kind = "nl")
  \/ s[i].kind \notin DataKinds

LEMMA PutWords == \A m \in {-1, 0} : Cmd("put", m) \in Words /\ Cmd("put", m).kind = "put"
<1> TAKE m \in {-1, 0}
<1>1. m \in Sizes \cup {-1, 0}
  OBVIOUS
<1>2. Cmd("put", m) \in Token
  BY <1>1, TokensOK
<1> QED BY <1>1, <1>2 DEF Words, Cmd

LEMMA PutIs ==
  ASSUME NEW w \in Words, NEW b \in Seq(Words)
  PROVE  LET A == <<w>> \o b \o Eot IN
           /\ Len(b) \in Nat /\ Len(A) = Len(b) + 2
           /\ A[1] = w /\ A[Len(b) + 2] = Tok("eot")
           /\ \A i \in 1 .. Len(b) : A[i + 1] = b[i]
<1> SUFFICES ASSUME NEW A, A = <<w>> \o b \o Eot
             PROVE  /\ Len(b) \in Nat /\ Len(A) = Len(b) + 2
                    /\ A[1] = w /\ A[Len(b) + 2] = Tok("eot")
                    /\ \A i \in 1 .. Len(b) : A[i + 1] = b[i]
  OBVIOUS
<1> DEFINE c == <<w>>  h == c \o b  n == Len(b)
<1>1. c \in Seq(Words) /\ Eot \in Seq(Words)
  <2>1. Tok("eot") \in Token
    BY TokensOK
  <2>2. Tok("eot") \in Words
    BY <2>1 DEF Words, Tok
  <2> QED BY <2>2 DEF Eot
<1>2. Len(c) = 1 /\ c[1] = w /\ Len(Eot) = 1 /\ Eot[1] = Tok("eot")
  BY DEF Eot
<1>3. n \in Nat
  BY LenProperties
<1> HIDE DEF c, n
<1>4. h \in Seq(Words) /\ Len(h) = n + 1 /\ h[1] = w
      /\ \A i \in 1 .. n : h[i + 1] = b[i]
  <2>1. /\ h \in Seq(Words) /\ Len(h) = 1 + n
        /\ \A i \in 1 .. 1 + n : h[i] = IF i <= 1 THEN c[i] ELSE b[i - 1]
    <3>1. /\ h \in Seq(Words) /\ Len(h) = Len(c) + Len(b)
          /\ \A i \in 1 .. Len(c) + Len(b) : h[i] = IF i <= Len(c) THEN c[i] ELSE b[i - Len(c)]
      BY <1>1, ConcatProperties
    <3> HIDE DEF h
    <3> QED BY <1>2, <3>1 DEF n
  <2> HIDE DEF h
  <2>2. h[1] = c[1]
    BY <1>3, <2>1
  <2>3. \A i \in 1 .. n : h[i + 1] = b[i]
    <3> TAKE i \in 1 .. n
    <3> DEFINE j == i + 1
    <3>1. j \in 1 .. 1 + n /\ ~ (j <= 1) /\ j - 1 = i
      BY <1>3
    <3> HIDE DEF j
    <3>2. h[j] = b[i]
      BY <2>1, <3>1
    <3> QED BY <3>2 DEF j
  <2> QED BY <1>2, <1>3, <2>1, <2>2, <2>3
<1> HIDE DEF h
<1>5. A = h \o Eot
  BY DEF h, c
<1>6. /\ Len(A) = n + 2
      /\ \A i \in 1 .. n + 2 : A[i] = IF i <= n + 1 THEN h[i] ELSE Eot[i - (n + 1)]
  <2>1. /\ Len(A) = Len(h) + Len(Eot)
        /\ \A i \in 1 .. Len(h) + Len(Eot) : A[i] = IF i <= Len(h) THEN h[i] ELSE Eot[i - Len(h)]
    <3>1. LET c2 == h \o Eot IN
            /\ Len(c2) = Len(h) + Len(Eot)
            /\ \A i \in 1 .. Len(h) + Len(Eot) :
                 c2[i] = IF i <= Len(h) THEN h[i] ELSE Eot[i - Len(h)]
      BY <1>1, <1>4, ConcatProperties
    <3> QED BY <1>5, <3>1
  <2>2. Len(h) = n + 1 /\ Len(h) + Len(Eot) = n + 2
    BY <1>2, <1>3, <1>4
  <2> QED BY <2>1, <2>2
<1>7. A[1] = w
  <2>1. 1 \in 1 .. n + 2 /\ 1 <= n + 1
    BY <1>3
  <2> QED BY <1>4, <1>6, <2>1
<1>8. A[n + 2] = Tok("eot")
  <2> DEFINE i == n + 2
  <2>2. i \in 1 .. n + 2 /\ ~ (i <= n + 1) /\ i - (n + 1) = 1
    BY <1>3
  <2> HIDE DEF i
  <2>3. A[i] = Eot[i - (n + 1)]
    BY <1>6, <2>2
  <2>4. A[i] = Eot[1]
    BY <2>2, <2>3
  <2> QED BY <1>2, <2>4 DEF i
<1>9. ASSUME NEW i \in 1 .. n PROVE A[i + 1] = b[i]
  <2>1. i + 1 \in 1 .. n + 2 /\ i + 1 <= n + 1
    BY <1>3
  <2> QED BY <1>4, <1>6, <2>1
<1> QED BY <1>3, <1>6, <1>7, <1>8, <1>9 DEF n

LEMMA BodyLine ==
  ASSUME NEW w \in Words, NEW k \in 1 .. Lines
  PROVE  LET A == <<w>> \o Body(k) \o Eot IN
           /\ k \in Nat /\ k >= 1 /\ Len(A) = 3 * k + 2
           /\ A[1] = w /\ A[3 * k + 1] = Tok("nl") /\ A[3 * k + 2] = Tok("eot")
           /\ \A i \in 2 .. 3 * k + 1 :
                \/ Odd(A[i]) /\ (i = 2 \/ A[i - 1].kind = "nl") /\ i + 1 <= 3 * k /\ Even(A[i + 1])
                \/ Even(A[i]) /\ i >= 3 /\ Odd(A[i - 1]) /\ (i = 3 \/ A[i - 2].kind = "nl")
                \/ A[i] = Tok("nl")
<1> SUFFICES ASSUME NEW A, A = <<w>> \o Body(k) \o Eot
             PROVE  /\ k \in Nat /\ k >= 1 /\ Len(A) = 3 * k + 2
                    /\ A[1] = w /\ A[3 * k + 1] = Tok("nl") /\ A[3 * k + 2] = Tok("eot")
                    /\ \A i \in 2 .. 3 * k + 1 :
                         \/ Odd(A[i]) /\ (i = 2 \/ A[i - 1].kind = "nl") /\ i + 1 <= 3 * k /\ Even(A[i + 1])
                         \/ Even(A[i]) /\ i >= 3 /\ Odd(A[i - 1]) /\ (i = 3 \/ A[i - 2].kind = "nl")
                         \/ A[i] = Tok("nl")
  OBVIOUS
<1> DEFINE b == Body(k)
<1>1. k \in Nat /\ k >= 1 /\ Lines \in Nat
  BY ServerConstantsOK
<1>2. /\ b \in Seq(Words) /\ Len(b) = 3 * k
      /\ \A i \in 1 .. 3 * k :
           \E q \in 0 .. k - 1 :
             \/ i = 3 * q + 1 /\ b[i] = Data(2 * q + 1)
             \/ i = 3 * q + 2 /\ b[i] = Data(2 * q + 2)
             \/ i = 3 * q + 3 /\ b[i] = Tok("nl")
  BY BodyIs
<1>3. A = <<w>> \o b \o Eot
  OBVIOUS
<1> HIDE DEF b
<1>4. /\ Len(A) = 3 * k + 2 /\ A[1] = w /\ A[3 * k + 2] = Tok("eot")
      /\ \A i \in 1 .. 3 * k : A[i + 1] = b[i]
  <2> DEFINE n == Len(b)
  <2>0. b \in Seq(Words)
    BY <1>2
  <2>1. /\ Len(A) = n + 2 /\ A[1] = w /\ A[n + 2] = Tok("eot")
        /\ \A i \in 1 .. n : A[i + 1] = b[i]
    BY ONLY <1>3, <2>0, w \in Words, PutIs
  <2>2. n = 3 * k
    BY <1>2
  <2> HIDE DEF n
  <2> QED BY <2>1, <2>2
<1>5. ASSUME NEW q \in 0 .. k - 1
      PROVE  /\ A[3 * q + 2] = Data(2 * q + 1) /\ A[3 * q + 3] = Data(2 * q + 2)
             /\ A[3 * q + 4] = Tok("nl")
  <2>0. q \in Nat /\ q <= k - 1
    BY <1>1
  <2>1. /\ 3 * q + 1 \in 1 .. 3 * k /\ 3 * q + 2 \in 1 .. 3 * k /\ 3 * q + 3 \in 1 .. 3 * k
        /\ 3 * q + 1 + 1 = 3 * q + 2 /\ 3 * q + 2 + 1 = 3 * q + 3 /\ 3 * q + 3 + 1 = 3 * q + 4
    BY <1>1, <2>0
  <2>2. \A h \in 0 .. k - 1 :
          /\ 3 * q + 1 # 3 * h + 2 /\ 3 * q + 1 # 3 * h + 3 /\ 3 * q + 2 # 3 * h + 3
          /\ 3 * q + 2 # 3 * h + 1 /\ 3 * q + 3 # 3 * h + 1 /\ 3 * q + 3 # 3 * h + 2
          /\ (3 * q + 1 = 3 * h + 1 => h = q) /\ (3 * q + 2 = 3 * h + 2 => h = q)
          /\ (3 * q + 3 = 3 * h + 3 => h = q)
    BY <2>0, <1>1
  <2>3. b[3 * q + 1] = Data(2 * q + 1)
    BY <1>2, <2>1, <2>2
  <2>4. b[3 * q + 2] = Data(2 * q + 2)
    BY <1>2, <2>1, <2>2
  <2>5. b[3 * q + 3] = Tok("nl")
    BY <1>2, <2>1, <2>2
  <2> QED BY <1>4, <2>1, <2>3, <2>4, <2>5
<1>6. ASSUME NEW q \in Nat
      PROVE  Odd(Data(2 * q + 1)) /\ Even(Data(2 * q + 2)) /\ Tok("nl").kind = "nl"
  <2>1. (2 * q + 1) % 2 = 1 /\ (2 * q + 2) % 2 = 0
    OBVIOUS
  <2> QED BY <2>1 DEF Odd, Even, Data, Tok
<1>7. A[3 * k + 1] = Tok("nl")
  <2>1. k - 1 \in 0 .. k - 1 /\ 3 * (k - 1) + 4 = 3 * k + 1
    BY <1>1
  <2> QED BY <1>5, <2>1
<1>8. ASSUME NEW i \in 2 .. 3 * k + 1
      PROVE  \/ Odd(A[i]) /\ (i = 2 \/ A[i - 1].kind = "nl") /\ i + 1 <= 3 * k /\ Even(A[i + 1])
             \/ Even(A[i]) /\ i >= 3 /\ Odd(A[i - 1]) /\ (i = 3 \/ A[i - 2].kind = "nl")
             \/ A[i] = Tok("nl")
  <2>1. i \in Nat /\ i - 1 \in 1 .. 3 * k
    BY <1>1
  <2>2. PICK q \in 0 .. k - 1 : i - 1 = 3 * q + 1 \/ i - 1 = 3 * q + 2 \/ i - 1 = 3 * q + 3
    BY <1>2, <2>1
  <2>3. q \in Nat /\ q <= k - 1
    BY <1>1
  <2>4. q # 0 => A[3 * q + 1].kind = "nl"
    <3>1. q # 0 => q - 1 \in 0 .. k - 1 /\ 3 * (q - 1) + 4 = 3 * q + 1
      BY <1>1, <2>3
    <3> QED BY <1>5, <1>6, <2>3, <3>1
  <2>5. CASE i - 1 = 3 * q + 1
    <3>1. i = 3 * q + 2 /\ i + 1 = 3 * q + 3 /\ i - 1 = 3 * q + 1 /\ i + 1 <= 3 * k
          /\ (q = 0 => i = 2)
      BY <1>1, <2>1, <2>3, <2>5
    <3> QED BY <1>5, <1>6, <2>3, <2>4, <3>1
  <2>6. CASE i - 1 = 3 * q + 2
    <3>1. i = 3 * q + 3 /\ i - 1 = 3 * q + 2 /\ i - 2 = 3 * q + 1 /\ i >= 3 /\ (q = 0 => i = 3)
      BY <1>1, <2>1, <2>3, <2>6
    <3> QED BY <1>5, <1>6, <2>3, <2>4, <3>1
  <2>7. CASE i - 1 = 3 * q + 3
    <3>1. i = 3 * q + 4
      BY <1>1, <2>1, <2>3, <2>7
    <3> QED BY <1>5, <3>1
  <2> QED BY <2>2, <2>5, <2>6, <2>7
<1> QED BY <1>1, <1>4, <1>7, <1>8

(* The k tokens s after the first j of A, of the rest q of these. *)
Part(A, j, k, q, s) ==
  /\ s \in Seq(Words) /\ s \in Seq(Token) /\ Len(s) = k /\ s # <<>>
  /\ \A i \in 1 .. k : s[i] = A[j + i]
  /\ q \in Seq(Words) /\ Len(q) = Len(A) - j /\ \A i \in 1 .. Len(A) - j : q[i] = A[j + i]
  /\ SubSeq(q, k + 1, Len(q)) = SubSeq(A, j + k + 1, Len(A))
  /\ SubSeq(A, 1, j) \o s = SubSeq(A, 1, j + k)
  /\ SubSeq(A, 1, j) \in Seq(Token) /\ SubSeq(A, 1, j + k) \in Seq(Token)

LEMMA PartOf ==
  ASSUME NEW A \in Seq(Words), NEW j \in Nat, NEW k \in Nat, j >= 1, k >= 1, j + k <= Len(A),
         NEW q, q = SubSeq(A, j + 1, Len(A)), NEW s, s = SubSeq(q, 1, k)
  PROVE  Part(A, j, k, q, s)
<1> DEFINE L == Len(A)
<1>1. L \in Nat /\ j + k <= L
  BY LenProperties
<1> HIDE DEF L
<1>2. /\ q \in Seq(Words) /\ Len(q) = L - j
      /\ \A i \in 1 .. L - j : q[i] = A[j + i]
  <2>1. j + 1 \in 1 .. L + 1 /\ L \in 0 .. L /\ j + 1 <= L /\ L - (j + 1) + 1 = L - j
        /\ \A i \in 1 .. L - j : j + 1 + i - 1 = j + i
    BY <1>1
  <2>2. /\ q \in Seq(Words)
        /\ Len(q) = IF j + 1 <= L THEN L - (j + 1) + 1 ELSE 0
        /\ \A i \in 1 .. L - (j + 1) + 1 : q[i] = A[j + 1 + i - 1]
    BY <2>1, PartIs DEF L
  <2> QED BY <2>1, <2>2
<1>3. /\ s \in Seq(Words) /\ Len(s) = k
      /\ \A i \in 1 .. k : s[i] = q[i]
  <2>1. 1 \in 1 .. Len(q) + 1 /\ k \in 0 .. Len(q) /\ 1 <= k /\ k - 1 + 1 = k
        /\ \A i \in 1 .. k : 1 + i - 1 = i
    BY <1>1, <1>2
  <2>2. /\ s \in Seq(Words)
        /\ Len(s) = IF 1 <= k THEN k - 1 + 1 ELSE 0
        /\ \A i \in 1 .. k - 1 + 1 : s[i] = q[1 + i - 1]
    BY <1>2, <2>1, PartIs
  <2> QED BY <2>1, <2>2
<1>4. \A i \in 1 .. k : s[i] = A[j + i]
  <2> TAKE i \in 1 .. k
  <2>1. i \in 1 .. L - j
    BY <1>1
  <2> QED BY <1>2, <1>3, <2>1
<1>5. s # <<>>
  <2>1. Len(s) # 0
    BY <1>3
  <2> QED BY <1>3, <2>1, EmptySeq
<1>6. s = SubSeq(A, j + 1, j + k)
  <2>1. /\ j + 1 \in 1 .. L /\ L \in 1 .. L /\ 1 \in 1 .. L - (j + 1) + 1
        /\ k \in 1 .. L - (j + 1) + 1 /\ j + 1 + 1 - 1 = j + 1 /\ j + 1 + k - 1 = j + k
    BY <1>1
  <2>2. SubSeq(SubSeq(A, j + 1, L), 1, k) = SubSeq(A, j + 1 + 1 - 1, j + 1 + k - 1)
    BY <2>1, SubSeqOfSubSeq DEF L
  <2> QED BY <2>1, <2>2 DEF L
<1>7. SubSeq(A, 1, j) \o SubSeq(A, j + 1, j + k) = SubSeq(A, 1, j + k)
  <2>1. 1 \in 1 .. L + 1 /\ j \in 1 - 1 .. L /\ j + k \in j .. L
    BY <1>1
  <2> QED BY <2>1, ConcatAdjacentSubSeq DEF L
<1>8. SubSeq(q, k + 1, Len(q)) = SubSeq(A, j + k + 1, L)
  <2>1. CASE j + k = L
    <3>1. Len(q) < k + 1 /\ L < j + k + 1 /\ Len(q) \in Int /\ L \in Int /\ k + 1 \in Int
          /\ j + k + 1 \in Int
      BY <1>1, <1>2, <2>1
    <3>2. SubSeq(q, k + 1, Len(q)) = <<>> /\ SubSeq(A, j + k + 1, L) = <<>>
      BY <3>1, SubSeqEmpty
    <3> QED BY <3>2
  <2>2. CASE j + k < L
    <3>1. /\ j + 1 \in 1 .. L /\ L \in 1 .. L /\ k + 1 \in 1 .. L - (j + 1) + 1
          /\ L - j \in 1 .. L - (j + 1) + 1
          /\ j + 1 + (k + 1) - 1 = j + k + 1 /\ j + 1 + (L - j) - 1 = L
      BY <1>1, <2>2
    <3>2. SubSeq(SubSeq(A, j + 1, L), k + 1, L - j)
          = SubSeq(A, j + 1 + (k + 1) - 1, j + 1 + (L - j) - 1)
      BY <3>1, SubSeqOfSubSeq DEF L
    <3>3. SubSeq(SubSeq(A, j + 1, L), k + 1, L - j) = SubSeq(A, j + k + 1, L)
      BY <3>1, <3>2
    <3>4. q = SubSeq(A, j + 1, L) /\ Len(q) = L - j
      BY <1>2 DEF L
    <3> QED BY <3>3, <3>4
  <2> QED BY <1>1, <2>1, <2>2
<1>9. SubSeq(A, 1, j) \in Seq(Token) /\ SubSeq(A, 1, j + k) \in Seq(Token)
  <2>1. 1 \in 1 .. L + 1 /\ j \in 0 .. L /\ j + k \in 0 .. L
    BY <1>1
  <2>2. SubSeq(A, 1, j) \in Seq(Words) /\ SubSeq(A, 1, j + k) \in Seq(Words)
    BY <2>1, PartIs DEF L
  <2> QED BY <2>2, WordsAre
<1> QED BY <1>1, <1>2, <1>3, <1>4, <1>5, <1>6, <1>7, <1>8, <1>9, WordsAre DEF L, Part

(* Groups of four characters that lie together are decoded as what they are. *)
LEMMA DecodedWhole ==
  ASSUME NEW s \in Seq(Token), \A i \in 1 .. Len(s) : Lined(s, i)
  PROVE  Decoded(s) = s
<1> DEFINE n == Len(s)
           last(i, j) == /\ j = 0 \/ s[j].kind = "nl"
                         /\ \A k \in j + 1 .. i : s[k].kind # "nl"
           offset(i) == i - (CHOOSE j \in 0 .. i : last(i, j))
           aligned(i) == IF s[i].n % 2 = 1
                         THEN offset(i) % 2 = 1 /\ i < Len(s) /\ s[i + 1].kind = "data"
                         ELSE offset(i) % 2 = 0
<1>1. n \in Nat /\ DOMAIN s = 1 .. n
  BY LenProperties
<1>2. \A i : Decoded(s)[i] = Decoded(s)[i]
  OBVIOUS
<1>3. Decoded(s) = [i \in 1 .. n |-> IF s[i].kind = "data" /\ ~ aligned(i)
                                      THEN Tok("garbled") ELSE s[i]]
  BY <1>1 DEF Decoded
<1> HIDE DEF last
<1>4. ASSUME NEW i \in 1 .. n, NEW j \in 0 .. i, last(i, j),
             \A h \in 0 .. i : last(i, h) => h = j
      PROVE  offset(i) = i - j
  BY <1>4
<1> HIDE DEF offset
<1>5. ASSUME NEW i \in 1 .. n, NEW j \in 0 .. i,
             j = 0 \/ s[j].kind = "nl", \A k \in j + 1 .. i : s[k].kind # "nl"
      PROVE  offset(i) = i - j
  <2>1. last(i, j)
    BY <1>5 DEF last
  <2>2. ASSUME NEW h \in 0 .. i, last(i, h) PROVE h = j
    <3>1. ~ (h < j)
      <4> SUFFICES ASSUME h < j PROVE FALSE
        OBVIOUS
      <4>1. j \in h + 1 .. i /\ j # 0
        BY <1>1
      <4> QED BY <1>5, <2>2, <4>1 DEF last
    <3>2. ~ (j < h)
      <4> SUFFICES ASSUME j < h PROVE FALSE
        OBVIOUS
      <4>1. h \in j + 1 .. i /\ h # 0
        BY <1>1
      <4> QED BY <1>5, <2>2, <4>1 DEF last
    <3> QED BY <1>1, <3>1, <3>2
  <2> QED BY <1>4, <2>1, <2>2
<1>6. ASSUME NEW i \in 1 .. n, s[i].kind = "data" PROVE aligned(i)
  <2>0. i \in Nat /\ i >= 1 /\ i <= n
    BY <1>1
  <2>1. Lined(s, i) /\ s[i].kind \in DataKinds
    BY <1>6 DEF DataKinds
  <2>2. CASE Odd(s[i]) /\ (i = 1 \/ s[i - 1].kind = "nl") /\ i < Len(s) /\ Even(s[i + 1])
    <3> DEFINE j == i - 1
    <3>1. j \in 0 .. i /\ (j = 0 \/ s[j].kind = "nl") /\ i - j = 1 /\ \A k \in j + 1 .. i : k = i
      <4>1. i = 1 => j = 0
        OBVIOUS
      <4>2. j = 0 \/ s[j].kind = "nl"
        BY <2>2, <4>1
      <4>3. j \in 0 .. i /\ i - j = 1 /\ \A k \in j + 1 .. i : k = i
        BY <2>0
      <4> QED BY <4>2, <4>3
    <3> HIDE DEF j
    <3>2. \A k \in j + 1 .. i : s[k].kind # "nl"
      BY <1>6, <3>1
    <3>3. offset(i) = 1
      BY <1>5, <3>1, <3>2
    <3>4. s[i].n % 2 = 1 /\ s[i + 1].kind = "data"
      BY <2>2 DEF Odd, Even
    <3> QED BY <2>2, <3>3, <3>4
  <2>3. CASE Even(s[i]) /\ i >= 2 /\ Odd(s[i - 1]) /\ (i = 2 \/ s[i - 2].kind = "nl")
    <3> DEFINE j == i - 2
    <3>1. j \in 0 .. i /\ (j = 0 \/ s[j].kind = "nl") /\ i - j = 2
          /\ \A k \in j + 1 .. i : k = i \/ k = i - 1
      BY <2>0, <2>3
    <3> HIDE DEF j
    <3>2. \A k \in j + 1 .. i : s[k].kind # "nl"
      BY <1>6, <2>3, <3>1 DEF Odd
    <3>3. offset(i) = 2
      BY <1>5, <3>1, <3>2
    <3>4. s[i].n % 2 = 0
      BY <2>3 DEF Even
    <3> QED BY <3>3, <3>4
  <2> QED BY <2>1, <2>2, <2>3 DEF Lined
<1> HIDE DEF aligned
<1>7. \A i \in 1 .. n : Decoded(s)[i] = s[i]
  BY <1>3, <1>6
<1>8. Decoded(s) \in Seq(Token) /\ Len(Decoded(s)) = Len(s)
  BY DecodedIs
<1> QED BY <1>7, <1>8, SeqEqual

(* The answer to a line that is too long: as many errors, and then the prompt, or
   one more and the end. *)
TellsErrors(sh, s, r, errors) ==
  /\ errors # <<>> /\ errors[1] = Error
  /\ s[1].kind = "huge" \/ (PutEnds(sh, s) /\ \A i \in 1 .. Len(s) : s[i].kind # "huge")
     => \/ r.shell.state = "NeedPrompt" /\ r.says = errors \o <<Error>>
        \/ r.shell.state = "ShowingPrompt" /\ r.says = errors \o <<Prompt>>

(* What a shell makes of a part of a put: of text; of binary data in lines that
   are not too long; and of a line that is. *)
LEMMA PutReceived ==
  ASSUME NEW sh \in Shells, sh.state = "PutFile", NEW s \in Seq(Words), s # <<>>, NEW fails
  PROVE  /\ ~ sh.binary
            => Received(sh, s, fails)
               = IF PutEnds(sh, s) THEN EndPut(sh) ELSE Result(Write(sh, s), <<>>)
         /\ sh.binary /\ (\A i \in 1 .. Len(s) : s[i].kind \notin {"long", "huge"})
            => Received(sh, s, fails)
               = IF PutEnds(sh, s) THEN EndPut(Write(sh, Decoded(s)))
                 ELSE Result(Write(sh, Decoded(s)), <<>>)
         /\ sh.binary /\ s[1].kind \in {"long", "huge"}
            => \E errors \in Seq(Messages) :
                 TellsErrors(sh, s, Received(sh, s, fails), errors)
<1> DEFINE huge == Places(s, {"huge"})
           upTo == IF huge = {} THEN Len(s) ELSE Min(huge)
           large == Places(SubSeq(s, 1, upTo), {"long", "huge"})
           errors == [i \in 1 .. Cardinality(large) |-> Error]
           told == IF large = {} THEN sh ELSE [sh EXCEPT !.state = "NeedPrompt"]
           words == {i \in DOMAIN s : s[i].kind # "nl"}
           c == IF words = {} THEN Tok("nl") ELSE s[Min(words)]
           written == Write(told, SubSeq(Decoded(s), 1, upTo))
           Telling(r) == [r EXCEPT !.says = errors \o @]
<1>1. /\ upTo \in 1 .. Len(s) /\ errors \in Seq(Messages)
      /\ Cardinality(large) \in Nat
      /\ large = {} => errors = <<>>
      /\ large # {} => Cardinality(large) > 0
  BY ReceivedParts
<1>2. s \in Seq(Token) /\ Decoded(s) \in Seq(Token) /\ Len(Decoded(s)) = Len(s)
      /\ Len(s) \in Nat /\ Len(s) > 0
      /\ DOMAIN s = 1 .. Len(s)
  BY WordsAre, DecodedIs, LenProperties, EmptySeq
<1>3. large # {} => errors # <<>> /\ errors[1] = Error
  <2> HIDE DEF large
  <2>1. large # {} => 1 \in 1 .. Cardinality(large)
    BY <1>1
  <2>2. large # {} => 1 \in DOMAIN errors /\ errors[1] = Error
    BY <2>1
  <2> HIDE DEF errors
  <2> QED BY <2>2
<1>4. told \in Shells /\ (large = {} => told = sh)
  <2> HIDE DEF large
  <2> QED BY DEF Shells, ShellStates
<1> HIDE DEF upTo, large, words, c, told, errors
<1>5. SubSeq(Decoded(s), 1, upTo) \in Seq(Token)
  BY <1>1, <1>2, PartIs
<1>6. written \in Shells
  BY <1>4, <1>5, WriteTypes
<1> HIDE DEF written, huge
<1>7. Received(sh, s, fails) =
         CASE sh.state # "PutFile" -> Execute(sh, c, fails)
           [] sh.state = "PutFile" /\ ~ sh.binary ->
                IF PutEnds(sh, s) THEN EndPut(sh) ELSE Result(Write(sh, s), <<>>)
           [] sh.state = "PutFile" /\ sh.binary ->
                IF huge # {}
                THEN Telling([Failed([written EXCEPT !.file = None]) EXCEPT !.stays = FALSE])
                ELSE IF PutEnds(sh, s) THEN Telling(EndPut(written))
                ELSE Result(written, errors)
  BY DEF Received, huge, upTo, large, words, c, told, written, errors, Telling
<1> HIDE DEF Telling
<1>8. ~ sh.binary
       => Received(sh, s, fails)
          = IF PutEnds(sh, s) THEN EndPut(sh) ELSE Result(Write(sh, s), <<>>)
  BY <1>7
<1>9. sh.binary
       => Received(sh, s, fails)
          = IF huge # {}
            THEN Telling([Failed([written EXCEPT !.file = None]) EXCEPT !.stays = FALSE])
            ELSE IF PutEnds(sh, s) THEN Telling(EndPut(written))
            ELSE Result(written, errors)
  BY <1>7
<1>10. ASSUME sh.binary, \A i \in 1 .. Len(s) : s[i].kind \notin {"long", "huge"}
       PROVE  Received(sh, s, fails)
               = IF PutEnds(sh, s) THEN EndPut(Write(sh, Decoded(s)))
                 ELSE Result(Write(sh, Decoded(s)), <<>>)
  <2>1. huge = {}
    BY <1>2, <1>10 DEF huge, Places
  <2>2. upTo = Len(s)
    BY <2>1 DEF upTo
  <2>3. SubSeq(s, 1, Len(s)) = s /\ SubSeq(Decoded(s), 1, Len(s)) = Decoded(s)
    BY <1>2, SubSeqFull
  <2>4. large = {}
    <3>1. large = Places(s, {"long", "huge"})
      BY <2>2, <2>3 DEF large
    <3> QED BY <1>2, <1>10, <3>1 DEF Places
  <2>5. written = Write(sh, Decoded(s)) /\ errors = <<>>
    BY <1>1, <1>4, <2>2, <2>3, <2>4 DEF written
  <2>6. Telling(EndPut(written)) = EndPut(written)
    <3> DEFINE says == <<Prompt>>
               x == [[written EXCEPT !.file = None] EXCEPT !.state = "ShowingPrompt"]
    <3>1. EndPut(written) = [shell |-> x, says |-> says, stays |-> TRUE]
      BY DEF EndPut, ShowPrompt, Result
    <3>2. says \in Seq(Messages)
      BY MessagesAre
    <3> HIDE DEF says, x
    <3>3. errors \o says = says
      BY <2>5, <3>2, ConcatEmptySeq
    <3> DEFINE e == [shell |-> x, says |-> says, stays |-> TRUE]
    <3>4. e.says = says /\ [e EXCEPT !.says = says] = e
      <4>1. \A u, v, w : [[shell |-> u, says |-> v, stays |-> w] EXCEPT !.says = v]
                          = [shell |-> u, says |-> v, stays |-> w]
        OBVIOUS
      <4> QED BY <4>1
    <3>5. EndPut(written) = e
      BY <3>1
    <3> HIDE DEF e
    <3>6. [e EXCEPT !.says = errors \o e.says] = e
      BY <3>3, <3>4
    <3>7. Telling(e) = e
      BY <3>6 DEF Telling
    <3> QED BY <3>5, <3>7
  <2> QED BY <1>9, <1>10, <2>1, <2>5, <2>6
<1>11. ASSUME sh.binary, s[1].kind \in {"long", "huge"}
       PROVE  \E e \in Seq(Messages) : TellsErrors(sh, s, Received(sh, s, fails), e)
  <2>1. large # {}
    <3> DEFINE t == SubSeq(s, 1, upTo)
    <3>1. t \in Seq(Words) /\ Len(t) = upTo /\ t[1] = s[1]
      <4>1. /\ 1 \in 1 .. Len(s) + 1 /\ upTo \in 0 .. Len(s) /\ 1 <= upTo
            /\ upTo - 1 + 1 = upTo /\ 1 \in 1 .. upTo /\ 1 + 1 - 1 = 1
        BY <1>1, <1>2
      <4>2. /\ t \in Seq(Words) /\ Len(t) = (IF 1 <= upTo THEN upTo - 1 + 1 ELSE 0)
            /\ \A i \in 1 .. upTo - 1 + 1 : t[i] = s[1 + i - 1]
        BY <4>1, PartIs
      <4> HIDE DEF t
      <4>3. t[1] = s[1 + 1 - 1]
        BY <4>1, <4>2
      <4> QED BY <4>1, <4>2, <4>3
    <3> HIDE DEF t
    <3>2. 1 \in DOMAIN t
      <4>1. DOMAIN t = 1 .. Len(t)
        BY <3>1, LenProperties
      <4> QED BY <1>1, <3>1, <4>1
    <3>3. 1 \in Places(t, {"long", "huge"})
      BY <1>11, <3>1, <3>2 DEF Places
    <3> QED BY <3>3 DEF large, t
  <2>2. errors # <<>> /\ errors[1] = Error
    BY <1>3, <2>1
  <2> DEFINE r == Received(sh, s, fails)
  <2>3. CASE huge # {}
    <3>1. r = Telling([Failed([written EXCEPT !.file = None]) EXCEPT !.stays = FALSE])
      BY <1>9, <1>11, <2>3
    <3>2. /\ r.shell = [[written EXCEPT !.file = None] EXCEPT !.state = "NeedPrompt"]
          /\ r.says = errors \o <<Error>>
      BY <3>1 DEF Telling, Failed, Result
    <3> HIDE DEF r
    <3>3. r.shell.state = "NeedPrompt"
      BY <1>6, <3>2 DEF Shells
    <3>4. TellsErrors(sh, s, r, errors)
      BY <2>2, <3>2, <3>3 DEF TellsErrors
    <3> QED BY <1>1, <3>4 DEF r
  <2>4. CASE huge = {}
    <3>1. s[1].kind # "huge"
      <4>1. 1 \in DOMAIN s
        BY <1>2
      <4> QED BY <2>4, <4>1 DEF huge, Places
    <3>2. CASE PutEnds(sh, s)
      <4>1. r = Telling(EndPut(written))
        BY <1>9, <1>11, <2>4, <3>2
      <4>2. /\ r.shell = [[written EXCEPT !.file = None] EXCEPT !.state = "ShowingPrompt"]
            /\ r.says = errors \o <<Prompt>>
        BY <4>1 DEF Telling, EndPut, ShowPrompt, Result
      <4> HIDE DEF r
      <4>3. r.shell.state = "ShowingPrompt"
        BY <1>6, <4>2 DEF Shells
      <4>4. TellsErrors(sh, s, r, errors)
        BY <2>2, <4>2, <4>3 DEF TellsErrors
      <4> QED BY <1>1, <4>4 DEF r
    <3>3. CASE ~ PutEnds(sh, s)
      <4> HIDE DEF r
      <4>1. TellsErrors(sh, s, r, errors)
        BY <2>2, <3>1, <3>3 DEF TellsErrors
      <4> QED BY <1>1, <4>1 DEF r
    <3> QED BY <3>2, <3>3
  <2> QED BY <2>3, <2>4
<1> QED BY <1>8, <1>10, <1>11

(* A put that ends with an error in the first message. *)
LEMMA ErrorsEnd ==
  ASSUME NEW y, NEW pr, NEW stays,
         pr.inbound = <<>>, pr.asked # <<>>, pr.asked[1].kind = "put",
         NEW errors \in Seq(Messages), errors # <<>>, errors[1] = Error,
         NEW m \in Messages,
         \/ y.state = "NeedPrompt" /\ m = Error
         \/ y.state = "ShowingPrompt" /\ m = Prompt,
         NEW says, says = errors \o <<m>>
  PROVE  Answering(y, <<>>, pr, says, stays)
<1> DEFINE n == Len(errors)
<1>2. n \in Nat /\ n > 0
  BY LenProperties, EmptySeq
<1>3. says \in Seq(Messages) /\ Len(says) = n + 1 /\ says[1] = Error /\ says[n + 1] = m
      /\ says # <<>>
  <2> DEFINE t == <<m>>
  <2>1. t \in Seq(Messages) /\ Len(t) = 1 /\ t[1] = m
    OBVIOUS
  <2> HIDE DEF t
  <2>2. /\ says \in Seq(Messages) /\ Len(says) = n + 1
        /\ \A i \in 1 .. n + 1 : says[i] = IF i <= n THEN errors[i] ELSE t[i - n]
    <3>1. /\ errors \o t \in Seq(Messages) /\ Len(errors \o t) = Len(errors) + Len(t)
          /\ \A i \in 1 .. Len(errors) + Len(t) :
               (errors \o t)[i] = IF i <= Len(errors) THEN errors[i] ELSE t[i - Len(errors)]
      BY <2>1, ConcatProperties
    <3> QED BY <2>1, <3>1 DEF t
  <2> HIDE DEF n
  <2>3. says[1] = Error
    <3>1. 1 \in 1 .. n + 1 /\ 1 <= n
      BY <1>2
    <3> QED BY <2>2, <3>1
  <2> DEFINE i == n + 1
  <2>4. i \in 1 .. n + 1 /\ ~ (i <= n) /\ i - n = 1
    BY <1>2
  <2> HIDE DEF i
  <2>5. says[i] = m
    BY <2>1, <2>2, <2>4
  <2>6. says # <<>>
    <3>1. Len(says) # 0
      BY <1>2, <2>2
    <3> QED BY <2>2, <3>1, EmptySeq
  <2> QED BY <2>2, <2>3, <2>5, <2>6 DEF i
<1> HIDE DEF n
<1>4. Error[1].kind = "error" /\ ~ (Error[Len(Error)].kind = "prompt")
  BY PlainErrors DEF Error, Tok
<1>5. Errs(<<>>, says)
  BY <1>3, <1>4 DEF Errs
<1>6. Prompts(<<>>, says) => y.state = "ShowingPrompt"
  <2>1. says[Len(says)] = m
    BY <1>3
  <2>2. m = Error => ~ Prompts(<<>>, says)
    BY <1>3, <1>4, <2>1 DEF Prompts
  <2> QED BY <2>2
<1>7. Ended(y, <<>>, pr, says)
  BY <1>5, <1>6 DEF Ended
<1> QED BY <1>7 DEF Answering

(* What a put has still to send, as far as the shell looks at it. *)
LEMMA PutFits ==
  ASSUME Careless = {}, NEW sh \in Shells, NEW said, NEW pr \in Peers, NEW fails,
         Putting(sh, said, pr),
         NEW k \in 1 .. Len(pr.inbound), Segment(pr.inbound, k, sh.binary),
         NEW pr2, pr2.asked = pr.asked,
         pr2.inbound = SubSeq(pr.inbound, k + 1, Len(pr.inbound))
  PROVE  LET r == Received(sh, SubSeq(pr.inbound, 1, k), fails) IN
           Fits(r.shell, said, pr2, r.says, r.stays)
<1> DEFINE A == pr.asked
           q == pr.inbound
           s == SubSeq(q, 1, k)
           L == Len(A)
           r == Received(sh, s, fails)
<1>1. PICK m \in {-1, 0}, b \in Bodies(sh.binary) : A = <<Cmd("put", m)>> \o b \o Eot
  BY DEF Putting
<1>c. PICK c \in Words : c = Cmd("put", m)
  BY PutWords
<1>d. A = <<c>> \o b \o Eot
  BY <1>1, <1>c
<1>2. PICK j \in 1 .. L - 1 :
        /\ q = SubSeq(A, j + 1, L)
        /\ Exists(A[1]) => sh.file # Bad /\ sh.saved = OfKind(SubSeq(A, 1, j), DataKinds)
        /\ sh.binary => j = 1 \/ (A[j].kind = "data" /\ A[j].n % 2 = 0)
  BY DEF Putting
<1>3. sh.state = "PutFile" /\ said = <<>> /\ sh.binary \in BOOLEAN
  BY DEF Putting, Shells
<1>4. A \in Seq(Words) /\ q \in Seq(Words) /\ L \in Nat /\ Len(q) \in Nat /\ k \in Nat
      /\ k >= 1 /\ k <= Len(q) /\ j \in Nat /\ j >= 1 /\ j <= L - 1
  <2>1. A \in Seq(Words) /\ q \in Seq(Words)
    BY DEF Peers
  <2>2. L \in Nat /\ Len(q) \in Nat
    BY <2>1, LenProperties
  <2> QED BY <2>1, <2>2
<1>s. s = SubSeq(q, 1, k)
  OBVIOUS
<1>a. pr2.asked = A /\ pr2.inbound = SubSeq(q, k + 1, Len(q)) /\ Segment(q, k, sh.binary)
  OBVIOUS
<1> HIDE DEF A, q, s, L
<1>5. Len(q) = L - j
  <2>1. j + 1 \in 1 .. L + 1 /\ L \in 0 .. L /\ j + 1 <= L /\ L - (j + 1) + 1 = L - j
    BY <1>4
  <2>2. Len(q) = IF j + 1 <= L THEN L - (j + 1) + 1 ELSE 0
    BY <1>2, <1>4, <2>1, PartIs DEF L
  <2> QED BY <2>1, <2>2
<1>6. /\ s \in Seq(Words) /\ s \in Seq(Token) /\ Len(s) = k /\ s # <<>>
      /\ \A i \in 1 .. k : s[i] = A[j + i]
      /\ \A i \in 1 .. L - j : q[i] = A[j + i]
      /\ SubSeq(q, k + 1, Len(q)) = SubSeq(A, j + k + 1, L)
      /\ SubSeq(A, 1, j) \o s = SubSeq(A, 1, j + k)
      /\ SubSeq(A, 1, j) \in Seq(Token)
  <2>1. j + k <= L /\ q = SubSeq(A, j + 1, L)
    BY <1>2, <1>4, <1>5
  <2>2. L = Len(A)
    BY DEF L
  <2>3. j + k <= Len(A) /\ q = SubSeq(A, j + 1, Len(A))
    BY <2>1, <2>2
  <2>4. Part(A, j, k, q, s)
    BY ONLY <1>s, <1>4, <2>3, PartOf
  <2> QED BY ONLY <2>2, <2>4 DEF Part
<1>7. ASSUME Exists(A[1])
      PROVE  OfKind(SubSeq(A, 1, j + k), DataKinds) = sh.saved \o OfKind(s, DataKinds)
  <2> DEFINE u == SubSeq(A, 1, j)
  <2>1. u \in Seq(Token) /\ s \in Seq(Token) /\ u \o s = SubSeq(A, 1, j + k)
    BY <1>6
  <2>2. sh.saved = OfKind(u, DataKinds)
    BY <1>2, <1>7
  <2> HIDE DEF u
  <2>3. OfKind(u \o s, DataKinds) = OfKind(u, DataKinds) \o OfKind(s, DataKinds)
    <3>1. u \in Seq(Token) /\ s \in Seq(Token)
      BY <2>1
    <3> QED BY ONLY <3>1, OfKindConcat
  <2> QED BY <2>1, <2>2, <2>3
<1>8. j + k <= L /\ (j + k = L <=> k = Len(q)) /\ L \in 1 .. L
  BY <1>4, <1>5
<1>9. A # <<>> /\ A[1] = Cmd("put", m) /\ A[1].kind = "put"
      /\ A[L] = Tok("eot") /\ A[L].kind = "eot" /\ L = Len(b) + 2 /\ Len(b) \in Nat
      /\ \A i \in 1 .. Len(b) : A[i + 1] = b[i]
  <2>1. b \in Seq(Words)
    BY BodiesAre
  <2>2. /\ L = Len(b) + 2 /\ A[1] = c /\ A[Len(b) + 2] = Tok("eot") /\ Len(b) \in Nat
        /\ \A i \in 1 .. Len(b) : A[i + 1] = b[i]
    BY <1>d, <2>1, PutIs DEF L
  <2>3. A # <<>>
    <3>1. L # 0
      BY <2>2
    <3> QED BY <1>4, <3>1, EmptySeq DEF L
  <2> QED BY <1>c, <2>2, <2>3 DEF Cmd, Tok
<1>10. k = Len(q) => pr2.inbound = <<>>
  <2>1. k = Len(q) => Len(q) < k + 1 /\ Len(q) \in Int /\ k + 1 \in Int
    BY <1>4
  <2> QED BY <1>a, <2>1, SubSeqEmpty
<1>11. ASSUME NEW t \in Seq(Token), OfKind(t, DataKinds) = OfKind(s, DataKinds),
              r = Result(Write(sh, t), <<>>), k # Len(q),
              sh.binary => A[j + k].kind = "data" /\ A[j + k].n % 2 = 0
       PROVE  Fits(r.shell, said, pr2, r.says, r.stays)
  <2> DEFINE x == Write(sh, t)
  <2>1. /\ x.state = "PutFile" /\ x.binary = sh.binary /\ x.file = sh.file
        /\ sh.file # Bad => x = [sh EXCEPT !.saved = @ \o OfKind(t, DataKinds)]
    BY <1>3, WriteTypes
  <2>2. Exists(A[1]) => x.file # Bad /\ x.saved = OfKind(SubSeq(A, 1, j + k), DataKinds)
    <3> HIDE DEF x
    <3> QED BY <1>2, <1>7, <1>11, <2>1 DEF Shells
  <2> DEFINE i == j + k
  <2>3. i \in 1 .. L - 1
    BY <1>4, <1>8, <1>11
  <2>4. /\ pr2.inbound = SubSeq(A, i + 1, L)
        /\ Exists(A[1]) => x.file # Bad /\ x.saved = OfKind(SubSeq(A, 1, i), DataKinds)
        /\ x.binary => i = 1 \/ (A[i].kind = "data" /\ A[i].n % 2 = 0)
    BY <1>a, <1>6, <1>11, <2>1, <2>2
  <2> HIDE DEF i, x
  <2>5. Putting(x, said, pr2)
    BY <1>a, <1>1, <1>3, <2>1, <2>3, <2>4 DEF Putting, L
  <2> QED BY <1>11, <2>5 DEF Fits, Result, x
<1>12. ASSUME NEW x \in Shells,
              Exists(A[1]) => x.saved = OfKind(SubSeq(A, 1, j + k), DataKinds),
              r = EndPut(x), k = Len(q)
       PROVE  Fits(r.shell, said, pr2, r.says, r.stays)
  <2> DEFINE y == [[x EXCEPT !.file = None] EXCEPT !.state = "ShowingPrompt"]
  <2>1. r.shell = y /\ r.says = <<Prompt>> /\ r.stays = TRUE
    BY <1>12 DEF EndPut, ShowPrompt, Result
  <2>2. y.state = "ShowingPrompt" /\ y.saved = x.saved
    BY DEF Shells
  <2> HIDE DEF y
  <2>3. SubSeq(A, 1, j + k) = A
    BY <1>4, <1>8, <1>12, SubSeqFull DEF L
  <2>4. Ended(y, said, pr2, <<Prompt>>)
    BY <1>a, <1>9, <1>12, <2>2, <2>3 DEF Ended
  <2>5. Answering(y, said, pr2, <<Prompt>>, TRUE)
    BY <1>a, <1>9, <1>10, <1>12, <2>4 DEF Answering
  <2> QED BY <2>1, <2>5 DEF Fits
<1>13. PutEnds(sh, s) <=> IF sh.binary
                          THEN \/ A[j + k].kind = "nl"
                               \/ A[j + k].kind = "eot" /\ (k = 1 \/ A[j + k - 1].kind = "nl")
                          ELSE k = 1 /\ A[j + k].kind = "eot"
  <2>1. k \in 1 .. k /\ s[k] = A[j + k]
    BY <1>4, <1>6
  <2>2. k # 1 => s[k - 1] = A[j + k - 1]
    <3>1. k # 1 => k - 1 \in 1 .. k /\ j + (k - 1) = j + k - 1
      BY <1>4
    <3>2. k # 1 => s[k - 1] = A[j + (k - 1)]
      BY <1>6, <3>1
    <3> QED BY <3>1, <3>2
  <2> QED BY <1>6, <2>1, <2>2 DEF PutEnds
<1>14. \/ \E n \in 1 .. Lines : b = Body(n)
       \/ sh.binary /\ (b = <<Tok("long"), Tok("nl")>> \/ b = <<Tok("huge"), Tok("nl")>>)
  BY DEF Bodies
<1>15. q[1] = A[j + 1] /\ q[k] = A[j + k]
  <2>1. 1 \in 1 .. L - j /\ k \in 1 .. L - j
    BY <1>4, <1>5
  <2> QED BY <1>6, <2>1
<1>r. r = Received(sh, s, fails)
  OBVIOUS
<1> HIDE DEF r
<1>16. ASSUME NEW n \in 1 .. Lines, b = Body(n)
       PROVE  Fits(r.shell, said, pr2, r.says, r.stays)
  <2>1. /\ n \in Nat /\ n >= 1 /\ L = 3 * n + 2
        /\ A[3 * n + 1] = Tok("nl")
        /\ \A i \in 2 .. 3 * n + 1 :
              \/ Odd(A[i]) /\ (i = 2 \/ A[i - 1].kind = "nl") /\ i + 1 <= 3 * n /\ Even(A[i + 1])
              \/ Even(A[i]) /\ i >= 3 /\ Odd(A[i - 1]) /\ (i = 3 \/ A[i - 2].kind = "nl")
              \/ A[i] = Tok("nl")
    <3>1. A = <<c>> \o Body(n) \o Eot
      BY <1>d, <1>16
    <3> QED BY <3>1, BodyLine DEF L
  <2>2. A[L - 1].kind = "nl"
    <3>1. L - 1 = 3 * n + 1
      BY <2>1
    <3> QED BY <2>1, <3>1 DEF Tok
  <2>3. \A i \in 2 .. L - 1 : A[i].kind \in {"data", "nl"} /\ (A[i] = Tok("nl") => A[i].kind = "nl")
    <3>1. L - 1 = 3 * n + 1
      BY <2>1
    <3>2. \A i : Odd(A[i]) \/ Even(A[i]) => A[i].kind = "data"
      BY DEF Odd, Even
    <3>3. Tok("nl").kind = "nl"
      BY DEF Tok
    <3> QED BY <2>1, <3>1, <3>2, <3>3
  <2>4. \A i \in j + 1 .. j + k : A[i].kind \in {"data", "nl", "eot"}
    <3> TAKE i \in j + 1 .. j + k
    <3>1. i = L \/ i \in 2 .. L - 1
      BY <1>4, <1>8
    <3> QED BY <1>9, <2>3, <3>1
  <2>5. q[1].kind \in {"data", "nl", "eot"}
    <3>1. j + 1 \in j + 1 .. j + k
      BY <1>4
    <3> QED BY <1>15, <2>4, <3>1
  <2>6. CASE ~ sh.binary
    <3>1. k < Len(q) \/ Len(q) = 1
      BY <1>a, <2>5, <2>6 DEF Segment
    <3>2. r = IF PutEnds(sh, s) THEN EndPut(sh) ELSE Result(Write(sh, s), <<>>)
      BY <1>r, <1>3, <1>6, <2>6, PutReceived
    <3>3. CASE k < Len(q)
      <4>1. j + k \in 2 .. L - 1
        BY <1>4, <1>5, <3>3
      <4>2. ~ PutEnds(sh, s)
        BY <1>13, <2>3, <2>6, <4>1
      <4>3. k # Len(q)
        BY <1>4, <3>3
      <4> QED BY <1>6, <1>11, <2>6, <3>2, <4>2, <4>3
    <3>4. CASE Len(q) = 1
      <4>1. k = 1 /\ j + k = L
        BY <1>4, <1>8, <3>4
      <4>2. PutEnds(sh, s)
        BY <1>9, <1>13, <2>6, <4>1
      <4>3. OfKind(s, DataKinds) = <<>>
        <5>1. \A i \in 1 .. Len(s) : s[i].kind = "eot"
          BY <1>6, <1>9, <4>1
        <5> QED BY <1>6, <5>1, OfNoKind DEF DataKinds
      <4>4. Exists(A[1]) => sh.saved = OfKind(SubSeq(A, 1, j + k), DataKinds)
        <5>1. sh.saved \in Seq(Token)
          BY DEF Shells
        <5>2. sh.saved \o <<>> = sh.saved
          BY <5>1, ConcatEmptySeq
        <5> QED BY <1>7, <4>3, <5>2
      <4>5. r = EndPut(sh) /\ k = Len(q)
        BY <3>2, <3>4, <4>1, <4>2
      <4> QED BY <1>3, <1>12, <4>4, <4>5
    <3> QED BY <3>1, <3>3, <3>4
  <2>7. CASE sh.binary
    <3>1. Decoded(s) = s
      <4>1. ASSUME NEW i \in 1 .. k PROVE Lined(s, i)
        <5> DEFINE h == j + i
        <5>0. i \in Nat /\ i >= 1 /\ i <= k /\ s[i] = A[h] /\ h \in Nat
          <6>1. s[i] = A[j + i]
            BY <1>6
          <6> QED BY <1>4, <6>1
        <5>1. h = L \/ h \in 2 .. 3 * n + 1
          BY <1>4, <1>8, <2>1
        <5>2. /\ (i + 1 <= k => s[i + 1] = A[h + 1])
              /\ (i - 1 >= 1 => s[i - 1] = A[h - 1])
              /\ (i - 2 >= 1 => s[i - 2] = A[h - 2])
          <6>1. /\ (i + 1 <= k => i + 1 \in 1 .. k /\ j + (i + 1) = h + 1)
                /\ (i - 1 >= 1 => i - 1 \in 1 .. k /\ j + (i - 1) = h - 1)
                /\ (i - 2 >= 1 => i - 2 \in 1 .. k /\ j + (i - 2) = h - 2)
            <7>1. i \in Nat /\ i <= k /\ k \in Nat /\ j \in Nat
              BY <1>4, <5>0
            <7> QED BY <7>1
          <6>2. i + 1 <= k => s[i + 1] = A[j + (i + 1)]
            BY <1>6, <6>1
          <6>3. i - 1 >= 1 => s[i - 1] = A[j + (i - 1)]
            BY <1>6, <6>1
          <6>4. i - 2 >= 1 => s[i - 2] = A[j + (i - 2)]
            BY <1>6, <6>1
          <6> QED BY <6>1, <6>2, <6>3, <6>4
        <5>3. i = 1 => h = j + 1 /\ h - 1 = j
          BY <1>4
        <5>4. i = 2 => h = j + 2 /\ h - 2 = j
          BY <1>4
        <5>5. i = k => h = j + k
          BY <1>4
        <5> HIDE DEF h
        <5>6. j = 1 \/ Even(A[j])
          BY <1>2, <2>7 DEF Even
        <5>7. A[1].kind # "nl" /\ ~ Odd(A[1]) /\ \A x : ~ (Odd(x) /\ Even(x))
          BY <1>9 DEF Odd, Even
        <5>8. CASE h = L
          BY <1>9, <5>0, <5>8 DEF Lined, DataKinds
        <5>9. CASE h \in 2 .. 3 * n + 1
          <6>1. CASE Odd(A[h]) /\ (h = 2 \/ A[h - 1].kind = "nl") /\ h + 1 <= 3 * n /\ Even(A[h + 1])
            <7>1. i = 1 \/ s[i - 1].kind = "nl"
              <8>1. i # 1 => i - 1 >= 1 /\ h # 2
                <9>1. i # 1 => j + i # 2
                  BY <1>4, <5>0
                <9> QED BY <5>0, <9>1 DEF h
              <8> QED BY <5>2, <6>1, <8>1
            <7>2. i < k
              <8>1. i = k => k = Len(q) \/ Even(A[h])
                BY <1>a, <1>15, <2>5, <2>7, <5>5 DEF Segment, Even
              <8>2. k = Len(q) /\ i = k => h = L
                BY <1>8, <5>5
              <8>3. h + 1 <= 3 * n => h # L
                BY <2>1, <5>0
              <8> QED BY <5>0, <5>7, <6>1, <8>1, <8>2, <8>3
            <7>3. Even(s[i + 1])
              <8>1. i + 1 <= k
                BY <1>4, <5>0, <7>2
              <8> QED BY <5>2, <6>1, <8>1
            <7> QED BY <1>6, <5>0, <6>1, <7>1, <7>2, <7>3 DEF Lined
          <6>2. CASE Even(A[h]) /\ h >= 3 /\ Odd(A[h - 1]) /\ (h = 3 \/ A[h - 2].kind = "nl")
            <7>1. i # 1
              <8>1. i = 1 => Odd(A[j])
                BY <5>3, <6>2
              <8> QED BY <5>6, <5>7, <8>1
            <7>2. i >= 2 /\ Odd(s[i - 1])
              BY <5>0, <5>2, <6>2, <7>1
            <7>3. i = 2 \/ s[i - 2].kind = "nl"
              <8>1. i # 2 => i - 2 >= 1 /\ h # 3
                <9>1. i # 2 => j + i # 3
                  BY <1>4, <7>2
                <9> QED BY <5>0, <7>2, <9>1 DEF h
              <8> QED BY <5>2, <6>2, <8>1
            <7> QED BY <5>0, <6>2, <7>2, <7>3 DEF Lined
          <6>3. CASE A[h] = Tok("nl")
            BY <5>0, <6>3 DEF Lined, Tok, DataKinds
          <6> QED BY <2>1, <5>9, <6>1, <6>2, <6>3
        <5> QED BY <5>1, <5>8, <5>9
      <4> QED BY <1>6, <4>1, DecodedWhole
    <3>2. \A i \in 1 .. Len(s) : s[i].kind \notin {"long", "huge"}
      <4> TAKE i \in 1 .. Len(s)
      <4>1. i \in 1 .. k /\ j + i \in j + 1 .. j + k
        <5>1. Len(s) = k
          BY <1>6
        <5>2. i \in 1 .. k /\ k \in Nat /\ j \in Nat
          BY <1>4, <5>1
        <5> QED BY <5>2
      <4>2. s[i].kind \in {"data", "nl", "eot"}
        BY <1>6, <2>4, <4>1
      <4> QED BY <4>2
    <3>3. r = IF PutEnds(sh, s) THEN EndPut(Write(sh, s)) ELSE Result(Write(sh, s), <<>>)
      BY <1>r, <1>3, <1>6, <2>7, <3>1, <3>2, PutReceived
    <3>4. k = Len(q) \/ (A[j + k].kind = "data" /\ A[j + k].n % 2 = 0)
      BY <1>a, <1>15, <2>5, <2>7 DEF Segment
    <3>5. CASE k = Len(q)
      <4>1. PutEnds(sh, s)
        <5>1. j + k = L /\ j + k - 1 = L - 1
          BY <1>4, <1>8, <3>5
        <5> QED BY <1>9, <1>13, <2>2, <2>7, <5>1
      <4> DEFINE x == Write(sh, s)
      <4>2. /\ x \in Shells
            /\ sh.file # Bad => x = [sh EXCEPT !.saved = @ \o OfKind(s, DataKinds)]
        BY <1>6, WriteTypes
      <4>3. r = EndPut(x)
        BY <3>3, <4>1
      <4> HIDE DEF x
      <4>4. Exists(A[1]) => x.saved = OfKind(SubSeq(A, 1, j + k), DataKinds)
        BY <1>2, <1>7, <4>2 DEF Shells
      <4> QED BY <1>12, <3>5, <4>2, <4>3, <4>4
    <3>6. CASE k # Len(q)
      <4>1. ~ PutEnds(sh, s)
        BY <1>13, <2>7, <3>4, <3>6
      <4> QED BY <1>6, <1>11, <3>3, <3>4, <3>6, <4>1
    <3> QED BY <3>5, <3>6
  <2> QED BY <1>3, <2>6, <2>7
<1>17. ASSUME sh.binary, NEW kind \in {"long", "huge"}, b = <<Tok(kind), Tok("nl")>>
       PROVE  Fits(r.shell, said, pr2, r.says, r.stays)
  <2>1. Len(b) = 2 /\ b[1] = Tok(kind) /\ b[2] = Tok("nl")
    BY <1>17
  <2>2. L = 4 /\ A[2].kind = kind /\ A[3].kind = "nl" /\ A[4].kind = "eot"
    <3>1. L = 4 /\ 1 \in 1 .. Len(b) /\ 2 \in 1 .. Len(b) /\ 1 + 1 = 2 /\ 2 + 1 = 3
      BY <1>9, <2>1
    <3>2. A[1 + 1] = b[1] /\ A[2 + 1] = b[2]
      BY <1>9, <3>1
    <3> QED BY <1>9, <2>1, <3>1, <3>2 DEF Tok
  <2>3. j = 1
    <3>1. j = 1 \/ j = 2 \/ j = 3
      BY <1>4, <2>2
    <3> QED BY <1>2, <1>17, <2>2, <3>1
  <2>4. k = 3 /\ k = Len(q)
    <3>1. Len(q) = 3 /\ (k = 1 \/ k = 2 \/ k = 3)
      BY <1>4, <1>5, <2>2, <2>3
    <3>2. A[1 + 1] = A[2] /\ A[1 + 2] = A[3] /\ A[1 + 3] = A[4]
      OBVIOUS
    <3>3. q[1].kind = kind /\ q[k].kind # "data"
      BY <1>15, <2>2, <2>3, <3>1, <3>2
    <3> QED BY <1>a, <1>17, <3>1, <3>3 DEF Segment
  <2>5. s[1].kind = kind /\ s[2].kind = "nl" /\ s[3].kind = "eot"
    <3>1. 1 \in 1 .. k /\ 2 \in 1 .. k /\ 3 \in 1 .. k /\ j + 1 = 2 /\ j + 2 = 3 /\ j + 3 = 4
      BY <2>3, <2>4
    <3>2. s[1] = A[j + 1] /\ s[2] = A[j + 2] /\ s[3] = A[j + 3]
      BY <1>6, <3>1
    <3> QED BY <2>2, <3>1, <3>2
  <2>6. PutEnds(sh, s)
    <3>1. j + k = 4 /\ j + k - 1 = 3
      BY <2>3, <2>4
    <3> QED BY <1>13, <1>17, <2>2, <3>1
  <2>7. kind # "huge" => \A i \in 1 .. Len(s) : s[i].kind # "huge"
    <3>1. \A i \in 1 .. Len(s) : i = 1 \/ i = 2 \/ i = 3
      BY <1>6, <2>4
    <3> QED BY <2>5, <3>1
  <2>8. PICK errors \in Seq(Messages) : TellsErrors(sh, s, r, errors)
    BY <1>r, <1>3, <1>6, <1>17, <2>5, PutReceived
  <2> DEFINE y == r.shell  says == r.says
  <2>9. /\ errors # <<>> /\ errors[1] = Error
        /\ \/ y.state = "NeedPrompt" /\ says = errors \o <<Error>>
           \/ y.state = "ShowingPrompt" /\ says = errors \o <<Prompt>>
    BY <1>3, <2>5, <2>6, <2>7, <2>8 DEF TellsErrors
  <2>10. Error \in Messages /\ Prompt \in Messages
    BY MessagesAre
  <2>11. pr2.inbound = <<>> /\ pr2.asked # <<>> /\ pr2.asked[1].kind = "put"
    BY <1>a, <1>9, <1>10, <2>4
  <2> HIDE DEF y, says
  <2>12. Answering(y, <<>>, pr2, says, r.stays)
    <3>1. CASE y.state = "NeedPrompt" /\ says = errors \o <<Error>>
      BY <2>9, <2>10, <2>11, <3>1, ErrorsEnd
    <3>2. CASE y.state = "ShowingPrompt" /\ says = errors \o <<Prompt>>
      BY <2>9, <2>10, <2>11, <3>2, ErrorsEnd
    <3> QED BY <2>9, <3>1, <3>2
  <2> QED BY <1>3, <2>12 DEF Fits, y, says
<1> QED BY <1>r, <1>14, <1>16, <1>17 DEF s, q

(* What a shell at the prompt receives is one word, the command. *)
LEMMA CommandFits ==
  ASSUME Careless = {}, NEW sh \in Shells, NEW said \in Seq(Token), NEW pr \in Peers,
         Commanded(sh, said, pr), NEW fails \in MayFail(sh),
         NEW k \in 1 .. Len(pr.inbound), Segment(pr.inbound, k, sh.binary),
         NEW pr2 \in Peers, pr2.asked = pr.asked,
         pr2.inbound = SubSeq(pr.inbound, k + 1, Len(pr.inbound))
  PROVE  LET r == Received(sh, SubSeq(pr.inbound, 1, k), fails) IN
           Fits(r.shell, said, pr2, r.says, r.stays)
<1> DEFINE A == pr.asked
           s == SubSeq(A, 1, k)
           L == Len(A)
           r == Received(sh, s, fails)
<1>1. /\ pr.inbound = A /\ sh.state = "ShowingPrompt" /\ A \in Asks(sh.binary)
      /\ A = <<Tok("nl")>> \/ said = <<>>
  BY DEF Commanded
<1>2. A \in Seq(Words) /\ L \in Nat /\ k \in Nat /\ k >= 1 /\ k <= L
  <2>1. A \in Seq(Words)
    BY DEF Peers
  <2>2. L \in Nat
    BY <2>1, LenProperties
  <2> QED BY <1>1, <2>1, <2>2
<1>3. Segment(A, k, sh.binary) /\ pr2.asked = A /\ pr2.inbound = SubSeq(A, k + 1, L)
  BY <1>1
<1>s. s = SubSeq(A, 1, k) /\ r = Received(sh, s, fails)
  OBVIOUS
<1> HIDE DEF A, s, L
<1>4. k = 1
  <2>1. A[1].kind \notin {"data", "long", "huge", "nl", "eot"} => k = 1
    BY <1>3 DEF Segment
  <2>2. A = <<Tok("nl")>> => k = 1
    <3>1. A = <<Tok("nl")>> => Len(A) = 1
      OBVIOUS
    <3> QED BY <1>2, <3>1 DEF L
  <2>5. ASSUME NEW n \in {-1, 0}, NEW b \in Bodies(sh.binary), A = <<Cmd("put", n)>> \o b \o Eot
        PROVE  A[1].kind = "put"
    <3>1. PICK c \in Words : c = Cmd("put", n) /\ c.kind = "put"
      BY PutWords
    <3>2. A = <<c>> \o b \o Eot
      BY <2>5, <3>1
    <3>3. A[1] = c
      BY <3>2, BodiesAre, PutIs
    <3> QED BY <3>1, <3>3
  <2>7. \A kind : A = <<Tok(kind)>> => A[1].kind = kind
    BY DEF Tok
  <2>8. \A n : /\ A = <<Cmd("ls", n)>> => A[1].kind = "ls"
               /\ A = <<Cmd("get", n)>> => A[1].kind = "get"
    BY DEF Cmd
  <2>9. \/ A = <<Tok("nl")>>
        \/ A[1].kind \in {"text", "binary", "info", "erase", "run", "quit", "unknown", "ls", "get", "put"}
    <3>1. CASE \E kind \in {"nl", "text", "binary", "info", "erase", "run", "quit", "unknown"} :
                 A = <<Tok(kind)>>
      BY <2>7, <3>1
    <3>2. CASE \E n : A = <<Cmd("ls", n)>> \/ A = <<Cmd("get", n)>>
      BY <2>8, <3>2
    <3>3. CASE \E n \in {-1, 0}, b \in Bodies(sh.binary) : A = <<Cmd("put", n)>> \o b \o Eot
      BY <2>5, <3>3
    <3>4. \/ \E kind \in {"nl", "text", "binary", "info", "erase", "run", "quit", "unknown"} :
               A = <<Tok(kind)>>
          \/ \E n \in Sizes : A = <<Cmd("ls", n)>>
          \/ A = <<Cmd("get", -1)>>
          \/ \E n \in Sizes : A = <<Cmd("get", n)>>
          \/ \E n \in {-1, 0}, b \in Bodies(sh.binary) : A = <<Cmd("put", n)>> \o b \o Eot
      BY <1>1, AsksAre
    <3> QED BY <3>1, <3>2, <3>3, <3>4
  <2> QED BY <2>1, <2>2, <2>9
<1>5. s = <<A[1]>> /\ A[1] \in Words
  <2>1. 1 \in 1 .. Len(A) + 1 /\ k \in 0 .. Len(A) /\ 1 <= k /\ k - 1 + 1 = 1 /\ 1 \in 1 .. k
        /\ 1 \in 1 .. Len(A) /\ 1 + 1 - 1 = 1 /\ \A i \in 1 .. k - 1 + 1 : 1 + i - 1 = i
    BY <1>2, <1>4 DEF L
  <2>2. /\ s \in Seq(Words) /\ Len(s) = (IF 1 <= k THEN k - 1 + 1 ELSE 0)
        /\ \A i \in 1 .. k - 1 + 1 : s[i] = A[1 + i - 1]
    BY <1>s, <1>2, <2>1, PartIs
  <2>3. s \in Seq(Words) /\ Len(s) = 1 /\ s[1] = A[1]
    BY <1>4, <2>1, <2>2
  <2>4. A[1] \in Words
    BY <1>2, <2>1, ElementOfSeq
  <2> QED BY <2>3, <2>4
<1>6. ASSUME NEW w \in Words, A = <<w>>, w.kind = "nl" => w = Tok("nl"),
             w.kind = "nl" \/ said = <<>>,
             \/ w.kind \in {"nl", "text", "binary", "info", "erase", "run", "quit", "unknown", "ls"}
             \/ w.kind = "get" /\ (Exists(w) => sh.binary \/ ~ EvenSize(w.n))
      PROVE  Fits(r.shell, said, pr2, r.says, r.stays)
  <2>1. A[1] = w /\ Len(A) = 1
    BY <1>6
  <2>2. r = Execute(sh, w, fails)
    BY <1>s, <1>1, <1>5, <1>6, <2>1, WordReceived
  <2>3. pr2.inbound = <<>>
    <3>1. L < k + 1 /\ L \in Int /\ k + 1 \in Int
      BY <1>2, <1>4, <2>1 DEF L
    <3> QED BY <1>3, <3>1, SubSeqEmpty
  <2>4. Answering(r.shell, said, pr2, r.says, r.stays)
    <3> HIDE DEF r
    <3>1. pr2.asked = <<w>>
      BY <1>3, <1>6
    <3> QED BY <1>1, <1>6, <2>2, <2>3, <3>1, ExecuteFits
  <2> QED BY <2>4 DEF Fits
<1>7. ASSUME NEW m \in {-1, 0}, NEW b \in Bodies(sh.binary),
             A = <<Cmd("put", m)>> \o b \o Eot, said = <<>>
      PROVE  Fits(r.shell, said, pr2, r.says, r.stays)
  <2>1. A[1] = Cmd("put", m) /\ L = Len(b) + 2 /\ Len(b) \in Nat
    <3>1. PICK c \in Words : c = Cmd("put", m)
      BY PutWords
    <3>2. A = <<c>> \o b \o Eot /\ b \in Seq(Words)
      BY <1>7, <3>1, BodiesAre
    <3>3. A[1] = c /\ Len(A) = Len(b) + 2 /\ Len(b) \in Nat
      BY <3>2, PutIs
    <3> QED BY <3>1, <3>3 DEF L
  <2> DEFINE x == [Open(sh, OpenedFile("w", A[1])) EXCEPT !.state = "PutFile", !.saved = <<>>]
  <2>2. r.shell = x /\ r.says = <<>> /\ r.stays = TRUE
    <3> DEFINE w == A[1]
    <3>1. w.kind = "put" /\ w \in Words /\ s = <<w>>
      BY <1>5, <2>1 DEF Cmd
    <3> HIDE DEF w
    <3>2. r = Execute(sh, w, fails)
      BY <1>s, <1>1, <3>1, WordReceived
    <3>3. Execute(sh, w, fails)
            = Result([Open(sh, OpenedFile("w", w)) EXCEPT !.state = "PutFile", !.saved = <<>>], <<>>)
      BY <3>1 DEF Execute
    <3> QED BY <3>2, <3>3 DEF Result, w
  <2>3. /\ x.state = "PutFile" /\ x.saved = <<>> /\ x.binary = sh.binary
        /\ Exists(A[1]) => x.file # Bad
    BY DEF Shells, Open, OpenedFile, Opened, Bad
  <2> HIDE DEF x
  <2>4. OfKind(SubSeq(A, 1, k), DataKinds) = <<>>
    <3>1. s \in Seq(Words) /\ Len(s) = 1 /\ s[1].kind = "put"
      BY <1>5, <2>1 DEF Cmd
    <3>2. \A i \in 1 .. Len(s) : s[i].kind \notin DataKinds
      BY <3>1 DEF DataKinds
    <3>3. OfKind(s, DataKinds) = <<>>
      BY <3>1, <3>2, OfNoKind
    <3> QED BY <1>s, <3>3
  <2>5. k \in 1 .. L - 1
    BY <1>4, <2>1
  <2>6. Putting(x, said, pr2)
    BY <1>3, <1>4, <1>7, <2>3, <2>4, <2>5 DEF Putting, L
  <2> QED BY <2>2, <2>6 DEF Fits
<1>8. Fits(r.shell, said, pr2, r.says, r.stays)
  <2>1. CASE \E kind \in {"nl", "text", "binary", "info", "erase", "run", "quit", "unknown"} :
               A = <<Tok(kind)>>
    <3>1. PICK kind \in {"nl", "text", "binary", "info", "erase", "run", "quit", "unknown"} :
             A = <<Tok(kind)>>
      BY <2>1
    <3> DEFINE w == Tok(kind)
    <3>2. A = <<w>> /\ w.kind = kind /\ (w.kind = "nl" => w = Tok("nl"))
      BY <3>1 DEF Tok
    <3>3. w \in Words
      <4>1. A[1] = w
        BY <3>2
      <4> QED BY <1>5, <4>1
    <3>4. w.kind = "nl" \/ said = <<>>
      <4>1. A = <<Tok("nl")>> => A[1] = Tok("nl")
        OBVIOUS
      <4>2. A[1] = w /\ Tok("nl").kind = "nl"
        BY <3>1 DEF Tok
      <4> QED BY <1>1, <4>1, <4>2
    <3> HIDE DEF w
    <3> QED BY <1>6, <3>2, <3>3, <3>4
  <2>2. CASE \E w : A = <<w>> /\ w.kind \in {"ls", "get"}
                      /\ (w.kind = "get" /\ Exists(w) => sh.binary \/ ~ EvenSize(w.n))
    <3>1. PICK w : A = <<w>> /\ w.kind \in {"ls", "get"}
                      /\ (w.kind = "get" /\ Exists(w) => sh.binary \/ ~ EvenSize(w.n))
      BY <2>2
    <3>2. A[1] = w
      BY <3>1
    <3>3. w \in Words
      BY <1>5, <3>2
    <3>4. said = <<>>
      <4>1. A = <<Tok("nl")>> => A[1].kind = "nl"
        BY DEF Tok
      <4> QED BY <1>1, <3>1, <3>2, <4>1
    <3> QED BY <1>6, <3>1, <3>3, <3>4
  <2>3. CASE \E m \in {-1, 0}, b \in Bodies(sh.binary) : A = <<Cmd("put", m)>> \o b \o Eot
    <3>1. PICK m \in {-1, 0}, b \in Bodies(sh.binary) : A = <<Cmd("put", m)>> \o b \o Eot
      BY <2>3
    <3>2. said = <<>>
      <4>1. A[1] = Cmd("put", m)
        <5>1. PICK c \in Words : c = Cmd("put", m)
          BY PutWords
        <5>2. A = <<c>> \o b \o Eot /\ b \in Seq(Words)
          BY <3>1, <5>1, BodiesAre
        <5> QED BY <5>1, <5>2, PutIs
      <4>2. A = <<Tok("nl")>> => A[1].kind = "nl"
        BY DEF Tok
      <4> QED BY <1>1, <4>1, <4>2 DEF Cmd
    <3> QED BY <1>7, <3>1, <3>2
  <2>4. \/ \E kind \in {"nl", "text", "binary", "info", "erase", "run", "quit", "unknown"} :
             A = <<Tok(kind)>>
        \/ \E n \in Sizes : A = <<Cmd("ls", n)>>
        \/ A = <<Cmd("get", -1)>>
        \/ \E n \in Sizes : A = <<Cmd("get", n)>> /\ (sh.binary \/ n % BufferSize # 0)
        \/ \E m \in {-1, 0}, b \in Bodies(sh.binary) : A = <<Cmd("put", m)>> \o b \o Eot
    BY <1>1, AsksAre
  <2>5. ~ Exists(Cmd("get", -1))
    BY DEF Exists, Cmd
  <2>6. \A n : /\ Cmd("ls", n).kind = "ls"
               /\ Cmd("get", n).kind = "get" /\ Cmd("get", n).n = n
    BY DEF Cmd
  <2>7. \A n : n % BufferSize # 0 <=> ~ EvenSize(n)
    BY DEF EvenSize
  <2>8. ASSUME NEW n, A = <<Cmd("ls", n)>>
        PROVE  Fits(r.shell, said, pr2, r.says, r.stays)
    <3> DEFINE w == Cmd("ls", n)
    <3>1. A = <<w>> /\ w.kind = "ls"
      BY <2>6, <2>8
    <3> HIDE DEF w
    <3> QED BY <2>2, <3>1
  <2>9. ASSUME NEW n, A = <<Cmd("get", n)>>, ~ Exists(Cmd("get", n)) \/ sh.binary \/ ~ EvenSize(n)
        PROVE  Fits(r.shell, said, pr2, r.says, r.stays)
    <3> DEFINE w == Cmd("get", n)
    <3>1. A = <<w>> /\ w.kind = "get" /\ w.n = n /\ (~ Exists(w) \/ sh.binary \/ ~ EvenSize(n))
      BY <2>6, <2>9
    <3> HIDE DEF w
    <3> QED BY <2>2, <3>1
  <2> HIDE DEF r
  <2>11. CASE \E n \in Sizes : A = <<Cmd("get", n)>> /\ (sh.binary \/ n % BufferSize # 0)
    BY <2>7, <2>9, <2>11
  <2>12. CASE \E n \in Sizes : A = <<Cmd("ls", n)>>
    BY <2>8, <2>12
  <2>13. CASE A = <<Cmd("get", -1)>>
    BY <2>5, <2>9, <2>13
  <2> QED BY <2>1, <2>3, <2>4, <2>11, <2>12, <2>13
<1> QED BY <1>1, <1>8 DEF s

(* Whatever is received. *)
LEMMA ReceiveFits ==
  ASSUME Careless = {}, NEW sh \in Shells, NEW said \in Seq(Token), NEW pr \in Peers,
         NEW says, NEW stays, Fits(sh, said, pr, says, stays), NEW fails \in MayFail(sh),
         NEW k \in 1 .. Len(pr.inbound), Segment(pr.inbound, k, sh.binary),
         NEW pr2 \in Peers, pr2.asked = pr.asked,
         pr2.inbound = SubSeq(pr.inbound, k + 1, Len(pr.inbound))
  PROVE  LET r == Received(sh, SubSeq(pr.inbound, 1, k), fails) IN
           Fits(r.shell, said, pr2, r.says, r.stays)
<1>1. ~ Answering(sh, said, pr, says, stays)
  <2>1. pr.inbound # <<>>
    <3>1. Len(pr.inbound) # 0
      <4>1. pr.inbound \in Seq(Words)
        BY DEF Peers
      <4>2. Len(pr.inbound) \in Nat
        BY <4>1, LenProperties
      <4> QED BY <4>2
    <3> QED BY <3>1
  <2> QED BY <2>1 DEF Answering
<1>2. CASE Commanded(sh, said, pr)
  BY <1>2, CommandFits
<1>3. CASE Putting(sh, said, pr)
  BY <1>3, PutFits
<1> QED BY <1>1, <1>2, <1>3 DEF Fits

-----------------------------------------------------------------------------
(* A slot that a step does not concern. *)
LEMMA OtherSlots ==
  ASSUME NEW t \in Slot, SlotFits(t), clients'[t].pcb = clients[t].pcb,
         shells'[t] = shells[t], Says(t)' = Says(t), Stays(t)' <=> Stays(t),
         InUse(t) => /\ net'[clients[t].pcb].said = net[clients[t].pcb].said
                     /\ peers'[clients[t].pcb] = peers[clients[t].pcb]
  PROVE  SlotFits(t)'
<1>1. InUse(t)' <=> InUse(t)
  BY DEF InUse
<1>2. CASE InUse(t)
  <2>1. Fits(shells[t], net[clients[t].pcb].said, peers[clients[t].pcb], Says(t), Stays(t))
    BY <1>2 DEF SlotFits
  <2>2. Stays(t)' = Stays(t)
    BY DEF Stays
  <2>3. Fits(shells'[t], net'[clients'[t].pcb].said, peers'[clients'[t].pcb], Says(t)', Stays(t)')
    BY <1>2, <2>1, <2>2
  <2> QED BY <1>1, <1>2, <2>3 DEF SlotFits
<1>3. CASE ~ InUse(t)
  BY <1>1, <1>3 DEF SlotFits
<1> QED BY <1>2, <1>3

(* Two slots in use never share a control block. *)
LEMMA OwnBlock ==
  ASSUME TcpInv, NEW s \in Slot, InUse(s), NEW t \in Slot, t # s
  PROVE  clients[t].pcb # clients[s].pcb
BY DEF TcpInv, InUse

(* What a shell has answered fits, then so does the slot. *)
LEMMA HearFits ==
  ASSUME shells \in [Slot -> Shells], due = Idle, NEW s \in Slot, NEW r \in Answers, Hear(s, r),
         InUse(s)',
         Fits(r.shell, net'[clients'[s].pcb].said, peers'[clients'[s].pcb], r.says, r.stays)
  PROVE  /\ SlotFits(s)' /\ DueFits'
         /\ \A t \in Slot : t # s => /\ shells'[t] = shells[t]
                                     /\ Says(t)' = Says(t) /\ (Stays(t)' <=> Stays(t))
<1>1. /\ shells' = [shells EXCEPT ![s] = r.shell]
      /\ due' = IF r.says = <<>> /\ r.stays THEN Idle
                ELSE [slot |-> s, says |-> r.says, stays |-> r.stays]
  BY DEF Hear
<1>2. shells'[s] = r.shell /\ \A t \in Slot : t # s => shells'[t] = shells[t]
  BY <1>1
<1>3. due'.slot = -1 \/ due'.slot = s
  BY <1>1 DEF Idle
<1>4. \A t \in Slot : t # -1
  BY EspTCPConstantsOK
<1>5. \A t \in Slot : t # s => Says(t)' = Says(t) /\ (Stays(t)' <=> Stays(t))
  <2>1. due.slot = -1
    BY DEF Idle
  <2> QED BY <1>3, <1>4, <2>1 DEF Says, Stays
<1>6. r.stays \in BOOLEAN
  BY DEF Answers
<1>7. Says(s)' = r.says /\ Stays(s)' = r.stays /\ DueFits'
  <2>1. CASE r.says = <<>> /\ r.stays
    <3>1. due' = Idle /\ due'.slot = -1
      BY <1>1, <2>1 DEF Idle
    <3>2. Says(s)' = <<>> /\ Stays(s)' = TRUE
      BY <1>4, <3>1 DEF Says, Stays
    <3> QED BY <1>6, <2>1, <3>1, <3>2 DEF DueFits
  <2>2. CASE ~ (r.says = <<>> /\ r.stays)
    <3>1. due'.slot = s /\ due'.says = r.says /\ due'.stays = r.stays
      BY <1>1, <2>2
    <3> QED BY <1>6, <2>2, <3>1 DEF Says, Stays, DueFits
  <2> QED BY <2>1, <2>2
<1>8. SlotFits(s)'
  <2>1. Fits(shells'[s], net'[clients'[s].pcb].said, peers'[clients'[s].pcb], Says(s)', Stays(s)')
    BY <1>2, <1>7
  <2> QED BY <2>1 DEF SlotFits
<1> QED BY <1>2, <1>5, <1>7, <1>8

(* Whoever has got the end of an answer has a shell that has ended. *)
LEMMA EndedWhenSaid ==
  ASSUME NEW sh \in Shells, NEW said \in Seq(Token), NEW pr \in Peers, NEW stays,
         Fits(sh, said, pr, <<>>, stays), pr.inbound = <<>>,
         Kind(said, "prompt") \/ Kind(said, "eot")
  PROVE  Ended(sh, said, pr, <<>>)
<1>1. ~ Commanded(sh, said, pr)
  BY AsksAre DEF Commanded
<1>2. ~ Putting(sh, said, pr)
  <2> SUFFICES ASSUME Putting(sh, said, pr) PROVE FALSE
    OBVIOUS
  <2> DEFINE A == pr.asked  L == Len(A)
  <2>1. A \in Seq(Words) /\ L \in Nat
    <3>1. A \in Seq(Words)
      BY DEF Peers
    <3> QED BY <3>1, LenProperties
  <2>2. PICK j \in 1 .. L - 1 : pr.inbound = SubSeq(A, j + 1, L)
    BY DEF Putting
  <2> HIDE DEF A, L
  <2>3. j + 1 \in 1 .. L + 1 /\ L \in 0 .. L /\ j + 1 <= L /\ L - (j + 1) + 1 # 0
    BY <2>1
  <2>4. Len(SubSeq(A, j + 1, L)) = IF j + 1 <= L THEN L - (j + 1) + 1 ELSE 0
    BY <2>1, <2>3, PartIs DEF L
  <2>5. Len(pr.inbound) # 0
    BY <2>2, <2>3, <2>4
  <2> QED BY <2>5
<1>3. Mentions(said, <<>>, "prompt") \/ Mentions(said, <<>>, "eot")
  BY NoMessage
<1> QED BY <1>1, <1>2, <1>3 DEF Fits, Answering, Listing, Getting

(* What the slot's shell says, when nothing is due. *)
LEMMA SilentFits ==
  ASSUME AnswerInv, due = Idle, NEW s \in Slot, InUse(s)
  PROVE  Fits(shells[s], net[clients[s].pcb].said, peers[clients[s].pcb], <<>>, TRUE)
<1>1. due.slot # s
  BY EspTCPConstantsOK DEF Idle
<1>2. Says(s) = <<>> /\ Stays(s) = TRUE
  BY <1>1 DEF Says, Stays
<1> QED BY <1>2 DEF AnswerInv, SlotFits

-----------------------------------------------------------------------------
(* The steps preserve it. *)
LEMMA SayAnswers ==
  ASSUME ServerInv, AnswerInv, Steady, Say
  PROVE  AnswerInv'
<1>0. PICK s \in Slot : s = due.slot
  BY DEF Say, ServerInv
<1>1. s = due.slot /\ InUse(s) /\ due \in Dues
  BY <1>0 DEF Say, ServerInv
<1> DEFINE p == clients[s].pcb  sh == shells[s]  said == net[p].said  pr == peers[p]
           says == due.says  stays == due.stays
<1>2. says \in Seq(Messages) /\ stays \in BOOLEAN /\ sh \in Shells /\ p \in Pcb /\ pr \in Peers
      /\ said \in Seq(Token)
  BY <1>1, PcbInUse DEF Dues, ServerInv, TcpInv, Block
<1>3. says # <<>> \/ ~ stays
  BY DEF Say, AnswerInv, DueFits
<1>4. Says(s) = says /\ Stays(s) = stays
  BY <1>1, <1>2 DEF Says, Stays
<1>5. Answering(sh, said, pr, says, stays)
  <2>1. Fits(sh, said, pr, Says(s), Stays(s))
    BY <1>1 DEF AnswerInv, SlotFits
  <2>2. Fits(sh, said, pr, says, stays)
    BY <1>4, <2>1
  <2> HIDE DEF sh, said, pr, says, stays
  <2> QED BY <1>3, <2>2 DEF Fits
<1>6. \A t \in Slot : t # s => clients[t].pcb # p
  BY <1>1, OwnBlock DEF ServerInv
<1>7. \A t \in Slot : t # -1
  BY EspTCPConstantsOK
<1>8. CASE says # <<>>
  <2> DEFINE m == Head(says)
  <2>1. m \in Messages /\ m \in Seq(Token)
    BY <1>2, <1>8, HeadTailProperties DEF Messages
  <2>2. /\ Send(s, m) /\ UNCHANGED <<shells, peers>>
        /\ due' = IF stays /\ Len(says) = 1 THEN Idle ELSE [due EXCEPT !.says = Tail(@)]
    BY <1>1, <1>8 DEF Say
  <2> HIDE DEF m
  <2>3. /\ \A t \in Slot : clients'[t].pcb = clients[t].pcb
        /\ net'[p].said = said \o m
        /\ \A q \in Pcb : q # p => net'[q] = net[q]
    BY <1>1, <2>1, <2>2, SendDoes DEF ServerInv
  <2>4. Answering(sh, said \o m, pr, Tail(says), stays)
    <3> HIDE DEF sh, said, pr, says, stays
    <3> QED BY <1>2, <1>5, <1>8, SayFits DEF m
  <2>5. Tail(says) \in Seq(Messages) /\ Len(Tail(says)) = Len(says) - 1 /\ Len(says) \in Nat
        /\ Len(says) > 0
    BY <1>2, <1>8, HeadTailProperties, LenProperties, EmptySeq
  <2>6. Says(s)' = Tail(says) /\ Stays(s)' = stays /\ DueFits'
    <3>1. CASE stays /\ Len(says) = 1
      <4>1. due' = Idle /\ due'.slot = -1
        BY <2>2, <3>1 DEF Idle
      <4>2. Tail(says) = <<>>
        <5>1. Len(Tail(says)) = 0
          BY <2>5, <3>1
        <5> QED BY <2>5, <5>1, EmptySeq
      <4>3. Says(s)' = <<>> /\ Stays(s)' = TRUE
        BY <1>7, <4>1 DEF Says, Stays
      <4> QED BY <1>2, <3>1, <4>1, <4>2, <4>3 DEF DueFits
    <3>2. CASE ~ (stays /\ Len(says) = 1)
      <4>1. due'.slot = s /\ due'.says = Tail(says) /\ due'.stays = stays
        BY <1>1, <2>2, <3>2 DEF Dues
      <4>2. Tail(says) = <<>> => Len(says) = 1
        <5> DEFINE rest == Tail(says)
        <5>1. Len(rest) = Len(says) - 1 /\ Len(says) \in Nat
          BY <2>5
        <5> HIDE DEF rest
        <5>2. rest = <<>> => Len(rest) = 0
          OBVIOUS
        <5> QED BY <5>1, <5>2 DEF rest
      <4> QED BY <1>2, <3>2, <4>1, <4>2 DEF Says, Stays, DueFits
    <3> QED BY <3>1, <3>2
  <2>7. SlotFits(s)'
    <3>1. InUse(s)' /\ clients'[s].pcb = p /\ shells'[s] = sh /\ peers'[p] = pr
      <4>1. shells' = shells /\ peers' = peers
        BY <2>2
      <4>2. clients'[s].pcb = p
        BY <2>3
      <4>3. InUse(s)'
        BY <1>1, <4>2 DEF InUse
      <4> QED BY <4>1, <4>2, <4>3
    <3>2. Fits(sh, said \o m, pr, Tail(says), stays)
      BY <2>4 DEF Fits
    <3>3. Fits(shells'[s], net'[clients'[s].pcb].said, peers'[clients'[s].pcb], Says(s)', Stays(s)')
      BY <2>3, <2>6, <3>1, <3>2
    <3> QED BY <3>1, <3>3 DEF SlotFits
  <2>8. ASSUME NEW t \in Slot, t # s PROVE SlotFits(t)'
    <3>1. due'.slot = -1 \/ due'.slot = s
      BY <1>1, <2>2 DEF Idle, Dues
    <3>2. Says(t)' = Says(t) /\ (Stays(t)' <=> Stays(t))
      BY <1>1, <1>7, <2>8, <3>1 DEF Says, Stays
    <3>3. InUse(t) => net'[clients[t].pcb].said = net[clients[t].pcb].said
      BY <1>6, <2>3, <2>8, PcbInUse DEF ServerInv
    <3> QED BY <2>2, <2>3, <3>2, <3>3, OtherSlots DEF AnswerInv
  <2> QED BY <2>6, <2>7, <2>8 DEF AnswerInv
<1>9. CASE says = <<>>
  <2>1. /\ Disconnect(s) /\ due' = Idle /\ UNCHANGED peers
        /\ shells' = [shells EXCEPT ![s] = SendComplete(@, FALSE).shell]
    BY <1>1, <1>9 DEF Say
  <2>2. Close(s, "free")
    BY <1>1, <2>1 DEF Disconnect
  <2>3. /\ ~ InUse(s)'
        /\ \A t \in Slot : t # s => clients'[t] = clients[t]
        /\ \A q \in Pcb : q # p => net'[q] = net[q]
    BY <1>1, <2>2, CloseDoes DEF ServerInv
  <2>5. /\ shells'[s] = SendComplete(sh, FALSE).shell
        /\ \A t \in Slot : t # s => shells'[t] = shells[t]
    BY <2>1 DEF ServerInv
  <2>6. SlotFits(s)'
    BY <2>3 DEF SlotFits
  <2>7. ASSUME NEW t \in Slot, t # s PROVE SlotFits(t)'
    <3>1. due'.slot = -1
      BY <2>1 DEF Idle
    <3>2. Says(t)' = Says(t) /\ (Stays(t)' <=> Stays(t))
      BY <1>1, <1>7, <2>7, <3>1 DEF Says, Stays
    <3>3. InUse(t) => net'[clients[t].pcb].said = net[clients[t].pcb].said
      BY <1>6, <2>3, <2>7, PcbInUse DEF ServerInv
    <3> QED BY <2>1, <2>3, <2>5, <2>7, <3>2, <3>3, OtherSlots DEF AnswerInv
  <2>8. DueFits'
    BY <2>1 DEF DueFits
  <2> QED BY <2>6, <2>7, <2>8 DEF AnswerInv
<1> QED BY <1>8, <1>9

LEMMA ConnectAnswers ==
  ASSUME ServerInv, AnswerInv, Steady, NEW p \in Pcb, Connect(p)
  PROVE  AnswerInv'
<1>1. PICK s \in Slot :
        LET old == shells[s] IN
          /\ Accept(p, s)
          /\ Hear(s, [Connected EXCEPT !.shell.lost =
               old.lost \cup Undeleted(old.file, "left") \cup Undeleted(old.dir, "left")])
  BY DEF Connect
<1>2. due = Idle /\ peers' = [peers EXCEPT ![p] = Silent]
  BY DEF Connect
<1>3. /\ ~ InUse(s) /\ clients'[s].pcb = p
      /\ \A t \in Slot : t # s => clients'[t] = clients[t] /\ clients[t].pcb # p
      /\ net'[p].said = <<>>
      /\ \A q \in Pcb : q # p => net'[q] = net[q]
  BY <1>1, AcceptDoes DEF ServerInv
<1> DEFINE b == shells[s].lost \cup Undeleted(shells[s].file, "left")
                              \cup Undeleted(shells[s].dir, "left")
           r == [Connected EXCEPT !.shell.lost = b]
<1>4. Hear(s, r)
  BY <1>1
<1>5. b \in SUBSET Losses
  BY UndeletedIs DEF ServerInv, Shells, Losses
<1>6. r \in Answers
  <2> HIDE DEF b
  <2> QED BY <1>5, ConnectedIs
<1>7. r.shell.state = "NeedPrompt" /\ r.says = <<Welcome>> /\ r.stays = TRUE
  <2> HIDE DEF b
  <2> DEFINE x == [NewShell EXCEPT !.state = "NeedPrompt"]
  <2>1. Connected = Result(x, <<Welcome>>)
    BY DEF Connected, SendComplete, NewShell
  <2>2. /\ Connected.shell = x /\ Connected.says = <<Welcome>> /\ Connected.stays = TRUE
        /\ DOMAIN Connected = {"shell", "says", "stays"}
    BY <2>1 DEF Result
  <2>3. r.shell = [x EXCEPT !.lost = b] /\ r.says = <<Welcome>> /\ r.stays = TRUE
    <3> HIDE DEF x
    <3> QED BY <2>2
  <2>4. [x EXCEPT !.lost = b].state = "NeedPrompt"
    BY DEF NewShell
  <2> HIDE DEF x, r
  <2> QED BY <2>3, <2>4
<1> HIDE DEF r
<1>8. Fits(r.shell, <<>>, Silent, r.says, r.stays)
  <2> DEFINE x == r.shell  says == r.says
  <2>1. ~ Prompts(<<>>, says)
    <3>1. Welcome[Len(Welcome)].kind = "welcome"
      BY DEF Welcome, Tok
    <3>2. says[Len(says)] = Welcome /\ says # <<>>
      BY <1>7
    <3> HIDE DEF says
    <3> QED BY <3>1, <3>2 DEF Prompts
  <2>2. Silent.inbound = <<>> /\ Silent.asked # <<>> /\ Silent.asked[1].kind = "nl"
    BY DEF Silent, Tok
  <2> HIDE DEF x, says
  <2>3. Ended(x, <<>>, Silent, says)
    BY <1>7, <2>1, <2>2 DEF Ended, x
  <2>4. Answering(x, <<>>, Silent, says, r.stays)
    BY <2>2, <2>3 DEF Answering
  <2> QED BY <2>4 DEF Fits, x, says
<1>9. InUse(s)'
  BY <1>3, EspTCPConstantsOK DEF InUse
<1>10. peers'[p] = Silent /\ \A q \in Pcb : q # p => peers'[q] = peers[q]
  BY <1>2 DEF ServerInv
<1>11. Fits(r.shell, net'[clients'[s].pcb].said, peers'[clients'[s].pcb], r.says, r.stays)
  BY <1>3, <1>8, <1>10
<1>12. /\ SlotFits(s)' /\ DueFits'
       /\ \A t \in Slot : t # s => /\ shells'[t] = shells[t]
                                   /\ Says(t)' = Says(t) /\ (Stays(t)' <=> Stays(t))
  BY <1>2, <1>4, <1>6, <1>9, <1>11, HearFits DEF ServerInv
<1>13. ASSUME NEW t \in Slot, t # s PROVE SlotFits(t)'
  <2>1. clients'[t].pcb = clients[t].pcb
    BY <1>3, <1>13
  <2>2. InUse(t) => clients[t].pcb \in Pcb /\ clients[t].pcb # p
    BY <1>3, <1>13, PcbInUse DEF ServerInv
  <2> QED BY <1>3, <1>10, <1>12, <1>13, <2>1, <2>2, OtherSlots DEF AnswerInv
<1> QED BY <1>12, <1>13 DEF AnswerInv

LEMMA AckAnswers ==
  ASSUME ServerInv, AnswerInv, Steady, Careless = {}, NEW p \in Pcb, Ack(p)
  PROVE  AnswerInv'
<1>1. PICK n \in 1 .. net[p].unacked : Sent(p, n)
  BY DEF Ack
<1>2. /\ net[p].link = "open" \/ findConnection(p) = -1
      /\ \A t \in Slot : clients'[t].pcb = clients[t].pcb
      /\ \A q \in Pcb : net'[q].said = net[q].said
  BY <1>1, SentDoes DEF ServerInv
<1>3. due = Idle /\ peers' = peers
  BY DEF Ack
<1>4. \A t \in Slot : InUse(t) => clients[t].pcb \in Pcb
  BY PcbInUse DEF ServerInv
<1>5. CASE findConnection(p) = -1
  <2>1. shells' = shells /\ due' = due
    BY <1>5 DEF Ack
  <2>2. ASSUME NEW t \in Slot PROVE SlotFits(t)'
    <3>1. Says(t)' = Says(t) /\ (Stays(t)' <=> Stays(t))
      BY <2>1 DEF Says, Stays
    <3> QED BY <1>2, <1>3, <1>4, <2>1, <2>2, <3>1, OtherSlots DEF AnswerInv
  <2>3. DueFits'
    BY <2>1 DEF DueFits, AnswerInv
  <2> QED BY <2>2, <2>3 DEF AnswerInv
<1>6. CASE net[p].link = "open"
  <2>0. PICK s \in Slot : s = findConnection(p)
    BY <1>6, Found DEF ServerInv
  <2>1. s = findConnection(p) /\ InUse(s) /\ ~ (s < 0) /\ clients[s].pcb = p
    BY <1>6, <2>0, Found, EspTCPConstantsOK DEF ServerInv
  <2>2. PICK fails \in MayFail(shells[s]) : Hear(s, SendComplete(shells[s], fails))
    BY <2>1 DEF Ack
  <2> DEFINE sh == shells[s]  said == net[p].said  pr == peers[p]
             r == SendComplete(sh, fails)
  <2>3. sh \in Shells /\ pr \in Peers /\ said \in Seq(Token) /\ fails \in BOOLEAN
    BY <2>1, <2>2 DEF ServerInv, TcpInv, Block, MayFail
  <2>4. Fits(sh, said, pr, <<>>, TRUE)
    BY <1>3, <2>1, SilentFits
  <2>5. r \in Answers
    BY <2>3, SendCompleteTypes
  <2>6. Hear(s, r) /\ fails \in MayFail(sh)
    BY <2>2
  <2>7. clients'[s].pcb = p /\ net'[p].said = said /\ peers'[p] = pr /\ InUse(s)'
    <3>1. clients'[s].pcb = p /\ net'[p].said = said /\ peers'[p] = pr
      BY <1>2, <1>3, <2>1
    <3> QED BY <2>1, <3>1 DEF InUse
  <2>8. Fits(r.shell, said, pr, r.says, r.stays)
    <3> HIDE DEF sh, said, pr
    <3>1. CASE Answering(sh, said, pr, <<>>, TRUE)
      BY <2>3, <2>6, <3>1, AnswerGoesOn DEF Fits
    <3>2. CASE Commanded(sh, said, pr) \/ Putting(sh, said, pr)
      <4>1. sh.state \in {"ShowingPrompt", "PutFile"}
        BY <3>2 DEF Commanded, Putting
      <4>2. r.shell = sh /\ r.says = <<>> /\ r.stays = TRUE
        BY <4>1 DEF SendComplete, Result
      <4> QED BY <2>4, <4>2
    <3> QED BY <2>4, <3>1, <3>2 DEF Fits
  <2> HIDE DEF r
  <2>9. Fits(r.shell, net'[clients'[s].pcb].said, peers'[clients'[s].pcb], r.says, r.stays)
    BY <2>7, <2>8
  <2>10. /\ SlotFits(s)' /\ DueFits'
         /\ \A t \in Slot : t # s => /\ shells'[t] = shells[t]
                                     /\ Says(t)' = Says(t) /\ (Stays(t)' <=> Stays(t))
    BY <1>3, <2>5, <2>6, <2>7, <2>9, HearFits DEF ServerInv
  <2>11. ASSUME NEW t \in Slot, t # s PROVE SlotFits(t)'
    BY <1>2, <1>3, <1>4, <2>10, <2>11, OtherSlots DEF AnswerInv
  <2> QED BY <2>10, <2>11 DEF AnswerInv
<1> QED BY <1>2, <1>5, <1>6

LEMMA LeaveAnswers ==
  ASSUME ServerInv, AnswerInv, Steady, NEW p \in Pcb, Leave(p)
  PROVE  AnswerInv'
<1>1. PeerCloses(p) /\ due = Idle /\ due' = due /\ peers' = [peers EXCEPT ![p] = Silent]
  BY DEF Leave
<1>2. net[p].link = "open"
  BY <1>1 DEF PeerCloses
<1>0. PICK s \in Slot : s = findConnection(p)
  BY <1>2, Found DEF ServerInv
<1>3. s = findConnection(p) /\ InUse(s) /\ clients[s].pcb = p
  BY <1>0, <1>2, Found DEF ServerInv
<1>4. /\ Close(s, "closed")
      /\ shells' = [shells EXCEPT ![s] = SendComplete(@, FALSE).shell]
  BY <1>1, <1>3 DEF PeerCloses, Leave
<1>5. /\ ~ InUse(s)'
      /\ \A t \in Slot : t # s => clients'[t] = clients[t]
      /\ \A q \in Pcb : q # p => net'[q] = net[q]
  BY <1>3, <1>4, CloseDoes DEF ServerInv
<1>6. \A t \in Slot : t # s => shells'[t] = shells[t]
  BY <1>4 DEF ServerInv
<1>7. SlotFits(s)'
  BY <1>5 DEF SlotFits
<1>8. ASSUME NEW t \in Slot, t # s PROVE SlotFits(t)'
  <2>1. Says(t)' = Says(t) /\ (Stays(t)' <=> Stays(t))
    BY <1>1 DEF Says, Stays
  <2>2. InUse(t) => clients[t].pcb \in Pcb /\ clients[t].pcb # p
    BY <1>3, <1>8, PcbInUse, OwnBlock DEF ServerInv
  <2>3. \A q \in Pcb : q # p => peers'[q] = peers[q]
    BY <1>1 DEF ServerInv
  <2> QED BY <1>5, <1>6, <1>8, <2>1, <2>2, <2>3, OtherSlots DEF AnswerInv
<1>9. DueFits'
  BY <1>1 DEF DueFits
<1> QED BY <1>7, <1>8, <1>9 DEF AnswerInv

LEMMA LwipAnswers ==
  ASSUME ServerInv, AnswerInv, Steady, NEW p \in Pcb, Lwip(p)
  PROVE  AnswerInv'
<1>1. due = Idle /\ shells' = shells /\ peers' = peers /\ due' = due
  BY DEF Lwip
<1>2. /\ clients' = clients
      /\ \A q \in Pcb : net[q].link = "open" => net'[q] = net[q]
  BY DEF Lwip, Abort, Release, Reset, Steady, tcpVars, ServerInv, TcpInv
<1>3. ASSUME NEW t \in Slot PROVE SlotFits(t)'
  <2>1. Says(t)' = Says(t) /\ (Stays(t)' <=> Stays(t))
    BY <1>1 DEF Says, Stays
  <2>2. InUse(t) => clients[t].pcb \in Pcb /\ net[clients[t].pcb].link = "open"
    BY PcbInUse DEF ServerInv, TcpInv, Good
  <2> QED BY <1>1, <1>2, <2>1, <2>2, OtherSlots DEF AnswerInv
<1>4. DueFits'
  BY <1>1 DEF DueFits, AnswerInv
<1> QED BY <1>3, <1>4 DEF AnswerInv

LEMMA AskAnswers ==
  ASSUME ServerInv, AnswerInv, Steady, Careless = {}, NEW p \in Pcb, Ask(p)
  PROVE  AnswerInv'
<1>1. /\ due = Idle /\ due' = due /\ shells' = shells
      /\ net[p].link = "open" /\ peers[p].inbound = <<>> /\ Prompted(p) /\ net[p].unacked = 0
  BY DEF Ask
<1>0. PICK s \in Slot : s = findConnection(p)
  BY <1>1, Found DEF ServerInv
<1>2. s = findConnection(p) /\ InUse(s) /\ clients[s].pcb = p
  BY <1>0, <1>1, Found DEF ServerInv
<1> DEFINE sh == shells[s]  said == net[p].said  pr == peers[p]
<1>3. PICK line \in Asks(sh.binary) :
        /\ peers' = [peers EXCEPT ![p] = [inbound |-> line, asked |-> line]]
        /\ IF line = <<Tok("nl")>> THEN UNCHANGED tcpVars ELSE Read(p)
  BY <1>2 DEF Ask
<1>4. sh \in Shells /\ pr \in Peers /\ said \in Seq(Token)
  BY <1>2 DEF ServerInv, TcpInv, Block
<1>5. said = net[p].wire /\ net[p].wire \in Seq(Token)
  <2>1. /\ said = net[p].wire \o clients[s].buffer /\ net[p].wire \in Seq(Token)
        /\ clients[s].buffer # <<>> => net[p].unacked > 0
    BY <1>2 DEF ServerInv, TcpInv, Good, Block
  <2>2. clients[s].buffer = <<>>
    BY <1>1, <2>1
  <2>3. net[p].wire \o <<>> = net[p].wire
    BY <2>1, ConcatEmptySeq
  <2> QED BY <2>1, <2>2, <2>3
<1>6. said # <<>> /\ said[Len(said)].kind = "prompt" /\ Kind(said, "prompt")
  <2>1. said # <<>> /\ said[Len(said)].kind = "prompt"
    BY <1>1, <1>5 DEF Prompted
  <2> HIDE DEF said
  <2>2. Len(said) \in DOMAIN said
    <3>1. Len(said) \in Nat /\ Len(said) > 0 /\ DOMAIN said = 1 .. Len(said)
      BY <1>4, <2>1, LenProperties, EmptySeq
    <3> QED BY <3>1
  <2> QED BY <2>1, <2>2 DEF Kind
<1>7. sh.state = "ShowingPrompt"
  <2>1. Fits(sh, said, pr, <<>>, TRUE) /\ pr.inbound = <<>>
    BY <1>1, <1>2, SilentFits
  <2> HIDE DEF sh, said, pr
  <2>2. Ended(sh, said, pr, <<>>)
    BY <1>4, <1>6, <2>1, EndedWhenSaid
  <2>3. Prompts(said, <<>>)
    BY <1>6 DEF Prompts
  <2> QED BY <2>2, <2>3 DEF Ended
<1> DEFINE ask == [inbound |-> line, asked |-> line]
<1>8. clients' = clients /\ \A q \in Pcb : q # p => net'[q] = net[q]
  BY <1>3, ReadDoes DEF tcpVars, ServerInv
<1>9. line = <<Tok("nl")>> \/ net'[p].said = <<>>
  <2> SUFFICES ASSUME line # <<Tok("nl")>> PROVE net'[p].said = <<>>
    OBVIOUS
  <2>1. net'[p].said = SubSeq(said, Len(said) + 1, Len(said))
    BY <1>3, <1>5, ReadDoes DEF ServerInv
  <2>2. Len(said) \in Nat
    BY <1>4, LenProperties
  <2>3. Len(said) < Len(said) + 1 /\ Len(said) \in Int /\ Len(said) + 1 \in Int
    BY <2>2
  <2> QED BY <2>1, <2>3, SubSeqEmpty
<1>10. peers'[p] = ask /\ \A q \in Pcb : q # p => peers'[q] = peers[q]
  BY <1>3 DEF ServerInv
<1>11. Commanded(sh, net'[p].said, ask)
  BY <1>3, <1>7, <1>9 DEF Commanded
<1>12. \A t \in Slot : Says(t)' = Says(t) /\ (Stays(t)' <=> Stays(t))
  BY <1>1 DEF Says, Stays
<1>13. SlotFits(s)'
  <2>1. due.slot # s
    BY <1>1, EspTCPConstantsOK DEF Idle
  <2>2. Says(s)' = <<>> /\ Stays(s)' = TRUE
    BY <1>1, <2>1 DEF Says, Stays
  <2>3. clients'[s].pcb = p /\ shells'[s] = sh /\ InUse(s)'
    BY <1>1, <1>2, <1>8 DEF InUse
  <2> HIDE DEF ask, sh
  <2>4. Fits(sh, net'[p].said, ask, <<>>, TRUE)
    BY <1>11 DEF Fits
  <2>5. Fits(shells'[s], net'[clients'[s].pcb].said, peers'[clients'[s].pcb], Says(s)', Stays(s)')
    BY <1>10, <2>2, <2>3, <2>4
  <2> QED BY <2>3, <2>5 DEF SlotFits
<1>14. ASSUME NEW t \in Slot, t # s PROVE SlotFits(t)'
  <2>1. InUse(t) => clients[t].pcb \in Pcb /\ clients[t].pcb # p
    BY <1>2, <1>14, PcbInUse, OwnBlock DEF ServerInv
  <2> QED BY <1>1, <1>8, <1>10, <1>12, <1>14, <2>1, OtherSlots DEF AnswerInv
<1>15. DueFits'
  BY <1>1 DEF DueFits
<1> QED BY <1>13, <1>14, <1>15 DEF AnswerInv

LEMMA ReceiveAnswers ==
  ASSUME ServerInv, AnswerInv, Steady, Careless = {}, NEW p \in Pcb, Receive(p)
  PROVE  AnswerInv'
<1>1. due = Idle /\ net[p].link = "open" /\ clients' = clients /\ net' = net
  BY DEF Receive, tcpVars
<1>0. PICK s \in Slot : s = findConnection(p)
  BY <1>1, Found DEF ServerInv
<1>2. s = findConnection(p) /\ InUse(s) /\ clients[s].pcb = p
  BY <1>0, <1>1, Found DEF ServerInv
<1> DEFINE sh == shells[s]  said == net[p].said  pr == peers[p]  q == pr.inbound
<1>3. PICK k \in 1 .. Len(q), fails \in MayFail(sh) :
        /\ Segment(q, k, sh.binary)
        /\ Hear(s, Received(sh, SubSeq(q, 1, k), fails))
        /\ peers' = [peers EXCEPT ![p].inbound = SubSeq(q, k + 1, Len(q))]
  BY <1>2 DEF Receive
<1>4. sh \in Shells /\ pr \in Peers /\ said \in Seq(Token) /\ fails \in BOOLEAN
  BY <1>2, <1>3 DEF ServerInv, TcpInv, Block, MayFail
<1>5. Fits(sh, said, pr, <<>>, TRUE)
  BY <1>1, <1>2, SilentFits
<1> DEFINE pr2 == [pr EXCEPT !.inbound = SubSeq(q, k + 1, Len(q))]
           r == Received(sh, SubSeq(q, 1, k), fails)
<1>6. peers'[p] = pr2 /\ \A o \in Pcb : o # p => peers'[o] = peers[o]
  BY <1>3 DEF ServerInv
<1>7. pr2 \in Peers /\ pr2.asked = pr.asked /\ pr2.inbound = SubSeq(q, k + 1, Len(q))
  <2>1. peers' \in [Pcb -> Peers]
    BY ReceiveTypes DEF ServerInv
  <2>2. pr2 \in Peers
    BY <1>6, <2>1
  <2> QED BY <1>4, <2>2 DEF Peers
<1>8. r \in Answers
  <2>1. q \in Seq(Words) /\ Len(q) \in Nat
    BY <1>4, LenProperties DEF Peers
  <2> HIDE DEF q, sh
  <2>2. 1 \in 1 .. Len(q) + 1 /\ k \in 0 .. Len(q) /\ k # 0
    BY <2>1
  <2>3. SubSeq(q, 1, k) \in Seq(Words) /\ Len(SubSeq(q, 1, k)) = k
    BY <2>1, <2>2, PartIs
  <2>4. SubSeq(q, 1, k) # <<>>
    BY <2>2, <2>3, EmptySeq
  <2> QED BY <1>4, <2>3, <2>4, ReceivedTypes
<1>9. Hear(s, r)
  BY <1>3
<1>10. Fits(r.shell, said, pr2, r.says, r.stays)
  <2>1. k \in 1 .. Len(pr.inbound) /\ Segment(pr.inbound, k, sh.binary)
        /\ fails \in MayFail(sh) /\ pr2.inbound = SubSeq(pr.inbound, k + 1, Len(pr.inbound))
        /\ r = Received(sh, SubSeq(pr.inbound, 1, k), fails)
    BY <1>3, <1>7
  <2> HIDE DEF q, sh, pr, pr2, said, r
  <2> QED BY <1>4, <1>5, <1>7, <2>1, ReceiveFits
<1> HIDE DEF r, pr2
<1>11. clients'[s].pcb = p /\ net'[p].said = said /\ InUse(s)'
  BY <1>1, <1>2 DEF InUse
<1>12. Fits(r.shell, net'[clients'[s].pcb].said, peers'[clients'[s].pcb], r.says, r.stays)
  BY <1>6, <1>10, <1>11
<1>13. /\ SlotFits(s)' /\ DueFits'
       /\ \A t \in Slot : t # s => /\ shells'[t] = shells[t]
                                   /\ Says(t)' = Says(t) /\ (Stays(t)' <=> Stays(t))
  BY <1>1, <1>8, <1>9, <1>11, <1>12, HearFits DEF ServerInv
<1>14. ASSUME NEW t \in Slot, t # s PROVE SlotFits(t)'
  <2>1. InUse(t) => clients[t].pcb \in Pcb /\ clients[t].pcb # p
    BY <1>2, <1>14, PcbInUse, OwnBlock DEF ServerInv
  <2> QED BY <1>1, <1>6, <1>13, <1>14, <2>1, OtherSlots DEF AnswerInv
<1> QED BY <1>13, <1>14 DEF AnswerInv

LEMMA AnswerInitial == ServerInit => AnswerInv
<1> SUFFICES ASSUME ServerInit PROVE AnswerInv
  OBVIOUS
<1>1. \A s \in Slot : ~ InUse(s)
  BY DEF ServerInit, TcpInit, InUse
<1>2. due = Idle
  BY DEF ServerInit
<1> QED BY <1>1, <1>2 DEF AnswerInv, SlotFits, DueFits

LEMMA AnswerStep ==
  ASSUME Steady, Careless = {}, ServerInv, AnswerInv, [ServerNext]_vars
  PROVE  AnswerInv'
<1>1. CASE UNCHANGED vars
  BY <1>1 DEF vars, tcpVars, AnswerInv, SlotFits, DueFits, InUse, Says, Stays
<1>2. CASE Say
  BY <1>2, SayAnswers
<1>3. ASSUME NEW p \in Pcb,
             Connect(p) \/ Ack(p) \/ Leave(p) \/ Lwip(p) \/ Ask(p) \/ Receive(p)
      PROVE  AnswerInv'
  BY <1>3, ConnectAnswers, AckAnswers, LeaveAnswers, LwipAnswers, AskAnswers, ReceiveAnswers
<1> QED BY <1>1, <1>2, <1>3 DEF ServerNext

(* What has gone out already delivers what all of it does, once it has the token
   that ends the answer. *)
LEMMA PrefixDelivers ==
  ASSUME NEW x \in Seq(Token), NEW y \in Seq(Token), NEW d \in Nat, Delivers(x \o y, d),
         NEW k, Kind(x, k), k # "data"
  PROVE  Delivers(x, d)
<1>1. /\ Len(x \o y) = Len(x) + Len(y) /\ Len(x) \in Nat /\ Len(y) \in Nat
      /\ \A i \in 1 .. Len(x) + Len(y) : (x \o y)[i] = IF i <= Len(x) THEN x[i] ELSE y[i - Len(x)]
      /\ DOMAIN x = 1 .. Len(x)
  BY ConcatProperties, LenProperties
<1>2. \A i \in 1 .. Len(x) : i \in 1 .. Len(x \o y) /\ (x \o y)[i] = x[i]
  BY <1>1
<1>3. \A i \in 1 .. Len(x) : IF i <= d THEN x[i] = Data(i) ELSE x[i].kind \notin Carried
  BY <1>2 DEF Delivers
<1>4. PICK i \in 1 .. Len(x) : x[i].kind = k
  BY <1>1 DEF Kind
<1>5. ~ (i <= d)
  <2>1. Data(i).kind = "data"
    BY DEF Data
  <2> QED BY <1>3, <1>4, <2>1
<1>6. d <= Len(x)
  BY <1>1, <1>5
<1> QED BY <1>3, <1>6 DEF Delivers

(* A peer that reads the end of an answer has the whole of it: each piece of any
   file and every entry of any listing, once and in order, whatever the size of
   the buffers of the shell and of lwIP; and what was put without an error is in
   the file. *)
THEOREM AnswersAreWhole ==
  ASSUME Faults \cap {"resets", "writeFails"} = {}, Careless = {}
  PROVE  ServerSpec => []AnswerIsWhole
<1> USE DEF Steady
<1>1. ASSUME ServerInv, AnswerInv, NEW s \in Slot, InUse(s),
             NEW p, p = clients[s].pcb, NEW wire, wire = net[p].wire,
             NEW asked, asked = peers[p].asked[1]
      PROVE  /\ asked.kind = "get" /\ Exists(asked) /\ Kind(wire, "eot") =>
                  OfKind(wire, Carried) = Pieces(0, asked.n)
             /\ asked.kind = "ls" /\ Kind(wire, "prompt") =>
                  OfKind(wire, Carried) = Pieces(0, asked.n)
             /\ /\ asked.kind = "put" /\ Exists(asked)
                /\ Kind(wire, "prompt") /\ ~ Kind(wire, "error")
                => shells[s].saved = OfKind(peers[p].asked, DataKinds)
  <2> DEFINE sh == shells[s]  said == net[p].said  pr == peers[p]
             says == Says(s)  stays == Stays(s)  rest == clients[s].buffer
  <2>1. p \in Pcb /\ pr \in Peers /\ said \in Seq(Token) /\ wire \in Seq(Token)
        /\ rest \in Seq(Token) /\ said = wire \o rest
    BY <1>1, PcbInUse DEF ServerInv, TcpInv, Good, Block, Client
  <2>2. says \in Seq(Messages)
    BY EmptySeq, <1>1 DEF Says, ServerInv, Dues
  <2>3. Fits(sh, said, pr, says, stays)
    BY <1>1 DEF AnswerInv, SlotFits
  <2>0. asked = pr.asked[1]
    BY <1>1
  <2> HIDE DEF sh, said, pr, says, stays, rest
  <2>4. \A k : Kind(wire, k) => Kind(said, k)
    BY <2>1, KindConcat
  <2>5. \A k : Kind(said, k) => Mentions(said, says, k)
    BY DEF Mentions
  <2>6. said = <<>> => \A k : ~ Kind(said, k)
    BY DEF Kind
  <2>7. CASE Commanded(sh, said, pr) \/ Putting(sh, said, pr)
    <3>1. pr.asked = <<Tok("nl")>> \/ said = <<>>
      BY <2>7 DEF Commanded, Putting
    <3>2. pr.asked = <<Tok("nl")>> => asked.kind = "nl"
      BY <2>0 DEF Tok
    <3> QED BY <2>4, <2>6, <3>1, <3>2
  <2>8. CASE Listing(sh, said, pr, says) \/ Getting(sh, said, pr, says)
    <3>1. ~ Mentions(said, says, "prompt") /\ ~ Mentions(said, says, "eot")
      BY <2>8 DEF Listing, Getting
    <3> QED BY <2>4, <2>5, <3>1
  <2>9. CASE pr.asked # <<>> /\ Ended(sh, said, pr, says)
    <3>1. \E y \in Seq(Token) : Text(said, says) = wire \o y
      <4>1. CASE says = <<>>
        BY <2>1, <4>1 DEF Text
      <4>2. CASE says # <<>>
        <5> DEFINE m == says[1]
        <5>1. m \in Seq(Token)
          <6>1. 1 \in 1 .. Len(says)
            BY <2>2, <4>2, LenProperties, EmptySeq
          <6>2. m \in Messages
            BY <2>2, <6>1, ElementOfSeq
          <6> QED BY <6>2 DEF Messages
        <5>2. Text(said, says) = said \o m
          BY <4>2 DEF Text
        <5> HIDE DEF m
        <5>3. wire \o rest \o m = wire \o (rest \o m) /\ rest \o m \in Seq(Token)
          BY <2>1, <5>1, ConcatAssociative, ConcatProperties
        <5> QED BY <2>1, <5>2, <5>3
      <4> QED BY <4>1, <4>2
    <3>2. PICK y \in Seq(Token) : Text(said, says) = wire \o y
      BY <3>1
    <3>3. ASSUME \/ asked.kind = "get" /\ Exists(asked) /\ Kind(wire, "eot")
                 \/ asked.kind = "ls" /\ Kind(wire, "prompt")
          PROVE  OfKind(wire, Carried) = Pieces(0, asked.n)
      <4>1. Mentions(said, says, "eot") \/ asked.kind = "ls"
        BY <2>4, <2>5, <3>3
      <4>2. Delivers(Text(said, says), asked.n)
        BY <2>0, <2>9, <3>3, <4>1 DEF Ended
      <4>3. asked.n \in Nat
        BY <2>0, <2>1, <2>9, <3>3, AskedIs
      <4> DEFINE n == asked.n
      <4>4. n \in Nat /\ Delivers(wire \o y, n)
        BY <3>2, <4>2, <4>3
      <4> HIDE DEF n
      <4>5. Delivers(wire, n)
        BY <2>1, <3>3, <4>4, PrefixDelivers
      <4> QED BY <2>1, <4>4, <4>5, DeliversAll DEF n
    <3>4. ASSUME asked.kind = "put", Exists(asked), Kind(wire, "prompt"), ~ Kind(wire, "error")
          PROVE  sh.saved = OfKind(pr.asked, DataKinds)
      <4>1. DOMAIN wire = 1 .. Len(wire) /\ Len(wire) \in Nat /\ Len(wire) > 0
        <5>1. DOMAIN wire = 1 .. Len(wire) /\ Len(wire) \in Nat
          BY <2>1, LenProperties
        <5> QED BY <3>4, <5>1 DEF Kind
      <4>2. said # <<>> /\ said[1] = wire[1]
        <5>1. /\ Len(said) = Len(wire) + Len(rest) /\ Len(rest) \in Nat
              /\ \A i \in 1 .. Len(wire) + Len(rest) :
                    said[i] = IF i <= Len(wire) THEN wire[i] ELSE rest[i - Len(wire)]
          BY <2>1, ConcatProperties, LenProperties
        <5>2. 1 \in 1 .. Len(wire) + Len(rest) /\ 1 <= Len(wire) /\ Len(said) # 0
          BY <4>1, <5>1
        <5>3. said # <<>>
          BY <5>2
        <5> QED BY <5>1, <5>2, <5>3
      <4>3. ~ Errs(said, says)
        <5>1. 1 \in DOMAIN wire
          BY <4>1
        <5> QED BY <3>4, <4>2, <5>1 DEF Errs, Kind
      <4> QED BY <2>0, <2>9, <3>4, <4>3 DEF Ended
    <3>5. sh = shells[s] /\ pr = peers[p]
      BY DEF sh, pr
    <3>6. asked.kind = "put" /\ Exists(asked) /\ Kind(wire, "prompt") /\ ~ Kind(wire, "error")
          => shells[s].saved = OfKind(peers[p].asked, DataKinds)
      BY <3>4, <3>5
    <3> QED BY <3>3, <3>6
  <2> QED BY <2>3, <2>7, <2>8, <2>9 DEF Fits, Answering
<1>2. ServerInv /\ AnswerInv => AnswerIsWhole
  BY <1>1 DEF AnswerIsWhole, Carried
<1>3. ServerInv /\ AnswerInv /\ [ServerNext]_vars => ServerInv' /\ AnswerInv'
  BY ServerStep, AnswerStep
<1> QED BY <1>2, <1>3, ServerInitial, AnswerInitial, PTL DEF ServerSpec
-----------------------------------------------------------------------------
(* Which files and directories are open: of a shell in the state that uses them;
   and what keeps a shell from being asked, or a line that is too long from being
   received, in the middle of something. *)
Lost == {"file", "dir"}
Waiting == {"ShowingPrompt", "PutFile"}
Shut(sh) ==
  /\ sh.lost \cap Lost = {}
  /\ \/ sh.file \in {None, Bad}
     \/ sh.file.mode = "r" /\ sh.state = "GetFile"
     \/ sh.file.mode = "w" /\ sh.state = "PutFile"
  /\ sh.dir # None => sh.state = "ListFiles"

(* An answer after which the shell goes on, for there is something to send, or
   waits to be asked. *)
Answered(r) ==
  /\ Shut(r.shell)
  /\ r.shell.state \notin Waiting => r.says # <<>> \/ ~ r.stays
  /\ r.shell.state = "PutFile" => r.says = <<>> /\ r.stays

(* The end of a put of one line that is too long, or all of it. *)
LongLine(q) ==
  LET n == Len(q) IN
    /\ n \in {3, 4} /\ (n = 4 => q[1].kind = "put")
    /\ q[n].kind = "eot" /\ q[n - 1].kind = "nl" /\ q[n - 2].kind \in {"long", "huge"}

Inbound(sh, q) ==
  /\ Kind(q, "put") => /\ sh.state = "ShowingPrompt"
                       /\ \A i \in 2 .. Len(q) : q[i].kind # "put"
  /\ Kind(q, "long") \/ Kind(q, "huge") => sh.binary /\ LongLine(q)

FileFits(s) ==
  LET sh == shells[s]
      b == net[clients[s].pcb]
      q == peers[clients[s].pcb].inbound
  IN InUse(s) =>
       /\ Shut(sh) /\ Inbound(sh, q)
       /\ due.slot # s /\ sh.state \notin Waiting => b.unacked > 0
       /\ sh.state = "PutFile" \/ Kind(q, "put") => b.said = <<>> /\ due.slot # s
FileInv == \A s \in Slot : shells[s].lost \cap Lost = {} /\ FileFits(s)

LEMMA SendCompleteShuts ==
  ASSUME NEW sh \in Shells, NEW fails \in BOOLEAN
  PROVE  LET r == SendComplete(sh, fails) IN
           /\ r.shell.lost = sh.lost /\ r.shell.binary = sh.binary
           /\ r.shell.state = "PutFile" <=> sh.state = "PutFile"
           /\ sh.state \in Waiting => r = Result(sh, <<>>)
           /\ Shut(sh) /\ (fails => sh.binary) => Answered(r)
<1> SUFFICES ASSUME NEW r, r = SendComplete(sh, fails)
             PROVE  /\ r.shell.lost = sh.lost /\ r.shell.binary = sh.binary
                    /\ r.shell.state = "PutFile" <=> sh.state = "PutFile"
                    /\ sh.state \in Waiting => r = Result(sh, <<>>)
                    /\ Shut(sh) /\ (fails => sh.binary) => Answered(r)
  OBVIOUS
<1>1. /\ \A x, m : Result(x, <<m>>).says # <<>> /\ Result(x, <<m>>).shell = x
      /\ \A x : Result(x, <<>>).says = <<>> /\ Result(x, <<>>).shell = x /\ Result(x, <<>>).stays
  BY DEF Result
<1>2. None.mode = "none" /\ Bad.mode = "bad"
  BY DEF None, Bad, Opened
<1>3. CASE sh.state = "Init" \/ sh.state = "NeedPrompt"
  <2> DEFINE x == [sh EXCEPT !.state = IF sh.state = "Init" THEN "NeedPrompt" ELSE "ShowingPrompt"]
  <2>1. \E m : r = Result(x, <<m>>)
    BY <1>3 DEF SendComplete, ShowPrompt
  <2>2. /\ x.lost = sh.lost /\ x.binary = sh.binary /\ x.file = sh.file /\ x.dir = sh.dir
        /\ x.state \in {"NeedPrompt", "ShowingPrompt"}
    BY DEF Shells
  <2> HIDE DEF x
  <2>3. r.shell = x /\ r.says # <<>>
    BY <1>1, <2>1
  <2> QED BY <1>3, <2>2, <2>3 DEF Answered, Shut, Waiting
<1>4. CASE sh.state = "ListFiles"
  <2> DEFINE x == [sh EXCEPT !.dir.at = @ + 1]
             y == [[sh EXCEPT !.dir = None] EXCEPT !.state = "ShowingPrompt"]
  <2>1. \E m : r = Result(x, <<m>>) \/ r = Result(y, <<m>>)
    BY <1>4 DEF SendComplete, ShowPrompt
  <2>2. /\ x.lost = sh.lost /\ x.binary = sh.binary /\ x.file = sh.file /\ x.state = "ListFiles"
        /\ y.lost = sh.lost /\ y.binary = sh.binary /\ y.file = sh.file /\ y.dir = None
        /\ y.state = "ShowingPrompt"
    BY <1>4 DEF Shells
  <2> HIDE DEF x, y
  <2>3. (r.shell = x \/ r.shell = y) /\ r.says # <<>>
    BY <1>1, <2>1
  <2> QED BY <1>2, <1>4, <2>2, <2>3 DEF Answered, Shut, Waiting
<1>5. CASE sh.state = "GetFile"
  <2>1. CASE sh.file = None
    <3> DEFINE x == [sh EXCEPT !.state = "NeedPrompt"]
    <3>1. r = Result(x, <<Eot>>)
      BY <1>5, <2>1 DEF SendComplete
    <3>2. /\ x.lost = sh.lost /\ x.binary = sh.binary /\ x.file = sh.file /\ x.dir = sh.dir
          /\ x.state = "NeedPrompt"
      BY DEF Shells
    <3> HIDE DEF x
    <3>3. r.shell = x /\ r.says # <<>>
      BY <1>1, <3>1
    <3> QED BY <1>5, <2>1, <3>2, <3>3 DEF Answered, Shut, Waiting
  <2>2. CASE sh.file # None /\ (fails \/ sh.file = Bad)
    <3> DEFINE f == IF sh.binary THEN None ELSE sh.file
               x == [[sh EXCEPT !.file = f] EXCEPT !.state = "NeedPrompt"]
    <3>0. sh = [sh EXCEPT !.file = sh.file]
      BY DEF Shells
    <3>1. r = Result(x, <<Error>>)
      BY <1>5, <2>2, <3>0 DEF SendComplete, GetPiece, Failed
    <3>2. /\ x.lost = sh.lost /\ x.binary = sh.binary /\ x.file = f /\ x.dir = sh.dir
          /\ x.state = "NeedPrompt"
      BY DEF Shells
    <3>3. (fails => sh.binary) => f \in {None, Bad}
      BY <2>2
    <3> HIDE DEF f, x
    <3>4. r.shell = x /\ r.says # <<>>
      BY <1>1, <3>1
    <3> QED BY <1>5, <3>2, <3>3, <3>4 DEF Answered, Shut, Waiting
  <2>3. CASE sh.file # None /\ ~ (fails \/ sh.file = Bad)
    <3> DEFINE left == sh.file.size - sh.file.at
               k == IF left < BufferSize THEN left ELSE BufferSize
               f == IF k < BufferSize THEN None ELSE [sh.file EXCEPT !.at = @ + k]
               x == [sh EXCEPT !.file = f]
    <3>1. \E m : r = Result(x, <<m>>)
      BY <1>5, <2>3 DEF SendComplete, GetPiece
    <3>2. f = None \/ f.mode = sh.file.mode
      BY DEF Shells, Files
    <3> HIDE DEF f
    <3>3. /\ x.lost = sh.lost /\ x.binary = sh.binary /\ x.file = f /\ x.dir = sh.dir
          /\ x.state = "GetFile"
      BY <1>5 DEF Shells
    <3> HIDE DEF x
    <3>4. r.shell = x /\ r.says # <<>>
      BY <1>1, <3>1
    <3>5. Shut(sh) => sh.file.mode = "r"
      BY <1>5, <2>3 DEF Shut
    <3> QED BY <1>5, <2>3, <3>2, <3>3, <3>4, <3>5 DEF Answered, Shut, Waiting
  <2> QED BY <2>1, <2>2, <2>3
<1>6. CASE sh.state \in Waiting
  <2>1. r = Result(sh, <<>>)
    BY <1>6 DEF SendComplete, Waiting
  <2> QED BY <1>1, <1>6, <2>1 DEF Answered, Waiting
<1>7. sh.state \in {"Init", "NeedPrompt", "ListFiles", "GetFile"} \cup Waiting
  BY DEF Shells, ShellStates, Waiting
<1> QED BY <1>3, <1>4, <1>5, <1>6, <1>7 DEF Waiting

(* A command, carried out by a shell that shows the prompt. *)
LEMMA ExecuteShuts ==
  ASSUME NEW sh \in Shells, Shut(sh), sh.state = "ShowingPrompt", NEW c \in Words,
         NEW fails \in BOOLEAN, fails => sh.binary
  PROVE  LET r == Execute(sh, c, fails) IN
           /\ Answered(r)
           /\ c.kind # "put" => r.shell.state # "PutFile"
           /\ c.kind = "put" => r.shell.binary = sh.binary
<1> SUFFICES ASSUME NEW r, r = Execute(sh, c, fails)
             PROVE  /\ Answered(r)
                    /\ c.kind # "put" => r.shell.state # "PutFile"
                    /\ c.kind = "put" => r.shell.binary = sh.binary
  OBVIOUS
<1>1. /\ \A x, m : Result(x, <<m>>).says # <<>> /\ Result(x, <<m>>).shell = x
      /\ \A x, m, n : Result(x, <<m, n>>).says # <<>> /\ Result(x, <<m, n>>).shell = x
      /\ \A x : /\ Result(x, <<>>).says = <<>> /\ Result(x, <<>>).shell = x
                /\ Result(x, <<>>).stays
  BY DEF Result
<1>2. sh.file \in {None, Bad} /\ sh.dir = None /\ sh.lost \cap Lost = {}
  BY DEF Shut
<1>3. Undeleted(sh.file, "file") \subseteq {"bad"} /\ Undeleted(sh.dir, "dir") = {}
  BY <1>2 DEF Undeleted
<1>4. CASE c.kind = "nl"
  <2>1. r = Result(sh, <<>>)
    BY <1>4 DEF Execute
  <2> QED BY <1>1, <1>4, <2>1 DEF Answered, Waiting
<1>5. CASE c.kind = "quit"
  <2>1. r.shell = sh /\ r.stays = FALSE
    BY <1>5 DEF Execute, Result
  <2> QED BY <1>5, <2>1 DEF Answered, Waiting
<1>6. CASE c.kind = "ls"
  <2> DEFINE x == [sh EXCEPT !.dir = Opened("dir", c.n), !.state = "ListFiles",
                             !.lost = @ \cup Undeleted(sh.dir, "dir")]
  <2>1. r = SendComplete(x, fails)
    BY <1>6 DEF Execute
  <2>2. x.file = sh.file /\ x.state = "ListFiles" /\ x.binary = sh.binary /\ x.lost = sh.lost
    BY <1>3 DEF Shells
  <2>3. x \in Shells
    <3>1. Opened("dir", c.n) \in Files
      BY <1>6, FilesAre DEF Words
    <3> QED BY <3>1, UndeletedIs DEF Shells, ShellStates, Losses
  <2> HIDE DEF x
  <2>4. Shut(x)
    BY <1>2, <2>2 DEF Shut
  <2> QED BY <1>6, <2>1, <2>2, <2>3, <2>4, SendCompleteShuts
<1>7. CASE c.kind = "get"
  <2> DEFINE f == OpenedFile("r", c)
             x == [Open(sh, f) EXCEPT !.state = "GetFile"]
  <2>1. r = SendComplete(x, fails)
    BY <1>7 DEF Execute
  <2>2. f \in Files /\ (f = Bad \/ f.mode = "r")
    <3>1. f \in Files
      BY <1>7, FilesAre DEF OpenedFile, Words, Exists
    <3>2. f = Bad \/ f.mode = "r"
      BY DEF OpenedFile, Opened
    <3> QED BY <3>1, <3>2
  <2> HIDE DEF f
  <2>3. /\ x.file = f /\ x.state = "GetFile" /\ x.binary = sh.binary /\ x.dir = sh.dir
        /\ x.lost = sh.lost \cup Undeleted(sh.file, "file")
    BY DEF Shells, Open
  <2>4. x \in Shells
    BY <2>2, UndeletedIs DEF Open, Shells, ShellStates, Losses
  <2> HIDE DEF x
  <2>5. Shut(x)
    BY <1>2, <1>3, <2>2, <2>3 DEF Shut, Lost
  <2> QED BY <1>7, <2>1, <2>3, <2>4, <2>5, SendCompleteShuts
<1>8. CASE c.kind = "put"
  <2> DEFINE f == OpenedFile("w", c)
             x == [Open(sh, f) EXCEPT !.state = "PutFile", !.saved = <<>>]
  <2>1. r = Result(x, <<>>)
    BY <1>8 DEF Execute
  <2>2. f = Bad \/ f.mode = "w"
    BY DEF OpenedFile, Opened
  <2> HIDE DEF f
  <2>3. /\ x.file = f /\ x.state = "PutFile" /\ x.binary = sh.binary /\ x.dir = sh.dir
        /\ x.lost = sh.lost \cup Undeleted(sh.file, "file")
    BY DEF Shells, Open
  <2> HIDE DEF x
  <2>4. Shut(x)
    BY <1>2, <1>3, <2>2, <2>3 DEF Shut, Lost
  <2> QED BY <1>1, <1>8, <2>1, <2>3, <2>4 DEF Answered, Waiting
<1>9. CASE c.kind \notin {"nl", "quit", "ls", "get", "put"}
  <2>1. \A x \in {sh, [sh EXCEPT !.binary = FALSE], [sh EXCEPT !.binary = TRUE],
                  [sh EXCEPT !.lost = @ \cup {"erase"}]} :
          /\ x \in Shells /\ x.file = sh.file /\ x.dir = sh.dir
          /\ x.lost \subseteq sh.lost \cup {"erase"}
    BY DEF Shells, Losses
  <2>2. PICK x \in Shells :
          /\ x.file = sh.file /\ x.dir = sh.dir /\ x.lost \subseteq sh.lost \cup {"erase"}
          /\ \/ \E m : r = Result([x EXCEPT !.state = "NeedPrompt"], <<m>>)
             \/ \E m, n : r = Result([x EXCEPT !.state = "NeedPrompt"], <<m, n>>)
    <3> DEFINE F(x) == [x EXCEPT !.state = "NeedPrompt"]
    <3>1. \/ r = Result(F(sh), <<Info>>) \/ r = Result(F(sh), <<Error>>)
          \/ r = Result(F(sh), <<Error, Info>>)
          \/ r = Result(F([sh EXCEPT !.binary = FALSE]), <<Info>>)
          \/ r = Result(F([sh EXCEPT !.binary = TRUE]), <<Info>>)
          \/ r = Result(F([sh EXCEPT !.lost = @ \cup {"erase"}]), <<Info>>)
      BY <1>9 DEF Execute, Done, Failed
    <3> HIDE DEF F
    <3>2. \E x \in {sh, [sh EXCEPT !.binary = FALSE], [sh EXCEPT !.binary = TRUE],
                    [sh EXCEPT !.lost = @ \cup {"erase"}]} :
            \/ \E m : r = Result(F(x), <<m>>)
            \/ \E m, n : r = Result(F(x), <<m, n>>)
      BY <3>1
    <3> QED BY <2>1, <3>2 DEF F
  <2> DEFINE y == [x EXCEPT !.state = "NeedPrompt"]
  <2>3. (\E m : r = Result(y, <<m>>)) \/ (\E m, n : r = Result(y, <<m, n>>))
    BY <2>2
  <2>4. y.file = x.file /\ y.dir = x.dir /\ y.state = "NeedPrompt" /\ y.lost = x.lost
    BY DEF Shells
  <2> HIDE DEF y
  <2>5. r.shell = y /\ r.says # <<>>
    <3>1. ASSUME NEW m, r = Result(y, <<m>>) PROVE r.shell = y /\ r.says # <<>>
      BY <3>1 DEF Result
    <3>2. ASSUME NEW m, NEW n, r = Result(y, <<m, n>>) PROVE r.shell = y /\ r.says # <<>>
      BY <3>2 DEF Result
    <3> QED BY <2>3, <3>1, <3>2
  <2> QED BY <1>2, <1>9, <2>2, <2>4, <2>5 DEF Answered, Shut, Lost, Waiting
<1> QED BY <1>4, <1>5, <1>6, <1>7, <1>8, <1>9

(* Whatever is received by a shell that waits for it; of a put, the end with a line
   that is too long. *)
LEMMA ReceivedShuts ==
  ASSUME NEW sh \in Shells, Shut(sh), sh.state \in Waiting, NEW s \in Seq(Words), s # <<>>,
         NEW fails \in BOOLEAN, fails => sh.binary,
         sh.state = "PutFile" /\ sh.binary /\ (Kind(s, "long") \/ Kind(s, "huge"))
           => PutEnds(sh, s)
  PROVE  LET r == Received(sh, s, fails) IN
           /\ Answered(r)
           /\ sh.state = "ShowingPrompt" /\ ~ Kind(s, "put") => r.shell.state # "PutFile"
           /\ sh.state = "ShowingPrompt" /\ s[1].kind = "put" => r.shell.binary = sh.binary
           /\ sh.state = "PutFile" => r.shell.binary = sh.binary
<1> SUFFICES ASSUME NEW r, r = Received(sh, s, fails)
    PROVE  /\ Answered(r)
           /\ sh.state = "ShowingPrompt" /\ ~ Kind(s, "put") => r.shell.state # "PutFile"
           /\ sh.state = "ShowingPrompt" /\ s[1].kind = "put" => r.shell.binary = sh.binary
           /\ sh.state = "PutFile" => r.shell.binary = sh.binary
  OBVIOUS
<1> DEFINE huge == Places(s, {"huge"})
           upTo == IF huge = {} THEN Len(s) ELSE Min(huge)
           large == Places(SubSeq(s, 1, upTo), {"long", "huge"})
           errors == [i \in 1 .. Cardinality(large) |-> Error]
           told == IF large = {} THEN sh ELSE [sh EXCEPT !.state = "NeedPrompt"]
           words == {i \in DOMAIN s : s[i].kind # "nl"}
           c == IF words = {} THEN Tok("nl") ELSE s[Min(words)]
           written == Write(told, SubSeq(Decoded(s), 1, upTo))
           Telling(a) == [a EXCEPT !.says = errors \o @]
<1>1. /\ upTo \in 1 .. Len(s) /\ errors \in Seq(Messages)
      /\ large = {} => errors = <<>>
      /\ words # {} => Min(words) \in words /\ s[Min(words)] \in Words
                       /\ \A i \in words : Min(words) <= i
  BY ReceivedParts
<1>2. /\ s \in Seq(Token) /\ Decoded(s) \in Seq(Token) /\ Len(Decoded(s)) = Len(s)
      /\ Len(s) \in Nat /\ Len(s) > 0 /\ DOMAIN s = 1 .. Len(s)
  BY WordsAre, DecodedIs, LenProperties, EmptySeq
<1>3. c \in Words /\ (c.kind = "put" => Kind(s, "put")) /\ (s[1].kind = "put" => c.kind = "put")
  <2>1. Tok("nl") \in Token /\ Tok("nl").kind = "nl"
    BY TokensOK DEF Tok
  <2>2. CASE words = {}
    <3>1. s[1].kind = "nl"
      BY <1>2, <2>2
    <3> HIDE DEF words
    <3> QED BY <2>1, <2>2, <3>1 DEF Words
  <2>3. CASE words # {}
    <3> DEFINE i == Min(words)
    <3>1. i \in 1 .. Len(s) /\ s[i] \in Words
      BY <1>1, <1>2, <2>3
    <3>2. s[1].kind = "put" => i = 1
      <4>1. s[1].kind = "put" => 1 \in words
        BY <1>2
      <4>2. 1 \in words => i <= 1
        BY <1>1, <2>3
      <4> HIDE DEF words, i
      <4> QED BY <3>1, <4>1, <4>2
    <3>3. c = s[i]
      BY <2>3
    <3> HIDE DEF words, i, c
    <3> QED BY <1>2, <3>1, <3>2, <3>3 DEF Kind
  <2> QED BY <2>2, <2>3
<1>4. large # {} => Kind(s, "long") \/ Kind(s, "huge")
  <2> DEFINE u == SubSeq(s, 1, upTo)
  <2>1. Len(u) = upTo /\ \A i \in 1 .. upTo : u[i] = s[i]
    <3> HIDE DEF upTo
    <3>1. 1 \in 1 .. Len(s) + 1 /\ upTo \in 0 .. Len(s) /\ 1 <= upTo /\ upTo - 1 + 1 = upTo
          /\ \A j \in 1 .. upTo : 1 + j - 1 = j
      BY <1>1, <1>2
    <3>2. /\ Len(SubSeq(s, 1, upTo)) = IF 1 <= upTo THEN upTo - 1 + 1 ELSE 0
          /\ \A j \in 1 .. upTo - 1 + 1 : SubSeq(s, 1, upTo)[j] = s[1 + j - 1]
      BY <3>1, PartIs
    <3> QED BY <3>1, <3>2
  <2>2. u \in Seq(Words)
    <3> HIDE DEF upTo
    <3>1. 1 \in 1 .. Len(s) + 1 /\ upTo \in 0 .. Len(s)
      BY <1>1, <1>2
    <3> QED BY <3>1, PartIs
  <2>3. DOMAIN u = 1 .. upTo
    BY <2>1, <2>2, LenProperties
  <2> HIDE DEF u, upTo
  <2>4. \A i \in Places(u, {"long", "huge"}) : i \in DOMAIN s /\ s[i].kind \in {"long", "huge"}
    BY <1>1, <1>2, <2>1, <2>3 DEF Places
  <2>5. large = Places(u, {"long", "huge"})
    BY DEF u
  <2> QED BY <2>4, <2>5 DEF Kind
<1>5. r = CASE sh.state # "PutFile" -> Execute(sh, c, fails)
            [] sh.state = "PutFile" /\ ~ sh.binary ->
                 IF PutEnds(sh, s) THEN EndPut(sh) ELSE Result(Write(sh, s), <<>>)
            [] sh.state = "PutFile" /\ sh.binary ->
                 IF huge # {}
                 THEN Telling([Failed([written EXCEPT !.file = None]) EXCEPT !.stays = FALSE])
                 ELSE IF PutEnds(sh, s) THEN Telling(EndPut(written))
                 ELSE Result(written, errors)
  BY DEF Received, huge, upTo, large, words, c, told, written, errors, Telling
<1>6. told \in Shells /\ told.file = sh.file /\ told.dir = sh.dir /\ told.lost = sh.lost
      /\ told.binary = sh.binary /\ (large = {} => told = sh)
  <2> HIDE DEF large
  <2> QED BY DEF Shells, ShellStates
<1>7. SubSeq(Decoded(s), 1, upTo) \in Seq(Token)
  <2> HIDE DEF upTo
  <2>1. 1 \in 1 .. Len(Decoded(s)) + 1 /\ upTo \in 0 .. Len(Decoded(s))
    BY <1>1, <1>2
  <2> QED BY <1>2, <2>1, PartIs
<1>8. /\ written \in Shells /\ written.file = sh.file /\ written.dir = sh.dir
      /\ written.lost = sh.lost /\ written.binary = sh.binary /\ written.state = told.state
  <2> HIDE DEF told, upTo
  <2> QED BY <1>6, <1>7, WriteTypes
<1> HIDE DEF huge, upTo, large, words, c, told, written, errors
<1>9. Shut(sh) /\ (sh.state = "PutFile" => sh.dir = None /\ sh.lost \cap Lost = {})
  BY DEF Shut
<1>10. \A x \in Shells : x.dir = None /\ x.lost \cap Lost = {}
         => LET e == EndPut(x) IN
              /\ Answered(e) /\ e.shell.state = "ShowingPrompt" /\ e.shell.binary = x.binary
              /\ DOMAIN e = {"shell", "says", "stays"}
  <2> TAKE x \in Shells
  <2> DEFINE y == [[x EXCEPT !.file = None] EXCEPT !.state = "ShowingPrompt"]
  <2>1. /\ EndPut(x).shell = y /\ DOMAIN EndPut(x) = {"shell", "says", "stays"}
    BY DEF EndPut, ShowPrompt, Result
  <2>2. y.file = None /\ y.dir = x.dir /\ y.lost = x.lost /\ y.binary = x.binary
        /\ y.state = "ShowingPrompt"
    BY DEF Shells
  <2> HIDE DEF y
  <2> QED BY <2>1, <2>2 DEF Answered, Shut, Waiting
<1>11. CASE sh.state = "ShowingPrompt"
  <2>1. r = Execute(sh, c, fails)
    BY <1>5, <1>11
  <2> QED BY <1>3, <1>11, <2>1, ExecuteShuts
<1>12. CASE sh.state = "PutFile" /\ ~ sh.binary
  <2>1. r = IF PutEnds(sh, s) THEN EndPut(sh) ELSE Result(Write(sh, s), <<>>)
    BY <1>5, <1>12
  <2>2. CASE PutEnds(sh, s)
    BY <1>9, <1>10, <1>12, <2>1, <2>2
  <2>3. CASE ~ PutEnds(sh, s)
    <3> DEFINE x == Write(sh, s)
    <3>1. r.shell = x /\ r.says = <<>> /\ r.stays = TRUE
      BY <2>1, <2>3 DEF Result
    <3>2. /\ x.state = sh.state /\ x.binary = sh.binary /\ x.file = sh.file /\ x.dir = sh.dir
          /\ x.lost = sh.lost
      BY <1>2, WriteTypes
    <3> HIDE DEF x
    <3> QED BY <1>12, <3>1, <3>2 DEF Answered, Shut, Waiting
  <2> QED BY <2>2, <2>3
<1>13. CASE sh.state = "PutFile" /\ sh.binary
  <2>1. CASE huge # {}
    <3> DEFINE y == [[written EXCEPT !.file = None] EXCEPT !.state = "NeedPrompt"]
               a == [Failed([written EXCEPT !.file = None]) EXCEPT !.stays = FALSE]
    <3>1. r = Telling(a)
      BY <1>5, <1>13, <2>1
    <3>2. a.shell = y /\ a.stays = FALSE /\ DOMAIN a = {"shell", "says", "stays"}
      BY DEF Failed, Result
    <3> HIDE DEF a
    <3>3. r.shell = y /\ r.stays = FALSE
      BY <3>1, <3>2
    <3>4. y.file = None /\ y.dir = sh.dir /\ y.lost = sh.lost /\ y.binary = sh.binary
          /\ y.state = "NeedPrompt"
      BY <1>8 DEF Shells
    <3> HIDE DEF y
    <3> QED BY <1>9, <1>13, <3>3, <3>4 DEF Answered, Shut, Waiting
  <2>2. CASE huge = {} /\ PutEnds(sh, s)
    <3>1. r = Telling(EndPut(written))
      BY <1>5, <1>13, <2>2
    <3> DEFINE e == EndPut(written)
    <3>2. /\ Shut(e.shell) /\ e.shell.state = "ShowingPrompt" /\ e.shell.binary = sh.binary
          /\ DOMAIN e = {"shell", "says", "stays"}
      BY <1>8, <1>9, <1>10, <1>13 DEF Answered
    <3> HIDE DEF e
    <3>3. r.shell = e.shell
      BY <3>1, <3>2 DEF e
    <3> QED BY <1>13, <3>2, <3>3 DEF Answered, Waiting
  <2>3. CASE huge = {} /\ ~ PutEnds(sh, s)
    <3>1. r = Result(written, errors)
      BY <1>5, <1>13, <2>3
    <3>2. large = {}
      BY <1>4, <1>13, <2>3
    <3>3. r.shell = written /\ r.says = <<>> /\ r.stays = TRUE /\ written.state = "PutFile"
      BY <1>1, <1>6, <1>8, <1>13, <3>1, <3>2 DEF Result
    <3> QED BY <1>8, <1>13, <3>3 DEF Answered, Shut, Waiting
  <2> QED BY <2>1, <2>2, <2>3
<1> QED BY <1>11, <1>12, <1>13 DEF Waiting

-----------------------------------------------------------------------------
(* What a peer asks for, and what is left of it when a part has been received. *)
LEMMA AskedIsInbound ==
  ASSUME NEW sh \in Shells, sh.state = "ShowingPrompt", NEW line \in Asks(sh.binary)
  PROVE  /\ Inbound(sh, line) /\ line \in Seq(Words)
         /\ line = <<Tok("nl")>> => ~ Kind(line, "put")
<1>1. line \in Seq(Words)
  BY AsksAre
<1>2. ASSUME NEW w, line = <<w>>, w.kind \notin {"put", "long", "huge"}
      PROVE  ~ Kind(line, "put") /\ ~ Kind(line, "long") /\ ~ Kind(line, "huge")
  BY <1>2 DEF Kind
<1>3. ASSUME NEW k, line = <<Tok(k)>>, k \notin {"put", "long", "huge"}
      PROVE  ~ Kind(line, "put") /\ ~ Kind(line, "long") /\ ~ Kind(line, "huge")
  <2>1. Tok(k).kind = k
    BY DEF Tok
  <2> QED BY <1>2, <1>3, <2>1
<1>4. ASSUME NEW k, NEW n, line = <<Cmd(k, n)>>, k \notin {"put", "long", "huge"}
      PROVE  ~ Kind(line, "put") /\ ~ Kind(line, "long") /\ ~ Kind(line, "huge")
  <2>1. Cmd(k, n).kind = k
    BY DEF Cmd
  <2> QED BY <1>2, <1>4, <2>1
<1>5. ASSUME NEW n \in {-1, 0}, NEW b \in Bodies(sh.binary), line = <<Cmd("put", n)>> \o b \o Eot
      PROVE  Inbound(sh, line) /\ line # <<Tok("nl")>>
  <2>1. PICK w \in Words : w = Cmd("put", n) /\ w.kind = "put"
    BY PutWords
  <2>2. b \in Seq(Words) /\ line = <<w>> \o b \o Eot
    BY <1>5, <2>1, BodiesAre
  <2> DEFINE l == Len(b)
  <2>3. /\ l \in Nat /\ Len(line) = l + 2 /\ line[1] = w /\ line[l + 2] = Tok("eot")
        /\ \A i \in 1 .. l : line[i + 1] = b[i]
    BY <2>2, PutIs
  <2> HIDE DEF l
  <2>4. \/ \E k \in 1 .. Lines : b = Body(k)
        \/ /\ sh.binary
           /\ b = <<Tok("long"), Tok("nl")>> \/ b = <<Tok("huge"), Tok("nl")>>
    BY DEF Bodies
  <2>5. \A i \in 1 .. l : b[i].kind \in {"data", "nl", "long", "huge"}
    <3>1. ASSUME NEW k \in 1 .. Lines, b = Body(k), NEW i \in 1 .. l
          PROVE  b[i].kind \in {"data", "nl"}
      <4>1. i \in 1 .. 3 * k
        BY <3>1, BodyIs DEF l
      <4>2. \E q \in 0 .. k - 1 : b[i] = Data(2 * q + 1) \/ b[i] = Data(2 * q + 2) \/ b[i] = Tok("nl")
        BY <3>1, <4>1, BodyIs
      <4> QED BY <4>2 DEF Data, Tok
    <3>2. ASSUME NEW x, b = <<x, Tok("nl")>>, x \in {Tok("long"), Tok("huge")}, NEW i \in 1 .. l
          PROVE  b[i].kind \in {"nl", "long", "huge"}
      <4>1. l = 2
        BY <3>2 DEF l
      <4>2. i = 1 \/ i = 2
        BY <4>1
      <4> QED BY <3>2, <4>2 DEF Tok
    <3> QED BY <2>4, <3>1, <3>2
  <2>6. \A i \in 2 .. Len(line) : (i - 1 \in 1 .. l /\ line[i] = b[i - 1]) \/ i = l + 2
    <3> TAKE i \in 2 .. Len(line)
    <3> DEFINE j == i - 1
    <3>1. (j \in 1 .. l \/ i = l + 2) /\ i = j + 1
      BY <2>3
    <3> HIDE DEF j
    <3>2. j \in 1 .. l => line[j + 1] = b[j]
      BY <2>3
    <3>3. j \in 1 .. l => line[i] = b[j]
      BY <3>1, <3>2
    <3> QED BY <3>1, <3>3 DEF j
  <2>7. \A i \in 2 .. Len(line) : line[i].kind # "put"
    BY <2>3, <2>5, <2>6 DEF Tok
  <2>8. ASSUME NEW k \in 1 .. Lines, b = Body(k)
        PROVE  ~ Kind(line, "long") /\ ~ Kind(line, "huge")
    <3>1. \A i \in 1 .. l : b[i].kind \in {"data", "nl"}
      <4> TAKE i \in 1 .. l
      <4>1. i \in 1 .. 3 * k
        BY <2>8, BodyIs DEF l
      <4>2. \E q \in 0 .. k - 1 : b[i] = Data(2 * q + 1) \/ b[i] = Data(2 * q + 2) \/ b[i] = Tok("nl")
        BY <2>8, <4>1, BodyIs
      <4> QED BY <4>2 DEF Data, Tok
    <3>2. \A i \in 2 .. Len(line) : line[i].kind \in {"data", "nl", "eot"}
      BY <2>3, <2>6, <3>1 DEF Tok
    <3>3. \A i \in DOMAIN line : i = 1 \/ i \in 2 .. Len(line)
      <4>1. DOMAIN line = 1 .. Len(line) /\ Len(line) \in Nat
        BY <1>1, LenProperties
      <4> QED BY <4>1
    <3> QED BY <2>1, <2>3, <3>2, <3>3 DEF Kind
  <2>9. ASSUME NEW x, b = <<x, Tok("nl")>>, x \in {Tok("long"), Tok("huge")}
        PROVE  LongLine(line)
    <3>1. l = 2 /\ b[1] = x /\ b[2] = Tok("nl")
      BY <2>9 DEF l
    <3>2. Len(line) = 4 /\ line[4] = Tok("eot") /\ line[1] = w
      BY <2>3, <3>1
    <3>3. line[1 + 1] = b[1] /\ line[2 + 1] = b[2]
      BY <2>3, <3>1
    <3>4. line[2] = x /\ line[3] = Tok("nl")
      BY <3>1, <3>3
    <3> QED BY <2>1, <2>9, <3>2, <3>4 DEF LongLine, Tok
  <2>10. line # <<Tok("nl")>>
    <3>1. Tok("nl").kind # "put" /\ <<Tok("nl")>>[1] = Tok("nl")
      BY DEF Tok
    <3> QED BY <2>1, <2>3, <3>1
  <2> QED BY <2>4, <2>7, <2>8, <2>9, <2>10 DEF Inbound
<1>6. Tok("nl").kind = "nl"
  BY DEF Tok
<1>7. CASE ~ Kind(line, "put") /\ ~ Kind(line, "long") /\ ~ Kind(line, "huge")
  BY <1>1, <1>7 DEF Inbound
<1>8. CASE \E n \in {-1, 0}, b \in Bodies(sh.binary) : line = <<Cmd("put", n)>> \o b \o Eot
  BY <1>1, <1>5, <1>8
<1>9. \/ \E k \in {"nl", "text", "binary", "info", "erase", "run", "quit", "unknown"} :
           line = <<Tok(k)>>
      \/ \E k \in {"ls", "get"}, n \in Sizes \cup {-1} : line = <<Cmd(k, n)>>
      \/ \E n \in {-1, 0}, b \in Bodies(sh.binary) : line = <<Cmd("put", n)>> \o b \o Eot
  BY AsksAre, Zenon
<1>10. (\E k \in {"nl", "text", "binary", "info", "erase", "run", "quit", "unknown"} :
          line = <<Tok(k)>>)
       => ~ Kind(line, "put") /\ ~ Kind(line, "long") /\ ~ Kind(line, "huge")
  BY <1>3
<1>11. (\E k \in {"ls", "get"}, n \in Sizes \cup {-1} : line = <<Cmd(k, n)>>)
       => ~ Kind(line, "put") /\ ~ Kind(line, "long") /\ ~ Kind(line, "huge")
  BY <1>4
<1> QED BY <1>7, <1>8, <1>9, <1>10, <1>11

LEMMA SegmentOf ==
  ASSUME {"splits"} \cap Careless = {}, NEW sh \in Shells, NEW q \in Seq(Words), Inbound(sh, q),
         NEW k \in 1 .. Len(q), Segment(q, k, sh.binary)
  PROVE  LET s == SubSeq(q, 1, k)  rest == SubSeq(q, k + 1, Len(q)) IN
         /\ s \in Seq(Words) /\ s # <<>> /\ (Kind(s, "put") => Kind(q, "put"))
         /\ (Kind(s, "long") \/ Kind(s, "huge")) /\ sh.state = "PutFile" /\ sh.binary
            => PutEnds(sh, s)
         /\ rest \in Seq(Words) /\ ~ Kind(rest, "put")
         /\ Kind(rest, "long") \/ Kind(rest, "huge")
            => sh.binary /\ LongLine(rest) /\ s[1].kind = "put" /\ sh.state = "ShowingPrompt"
<1> SUFFICES ASSUME NEW s, s = SubSeq(q, 1, k), NEW rest, rest = SubSeq(q, k + 1, Len(q))
             PROVE  /\ s \in Seq(Words) /\ s # <<>> /\ (Kind(s, "put") => Kind(q, "put"))
                    /\ (Kind(s, "long") \/ Kind(s, "huge")) /\ sh.state = "PutFile" /\ sh.binary
                       => PutEnds(sh, s)
                    /\ rest \in Seq(Words) /\ ~ Kind(rest, "put")
                    /\ Kind(rest, "long") \/ Kind(rest, "huge")
                       => /\ sh.binary /\ LongLine(rest) /\ s[1].kind = "put"
                          /\ sh.state = "ShowingPrompt"
  OBVIOUS
<1> DEFINE L == Len(q)  n == L - k
<1>1. L \in Nat /\ k \in Nat /\ k >= 1 /\ k <= L /\ DOMAIN q = 1 .. L /\ n \in Nat
  BY LenProperties
<1>2. s \in Seq(Words) /\ Len(s) = k /\ \A i \in 1 .. k : s[i] = q[i]
  <2> HIDE DEF L
  <2>1. 1 \in 1 .. L + 1 /\ k \in 0 .. L /\ 1 <= k /\ k - 1 + 1 = k
        /\ \A j \in 1 .. k : 1 + j - 1 = j
    BY <1>1
  <2>2. /\ SubSeq(q, 1, k) \in Seq(Words)
        /\ Len(SubSeq(q, 1, k)) = IF 1 <= k THEN k - 1 + 1 ELSE 0
        /\ \A j \in 1 .. k - 1 + 1 : SubSeq(q, 1, k)[j] = q[1 + j - 1]
    BY <2>1, PartIs DEF L
  <2> QED BY <2>1, <2>2
<1>3. rest \in Seq(Words) /\ Len(rest) = n /\ \A i \in 1 .. n : rest[i] = q[k + i]
  <2> HIDE DEF L
  <2>1. k + 1 \in 1 .. L + 1 /\ L \in 0 .. L /\ L - (k + 1) + 1 = n
        /\ (k + 1 <= L \/ n = 0) /\ \A j \in 1 .. n : k + 1 + j - 1 = k + j
    BY <1>1
  <2>2. /\ SubSeq(q, k + 1, L) \in Seq(Words)
        /\ Len(SubSeq(q, k + 1, L)) = IF k + 1 <= L THEN L - (k + 1) + 1 ELSE 0
        /\ \A j \in 1 .. L - (k + 1) + 1 : SubSeq(q, k + 1, L)[j] = q[k + 1 + j - 1]
    <3> DEFINE i == k + 1
    <3>1. i \in 1 .. Len(q) + 1 /\ Len(q) \in 0 .. Len(q)
      BY <2>1 DEF L
    <3> HIDE DEF i
    <3>2. /\ SubSeq(q, i, Len(q)) \in Seq(Words)
          /\ Len(SubSeq(q, i, Len(q))) = IF i <= Len(q) THEN Len(q) - i + 1 ELSE 0
          /\ \A j \in 1 .. Len(q) - i + 1 : SubSeq(q, i, Len(q))[j] = q[i + j - 1]
      BY <3>1, PartIs
    <3> QED BY <3>2 DEF i, L
  <2>3. ~ (k + 1 <= L) => n = 0
    BY <2>1
  <2>4. rest = SubSeq(q, k + 1, L)
    BY DEF L
  <2> HIDE DEF n
  <2> QED BY <1>1, <2>1, <2>2, <2>3, <2>4
<1>4. DOMAIN s = 1 .. k /\ DOMAIN rest = 1 .. n
  BY <1>2, <1>3, LenProperties
<1> HIDE DEF n
<1>5. /\ s # <<>>
      /\ \A kind : Kind(s, kind) => Kind(q, kind)
      /\ \A kind : Kind(rest, kind) => Kind(q, kind)
  <2>1. s # <<>>
    <3>1. Len(<<>>) = 0 /\ k # 0
      BY <1>1
    <3> QED BY <1>2, <3>1
  <2>2. \A i \in 1 .. k : i \in DOMAIN q
    BY <1>1
  <2>3. \A i \in 1 .. n : k + i \in DOMAIN q
    BY <1>1 DEF n
  <2> QED BY <1>2, <1>3, <1>4, <2>1, <2>2, <2>3 DEF Kind
<1>6. ~ Kind(rest, "put")
  <2> SUFFICES ASSUME Kind(rest, "put") PROVE FALSE
    OBVIOUS
  <2>1. PICK i \in 1 .. n : q[k + i].kind = "put"
    BY <1>3, <1>4 DEF Kind
  <2>2. k + i \in 2 .. Len(q)
    BY <1>1 DEF n
  <2>3. Kind(q, "put")
    BY <1>5
  <2> QED BY <2>1, <2>2, <2>3 DEF Inbound
<1>7. ASSUME Kind(q, "long") \/ Kind(q, "huge")
      PROVE  /\ sh.binary /\ L \in {3, 4} /\ q[L].kind = "eot" /\ q[L - 1].kind = "nl"
             /\ q[L - 2].kind \in {"long", "huge"} /\ (L = 4 => q[1].kind = "put")
  BY <1>7 DEF Inbound, LongLine
<1>8. ASSUME L = 3, Kind(q, "long") \/ Kind(q, "huge")
      PROVE  k = 3
  <2>1. q[3].kind = "eot" /\ q[2].kind = "nl" /\ q[1].kind \in {"long", "huge"} /\ sh.binary
    BY <1>7, <1>8
  <2>2. k = L \/ q[k].kind = "data"
    BY <2>1 DEF Segment
  <2>3. k \in {1, 2, 3}
    BY <1>1, <1>8
  <2> QED BY <1>8, <2>1, <2>2, <2>3
<1>9. ASSUME Kind(s, "long") \/ Kind(s, "huge"), sh.state = "PutFile", sh.binary
      PROVE  PutEnds(sh, s)
  <2>1. Kind(q, "long") \/ Kind(q, "huge")
    BY <1>5, <1>9
  <2>2. L # 4
    <3>1. L = 4 => Kind(q, "put")
      BY <1>1, <1>7, <2>1 DEF Kind
    <3> QED BY <1>9, <3>1 DEF Inbound
  <2>3. L = 3 /\ k = 3
    BY <1>7, <1>8, <2>1, <2>2
  <2>4. Len(s) = 3 /\ s[3] = q[3] /\ s[2] = q[2]
    BY <1>2, <2>3
  <2>5. q[3].kind = "eot" /\ q[2].kind = "nl"
    BY <1>7, <2>1, <2>3
  <2> QED BY <1>9, <2>4, <2>5 DEF PutEnds
<1>10. ASSUME Kind(rest, "long") \/ Kind(rest, "huge")
       PROVE  sh.binary /\ LongLine(rest) /\ s[1].kind = "put" /\ sh.state = "ShowingPrompt"
  <2>1. Kind(q, "long") \/ Kind(q, "huge")
    BY <1>5, <1>10
  <2>2. L # 3
    <3>1. L = 3 => n = 0
      BY <1>8, <2>1 DEF n
    <3>2. n # 0
      BY <1>4, <1>10 DEF Kind
    <3> QED BY <3>1, <3>2
  <2>3. L = 4
    BY <1>7, <2>1, <2>2
  <2>4. /\ q[4].kind = "eot" /\ q[3].kind = "nl" /\ q[2].kind \in {"long", "huge"}
        /\ q[1].kind = "put" /\ sh.binary
    BY <1>7, <2>1, <2>3
  <2>5. k = 1
    <3>1. PICK i \in 1 .. n : q[k + i].kind \in {"long", "huge"}
      BY <1>3, <1>4, <1>10 DEF Kind
    <3>2. k + i \in 2 .. 4
      BY <1>1, <2>3 DEF n
    <3>3. k + i = 2 \/ k + i = 3 \/ k + i = 4
      BY <3>2
    <3>4. k + i = 2
      BY <2>4, <3>1, <3>3
    <3> QED BY <1>1, <3>4
  <2>6. n = 3 /\ rest[1] = q[2] /\ rest[2] = q[3] /\ rest[3] = q[4]
    <3>1. n = 3
      BY <2>3, <2>5 DEF n
    <3> HIDE DEF L
    <3>2. 1 \in 1 .. n /\ 2 \in 1 .. n /\ 3 \in 1 .. n
      BY <3>1
    <3>3. rest[1] = q[k + 1] /\ rest[2] = q[k + 2] /\ rest[3] = q[k + 3]
      BY <1>3, <3>2
    <3>4. k + 1 = 2 /\ k + 2 = 3 /\ k + 3 = 4
      BY <2>5
    <3> QED BY <3>1, <3>3, <3>4
  <2>7. s[1] = q[1] /\ Kind(q, "put")
    <3>1. 1 \in DOMAIN q /\ 1 \in 1 .. k
      BY <1>1
    <3> QED BY <1>2, <2>4, <3>1 DEF Kind
  <2>8. LongLine(rest)
    <3>1. Len(rest) = 3 /\ rest[3].kind = "eot" /\ rest[2].kind = "nl"
          /\ rest[1].kind \in {"long", "huge"}
      BY <1>3, <2>4, <2>6
    <3>2. Len(rest) - 1 = 2 /\ Len(rest) - 2 = 1 /\ Len(rest) \in {3, 4} /\ Len(rest) # 4
      BY <3>1
    <3> QED BY <3>1, <3>2 DEF LongLine
  <2> QED BY <2>4, <2>7, <2>8 DEF Inbound
<1> QED BY <1>2, <1>3, <1>5, <1>6, <1>9, <1>10

-----------------------------------------------------------------------------
(* The invariant of the files under the steps: slots that a step leaves alone. *)
Quiet == {"hurries", "splits", "failingText"} \cap Careless = {}

LEMMA OtherFiles ==
  ASSUME NEW t \in Slot, FileFits(t), clients'[t].pcb = clients[t].pcb,
         shells'[t] = shells[t], due'.slot = t <=> due.slot = t,
         InUse(t) => /\ net'[clients[t].pcb] = net[clients[t].pcb]
                     /\ peers'[clients[t].pcb] = peers[clients[t].pcb]
  PROVE  FileFits(t)'
<1>1. InUse(t)' <=> InUse(t)
  BY DEF InUse
<1>2. CASE InUse(t)
  <2>1. /\ net'[clients'[t].pcb] = net[clients[t].pcb]
        /\ peers'[clients'[t].pcb] = peers[clients[t].pcb]
    BY <1>2
  <2> DEFINE sh == shells[t]  b == net[clients[t].pcb]  q == peers[clients[t].pcb].inbound
  <2>2. /\ Shut(sh) /\ Inbound(sh, q)
        /\ due.slot # t /\ sh.state \notin Waiting => b.unacked > 0
        /\ sh.state = "PutFile" \/ Kind(q, "put") => b.said = <<>> /\ due.slot # t
    BY <1>2 DEF FileFits
  <2>3. /\ shells'[t] = sh /\ net'[clients'[t].pcb] = b /\ peers'[clients'[t].pcb].inbound = q
    BY <2>1
  <2> HIDE DEF sh, b, q
  <2> QED BY <2>2, <2>3 DEF FileFits
<1>3. CASE ~ InUse(t)
  BY <1>1, <1>3 DEF FileFits
<1> QED BY <1>2, <1>3

(* A shell has answered. *)
LEMMA HearFiles ==
  ASSUME shells \in [Slot -> Shells], due = Idle, NEW s \in Slot, NEW r \in Answers, Hear(s, r),
         NEW p \in Pcb, clients'[s].pcb = p, Answered(r), Inbound(r.shell, peers'[p].inbound),
         r.shell.state = "PutFile" => net'[p].said = <<>>,
         Kind(peers'[p].inbound, "put") => /\ net'[p].said = <<>> /\ r.says = <<>> /\ r.stays
  PROVE  /\ FileFits(s)' /\ shells'[s].lost \cap Lost = {}
         /\ \A t \in Slot : t # s => shells'[t] = shells[t] /\ (due'.slot = t <=> due.slot = t)
<1>1. /\ shells' = [shells EXCEPT ![s] = r.shell]
      /\ due' = IF r.says = <<>> /\ r.stays THEN Idle
                ELSE [slot |-> s, says |-> r.says, stays |-> r.stays]
  BY DEF Hear
<1>2. shells'[s] = r.shell /\ \A t \in Slot : t # s => shells'[t] = shells[t]
  BY <1>1
<1>3. \A t \in Slot : t # -1
  BY EspTCPConstantsOK
<1>4. /\ due'.slot = IF r.says = <<>> /\ r.stays THEN -1 ELSE s
      /\ due.slot = -1
  BY <1>1 DEF Idle
<1>5. \A t \in Slot : t # s => (due'.slot = t <=> due.slot = t)
  BY <1>3, <1>4
<1>6. FileFits(s)'
  <2>1. /\ Shut(r.shell)
        /\ r.shell.state \notin Waiting => r.says # <<>> \/ ~ r.stays
        /\ r.shell.state = "PutFile" => r.says = <<>> /\ r.stays
    BY DEF Answered
  <2>2. /\ due'.slot # s /\ r.shell.state \notin Waiting => net'[p].unacked > 0
        /\ r.shell.state = "PutFile" \/ Kind(peers'[p].inbound, "put") =>
             net'[p].said = <<>> /\ due'.slot # s
    BY <1>3, <1>4, <2>1
  <2> QED BY <1>2, <2>1, <2>2 DEF FileFits
<1>7. shells'[s].lost \cap Lost = {}
  BY <1>2 DEF Answered, Shut
<1> QED BY <1>2, <1>5, <1>6, <1>7

LEMMA SayFiles ==
  ASSUME ServerInv, ServerInv', FileInv, Steady, Say
  PROVE  FileInv'
<1>0. PICK s \in Slot : s = due.slot
  BY DEF Say, ServerInv
<1>1. s = due.slot /\ InUse(s) /\ due \in Dues /\ due.says \in Seq(Messages)
  BY <1>0 DEF Say, ServerInv, Dues
<1> DEFINE p == clients[s].pcb
<1>2. p \in Pcb /\ shells[s] \in Shells
  BY <1>1, PcbInUse DEF ServerInv
<1>3. \A t \in Slot : t # s /\ InUse(t) => clients[t].pcb \in Pcb /\ clients[t].pcb # p
  BY <1>1, PcbInUse, OwnBlock DEF ServerInv
<1>4. \A t \in Slot : t # -1
  BY EspTCPConstantsOK
<1>5. \A t \in Slot : shells[t].lost \cap Lost = {} /\ FileFits(t)
  BY DEF FileInv
<1>6. CASE due.says # <<>>
  <2> DEFINE m == Head(due.says)
  <2>1. m \in Seq(Token) /\ m # <<>>
    <3>1. m \in Messages
      BY <1>1, <1>6, HeadTailProperties
    <3> QED BY <3>1 DEF Messages
  <2> HIDE DEF m
  <2>2. Send(s, m) /\ shells' = shells /\ peers' = peers
        /\ (due' = Idle \/ due' = [due EXCEPT !.says = Tail(@)])
    BY <1>1, <1>6 DEF Say, m
  <2>3. /\ \A t \in Slot : clients'[t].pcb = clients[t].pcb
        /\ \A q \in Pcb : q # p => net'[q] = net[q]
    BY <1>1, <2>1, <2>2, SendDoes DEF ServerInv
  <2>4. net'[p].unacked > 0
    <3>1. InUse(s)' /\ clients'[s].pcb = p
      BY <1>1, <2>3 DEF InUse
    <3>2. clients'[s].sending
      <4>1. clients \in [Slot -> Client] /\ DOMAIN clients[s] = {"pcb", "sending", "buffer"}
        BY DEF ServerInv, TcpInv, Client
      <4> DEFINE a == [clients[s] EXCEPT !.buffer = @ \o m]
      <4>2. \/ clients[s].sending /\ clients'[s] = a
            \/ \E z : clients'[s] = [clients[s] EXCEPT !.sending = TRUE, !.buffer = z]
        <5>1. CASE clients[s].sending
          <6>1. clients' = [clients EXCEPT ![s].buffer = @ \o m]
            BY <1>1, <2>2, <5>1 DEF Send
          <6> QED BY <4>1, <5>1, <6>1
        <5>2. CASE ~ clients[s].sending
          <6>1. \E z : clients' = [clients EXCEPT ![s].sending = TRUE, ![s].buffer = z]
            BY <1>1, <2>2, <5>2, Zenon DEF Send, Transmit
          <6> QED BY <4>1, <6>1
        <5> QED BY <5>1, <5>2
      <4>3. a.sending = clients[s].sending
        BY <4>1
      <4>4. \A z : [clients[s] EXCEPT !.sending = TRUE, !.buffer = z].sending = TRUE
        BY <4>1
      <4> HIDE DEF a
      <4> QED BY <4>2, <4>3, <4>4
    <3>3. Good(clients'[s], net'[clients'[s].pcb])
      BY <3>1 DEF ServerInv, TcpInv
    <3> QED BY <3>1, <3>2, <3>3 DEF Good
  <2>5. due'.slot = -1 \/ due'.slot = s
    BY <1>1, <2>2 DEF Dues, Idle
  <2>6. FileFits(s)'
    <3> DEFINE sh == shells[s]  q == peers[p].inbound
    <3>1. /\ Shut(sh) /\ Inbound(sh, q)
          /\ ~ (sh.state = "PutFile" \/ Kind(q, "put"))
      BY <1>1, <1>5 DEF FileFits
    <3>2. shells'[s] = sh /\ clients'[s].pcb = p /\ peers'[p].inbound = q
      BY <2>2, <2>3
    <3> HIDE DEF sh, q
    <3> QED BY <2>4, <3>1, <3>2 DEF FileFits
  <2>7. ASSUME NEW t \in Slot, t # s PROVE FileFits(t)'
    <3>1. due'.slot = t <=> due.slot = t
      BY <1>1, <1>4, <2>5, <2>7
    <3> QED BY <1>3, <1>5, <2>2, <2>3, <2>7, <3>1, OtherFiles
  <2> QED BY <1>5, <2>2, <2>6, <2>7 DEF FileInv
<1>7. CASE due.says = <<>>
  <2>1. /\ Disconnect(s) /\ due' = Idle /\ UNCHANGED peers
        /\ shells' = [shells EXCEPT ![s] = SendComplete(@, FALSE).shell]
    BY <1>1, <1>7 DEF Say
  <2>2. Close(s, "free")
    BY <1>1, <2>1 DEF Disconnect
  <2>3. /\ ~ InUse(s)'
        /\ \A t \in Slot : t # s => clients'[t] = clients[t]
        /\ \A q \in Pcb : q # p => net'[q] = net[q]
    BY <1>1, <2>2, CloseDoes DEF ServerInv
  <2>4. shells'[s].lost = shells[s].lost /\ \A t \in Slot : t # s => shells'[t] = shells[t]
    BY <1>2, <2>1, SendCompleteShuts DEF ServerInv
  <2>5. FileFits(s)'
    BY <2>3 DEF FileFits
  <2>6. ASSUME NEW t \in Slot, t # s PROVE FileFits(t)'
    <3>1. due'.slot = t <=> due.slot = t
      BY <1>1, <1>4, <2>1, <2>6 DEF Idle
    <3> QED BY <1>3, <1>5, <2>1, <2>3, <2>4, <2>6, <3>1, OtherFiles
  <2> QED BY <1>5, <2>4, <2>5, <2>6 DEF FileInv
<1> QED BY <1>6, <1>7

LEMMA ConnectFiles ==
  ASSUME ServerInv, ServerInv', FileInv, Steady, NEW p \in Pcb, Connect(p)
  PROVE  FileInv'
<1>1. PICK s \in Slot :
        LET old == shells[s] IN
          /\ Accept(p, s)
          /\ Hear(s, [Connected EXCEPT !.shell.lost =
               old.lost \cup Undeleted(old.file, "left") \cup Undeleted(old.dir, "left")])
  BY DEF Connect
<1>2. due = Idle /\ peers' = [peers EXCEPT ![p] = Silent]
  BY DEF Connect
<1>3. /\ ~ InUse(s) /\ clients'[s].pcb = p
      /\ \A t \in Slot : t # s => clients'[t] = clients[t] /\ clients[t].pcb # p
      /\ \A q \in Pcb : q # p => net'[q] = net[q]
  BY <1>1, AcceptDoes DEF ServerInv
<1> DEFINE b == shells[s].lost \cup Undeleted(shells[s].file, "left")
                              \cup Undeleted(shells[s].dir, "left")
           r == [Connected EXCEPT !.shell.lost = b]
<1>4. Hear(s, r)
  BY <1>1
<1>5. b \in SUBSET Losses /\ b \cap Lost = {}
  <2>1. shells[s].lost \cap Lost = {} /\ shells[s] \in Shells
    BY DEF FileInv, ServerInv
  <2>2. \A x : Undeleted(x, "left") \cap Lost = {}
    BY DEF Undeleted, Lost
  <2> QED BY <2>1, <2>2, UndeletedIs DEF Shells, Losses
<1>6. r \in Answers
  <2> HIDE DEF b
  <2> QED BY <1>5, ConnectedIs
<1>7. Answered(r) /\ r.shell.state = "NeedPrompt"
  <2> HIDE DEF b
  <2> DEFINE x == [NewShell EXCEPT !.state = "NeedPrompt"]  y == [x EXCEPT !.lost = b]
  <2>1. Connected = Result(x, <<Welcome>>)
    BY DEF Connected, SendComplete, NewShell
  <2>2. /\ Connected.shell = x /\ Connected.says = <<Welcome>>
        /\ DOMAIN Connected = {"shell", "says", "stays"}
    BY <2>1 DEF Result
  <2>3. r.shell = y /\ r.says = <<Welcome>>
    <3> HIDE DEF x
    <3> QED BY <2>2
  <2>4. y.state = "NeedPrompt" /\ y.lost = b /\ y.file = None /\ y.dir = None
    BY DEF NewShell
  <2> HIDE DEF y, r
  <2> QED BY <1>5, <2>3, <2>4 DEF Answered, Shut, Waiting
<1> HIDE DEF r
<1>8. peers'[p] = Silent /\ \A q \in Pcb : q # p => peers'[q] = peers[q]
  BY <1>2 DEF ServerInv
<1>9. \A k : ~ Kind(Silent.inbound, k)
  BY DEF Silent, Kind
<1>10. Inbound(r.shell, peers'[p].inbound)
  BY <1>8, <1>9 DEF Inbound
<1>11. /\ FileFits(s)' /\ shells'[s].lost \cap Lost = {}
       /\ \A t \in Slot : t # s => shells'[t] = shells[t] /\ (due'.slot = t <=> due.slot = t)
  BY <1>2, <1>3, <1>4, <1>6, <1>7, <1>8, <1>9, <1>10, HearFiles DEF ServerInv
<1>12. ASSUME NEW t \in Slot, t # s PROVE FileFits(t)' /\ shells'[t].lost \cap Lost = {}
  <2>1. clients'[t].pcb = clients[t].pcb
    BY <1>3, <1>12
  <2>2. InUse(t) => clients[t].pcb \in Pcb /\ clients[t].pcb # p
    BY <1>3, <1>12, PcbInUse DEF ServerInv
  <2> QED BY <1>3, <1>8, <1>11, <1>12, <2>1, <2>2, OtherFiles DEF FileInv
<1> QED BY <1>11, <1>12 DEF FileInv

LEMMA AckFiles ==
  ASSUME ServerInv, ServerInv', FileInv, Steady, Quiet, NEW p \in Pcb, Ack(p)
  PROVE  FileInv'
<1>1. PICK n \in 1 .. net[p].unacked : Sent(p, n)
  BY DEF Ack
<1>2. /\ net[p].link = "open" \/ findConnection(p) = -1
      /\ \A t \in Slot : clients'[t].pcb = clients[t].pcb
      /\ \A q \in Pcb : net'[q].said = net[q].said
      /\ \A q \in Pcb : q # p => net'[q] = net[q]
  BY <1>1, SentDoes DEF ServerInv
<1>3. due = Idle /\ peers' = peers
  BY DEF Ack
<1>4. \A t \in Slot : InUse(t) => clients[t].pcb \in Pcb
  BY PcbInUse DEF ServerInv
<1>5. CASE findConnection(p) = -1
  <2>1. shells' = shells /\ due' = due
    BY <1>5 DEF Ack
  <2>2. net[p].link # "open"
    BY <1>5, Found, EspTCPConstantsOK DEF ServerInv
  <2>3. \A t \in Slot : clients[t].pcb # p
    BY <2>2, NotFound DEF ServerInv
  <2>4. ASSUME NEW t \in Slot PROVE FileFits(t)'
    BY <1>2, <1>3, <1>4, <2>1, <2>3, <2>4, OtherFiles DEF FileInv
  <2> QED BY <2>1, <2>4 DEF FileInv
<1>6. CASE net[p].link = "open"
  <2>0. PICK s \in Slot : s = findConnection(p)
    BY <1>6, Found DEF ServerInv
  <2>1. s = findConnection(p) /\ InUse(s) /\ ~ (s < 0) /\ clients[s].pcb = p
    BY <1>6, <2>0, Found, EspTCPConstantsOK DEF ServerInv
  <2>2. PICK fails \in MayFail(shells[s]) : Hear(s, SendComplete(shells[s], fails))
    BY <2>1 DEF Ack
  <2> DEFINE sh == shells[s]  q == peers[p].inbound  r == SendComplete(sh, fails)
  <2>3. sh \in Shells /\ fails \in BOOLEAN /\ (fails => sh.binary)
    BY <2>1, <2>2 DEF ServerInv, MayFail, Quiet
  <2>4. /\ Shut(sh) /\ Inbound(sh, q)
        /\ sh.state = "PutFile" \/ Kind(q, "put") => net[p].said = <<>>
    BY <2>1 DEF FileInv, FileFits
  <2>5. r \in Answers
    BY <2>3, SendCompleteTypes
  <2>6. Hear(s, r)
    BY <2>2
  <2>7. /\ r.shell.binary = sh.binary
        /\ r.shell.state = "PutFile" <=> sh.state = "PutFile"
        /\ sh.state \in Waiting => r = Result(sh, <<>>)
        /\ Answered(r)
    BY <2>3, <2>4, SendCompleteShuts
  <2> HIDE DEF sh, q, r
  <2>8. Result(sh, <<>>).shell = sh /\ Result(sh, <<>>).says = <<>> /\ Result(sh, <<>>).stays
    BY DEF Result
  <2>9. Kind(q, "put") => sh.state \in Waiting /\ r.shell = sh /\ r.says = <<>> /\ r.stays
    BY <2>4, <2>7, <2>8 DEF Inbound, Waiting
  <2>10. Inbound(r.shell, q)
    BY <2>4, <2>7, <2>9 DEF Inbound
  <2>11. clients'[s].pcb = p /\ net'[p].said = net[p].said /\ peers'[p].inbound = q
    BY <1>2, <1>3, <2>1 DEF q
  <2>12. /\ FileFits(s)' /\ shells'[s].lost \cap Lost = {}
         /\ \A t \in Slot : t # s => shells'[t] = shells[t] /\ (due'.slot = t <=> due.slot = t)
    BY <1>3, <2>4, <2>5, <2>6, <2>7, <2>9, <2>10, <2>11, HearFiles DEF ServerInv
  <2>13. ASSUME NEW t \in Slot, t # s PROVE FileFits(t)' /\ shells'[t].lost \cap Lost = {}
    <3>1. InUse(t) => clients[t].pcb \in Pcb /\ clients[t].pcb # p
      BY <1>4, <2>1, <2>13, OwnBlock DEF ServerInv
    <3> QED BY <1>2, <1>3, <2>12, <2>13, <3>1, OtherFiles DEF FileInv
  <2> QED BY <2>12, <2>13 DEF FileInv
<1> QED BY <1>2, <1>5, <1>6

LEMMA LeaveFiles ==
  ASSUME ServerInv, ServerInv', FileInv, Steady, NEW p \in Pcb, Leave(p)
  PROVE  FileInv'
<1>1. PeerCloses(p) /\ due = Idle /\ due' = due /\ peers' = [peers EXCEPT ![p] = Silent]
  BY DEF Leave
<1>2. net[p].link = "open"
  BY <1>1 DEF PeerCloses
<1>0. PICK s \in Slot : s = findConnection(p)
  BY <1>2, Found DEF ServerInv
<1>3. s = findConnection(p) /\ InUse(s) /\ clients[s].pcb = p
  BY <1>0, <1>2, Found DEF ServerInv
<1>4. /\ Close(s, "closed")
      /\ shells' = [shells EXCEPT ![s] = SendComplete(@, FALSE).shell]
  BY <1>1, <1>3 DEF PeerCloses, Leave
<1>5. /\ ~ InUse(s)'
      /\ \A t \in Slot : t # s => clients'[t] = clients[t]
      /\ \A q \in Pcb : q # p => net'[q] = net[q]
  BY <1>3, <1>4, CloseDoes DEF ServerInv
<1>6. shells'[s].lost = shells[s].lost /\ \A t \in Slot : t # s => shells'[t] = shells[t]
  BY <1>4, SendCompleteShuts DEF ServerInv
<1>7. FileFits(s)'
  BY <1>5 DEF FileFits
<1>8. ASSUME NEW t \in Slot, t # s PROVE FileFits(t)'
  <2>1. InUse(t) => clients[t].pcb \in Pcb /\ clients[t].pcb # p
    BY <1>3, <1>8, PcbInUse, OwnBlock DEF ServerInv
  <2>2. \A q \in Pcb : q # p => peers'[q] = peers[q]
    BY <1>1 DEF ServerInv
  <2> QED BY <1>1, <1>5, <1>6, <1>8, <2>1, <2>2, OtherFiles DEF FileInv
<1> QED BY <1>6, <1>7, <1>8 DEF FileInv

LEMMA LwipFiles ==
  ASSUME ServerInv, FileInv, Steady, NEW p \in Pcb, Lwip(p)
  PROVE  FileInv'
<1>1. shells' = shells /\ peers' = peers /\ due' = due
  BY DEF Lwip
<1>2. /\ clients' = clients
      /\ \A q \in Pcb : net[q].link = "open" => net'[q] = net[q]
  BY DEF Lwip, Abort, Release, Reset, Steady, tcpVars, ServerInv, TcpInv
<1>3. ASSUME NEW t \in Slot PROVE FileFits(t)'
  <2>1. InUse(t) => clients[t].pcb \in Pcb /\ net[clients[t].pcb].link = "open"
    BY PcbInUse DEF ServerInv, TcpInv, Good
  <2> QED BY <1>1, <1>2, <2>1, OtherFiles DEF FileInv
<1> QED BY <1>1, <1>3 DEF FileInv

LEMMA AskFiles ==
  ASSUME ServerInv, ServerInv', FileInv, Steady, Quiet, NEW p \in Pcb, Ask(p)
  PROVE  FileInv'
<1>1. /\ due = Idle /\ due' = due /\ shells' = shells
      /\ net[p].link = "open" /\ Prompted(p) /\ net[p].unacked = 0
  BY DEF Ask, Quiet
<1>0. PICK s \in Slot : s = findConnection(p)
  BY <1>1, Found DEF ServerInv
<1>2. s = findConnection(p) /\ InUse(s) /\ clients[s].pcb = p
  BY <1>0, <1>1, Found DEF ServerInv
<1> DEFINE sh == shells[s]  said == net[p].said
<1>3. PICK line \in Asks(sh.binary) :
        /\ peers' = [peers EXCEPT ![p] = [inbound |-> line, asked |-> line]]
        /\ IF line = <<Tok("nl")>> THEN UNCHANGED tcpVars ELSE Read(p)
  BY <1>2 DEF Ask
<1>4. sh \in Shells /\ said \in Seq(Token)
  BY <1>2 DEF ServerInv, TcpInv, Block
<1>5. said = net[p].wire /\ said # <<>>
  <2>1. /\ said = net[p].wire \o clients[s].buffer /\ net[p].wire \in Seq(Token)
        /\ clients[s].buffer # <<>> => net[p].unacked > 0
    BY <1>2 DEF ServerInv, TcpInv, Good, Block
  <2>2. clients[s].buffer = <<>>
    BY <1>1, <2>1
  <2>3. net[p].wire \o <<>> = net[p].wire
    BY <2>1, ConcatEmptySeq
  <2>4. net[p].wire # <<>>
    BY <1>1 DEF Prompted
  <2> QED BY <2>1, <2>2, <2>3, <2>4
<1>6. due.slot # s
  BY <1>1, EspTCPConstantsOK DEF Idle
<1>7. Shut(sh) /\ sh.state = "ShowingPrompt"
  <2>1. /\ Shut(sh)
        /\ sh.state \notin Waiting => net[p].unacked > 0
        /\ sh.state = "PutFile" => said = <<>>
    BY <1>2, <1>6 DEF FileInv, FileFits
  <2>2. ~ (net[p].unacked > 0)
    BY <1>1
  <2> QED BY <1>5, <2>1, <2>2 DEF Waiting
<1>8. Inbound(sh, line) /\ (line = <<Tok("nl")>> => ~ Kind(line, "put"))
  BY <1>4, <1>7, AskedIsInbound
<1>9. clients' = clients /\ \A q \in Pcb : q # p => net'[q] = net[q]
  BY <1>3, ReadDoes DEF tcpVars, ServerInv
<1>10. Kind(line, "put") => net'[p].said = <<>>
  <2> SUFFICES ASSUME Kind(line, "put") PROVE net'[p].said = <<>>
    OBVIOUS
  <2>1. Read(p)
    BY <1>3, <1>8
  <2>2. net'[p].said = SubSeq(said, Len(said) + 1, Len(said))
    BY <1>5, <2>1, ReadDoes DEF ServerInv
  <2>3. Len(said) \in Nat
    BY <1>4, LenProperties
  <2>4. Len(said) < Len(said) + 1 /\ Len(said) \in Int /\ Len(said) + 1 \in Int
    BY <2>3
  <2> QED BY <2>2, <2>4, SubSeqEmpty
<1>11. /\ peers'[p].inbound = line
       /\ \A q \in Pcb : q # p => peers'[q] = peers[q]
  BY <1>3 DEF ServerInv
<1>12. FileFits(s)'
  <2>1. clients'[s].pcb = p /\ shells'[s] = sh /\ due'.slot # s
    BY <1>1, <1>2, <1>6, <1>9
  <2> HIDE DEF sh, said
  <2> QED BY <1>7, <1>8, <1>10, <1>11, <2>1 DEF FileFits, Waiting
<1>13. ASSUME NEW t \in Slot, t # s PROVE FileFits(t)'
  <2>1. InUse(t) => clients[t].pcb \in Pcb /\ clients[t].pcb # p
    BY <1>2, <1>13, PcbInUse, OwnBlock DEF ServerInv
  <2> QED BY <1>1, <1>9, <1>11, <1>13, <2>1, OtherFiles DEF FileInv
<1> QED BY <1>1, <1>12, <1>13 DEF FileInv

LEMMA ReceiveFiles ==
  ASSUME ServerInv, ServerInv', FileInv, Steady, Quiet, NEW p \in Pcb, Receive(p)
  PROVE  FileInv'
<1>1. /\ due = Idle /\ net[p].link = "open" /\ net[p].unacked = 0
      /\ clients' = clients /\ net' = net
  BY DEF Receive, tcpVars, Quiet
<1>0. PICK s \in Slot : s = findConnection(p)
  BY <1>1, Found DEF ServerInv
<1>2. s = findConnection(p) /\ InUse(s) /\ clients[s].pcb = p
  BY <1>0, <1>1, Found DEF ServerInv
<1> DEFINE sh == shells[s]  said == net[p].said  q == peers[p].inbound
<1>3. PICK k \in 1 .. Len(q), fails \in MayFail(sh) :
        /\ Segment(q, k, sh.binary)
        /\ Hear(s, Received(sh, SubSeq(q, 1, k), fails))
        /\ peers' = [peers EXCEPT ![p].inbound = SubSeq(q, k + 1, Len(q))]
  BY <1>2 DEF Receive
<1>4. sh \in Shells /\ q \in Seq(Words) /\ fails \in BOOLEAN /\ (fails => sh.binary)
  BY <1>2, <1>3 DEF ServerInv, Peers, MayFail, Quiet
<1> DEFINE c == SubSeq(q, 1, k)  rest == SubSeq(q, k + 1, Len(q))  r == Received(sh, c, fails)
<1>5. Hear(s, r)
  BY <1>3
<1>6. peers'[p].inbound = rest /\ \A o \in Pcb : o # p => peers'[o] = peers[o]
  BY <1>3 DEF ServerInv, Peers
<1>7. due.slot # s
  BY <1>1, EspTCPConstantsOK DEF Idle
<1>8. /\ Shut(sh) /\ Inbound(sh, q) /\ sh.state \in Waiting
      /\ sh.state = "PutFile" \/ Kind(q, "put") => said = <<>>
  <2>1. ~ (net[p].unacked > 0)
    BY <1>1
  <2> QED BY <1>2, <1>7, <2>1 DEF FileInv, FileFits
<1>9. /\ Segment(q, k, sh.binary) /\ {"splits"} \cap Careless = {}
  BY <1>3 DEF Quiet
<1> HIDE DEF sh, q, said, r
<1>10. /\ c \in Seq(Words) /\ c # <<>> /\ (Kind(c, "put") => Kind(q, "put"))
       /\ (Kind(c, "long") \/ Kind(c, "huge")) /\ sh.state = "PutFile" /\ sh.binary
          => PutEnds(sh, c)
       /\ ~ Kind(rest, "put")
       /\ Kind(rest, "long") \/ Kind(rest, "huge")
          => sh.binary /\ LongLine(rest) /\ c[1].kind = "put" /\ sh.state = "ShowingPrompt"
  <2>1. k \in 1 .. Len(q)
    BY DEF q
  <2> QED BY <1>4, <1>8, <1>9, <2>1, SegmentOf
<1> HIDE DEF c, rest
<1>11. /\ Answered(r)
       /\ sh.state = "ShowingPrompt" /\ ~ Kind(c, "put") => r.shell.state # "PutFile"
       /\ sh.state = "ShowingPrompt" /\ c[1].kind = "put" => r.shell.binary = sh.binary
  BY <1>4, <1>8, <1>10, ReceivedShuts DEF r
<1>12. r \in Answers
  BY <1>4, <1>10, ReceivedTypes DEF r
<1>13. Inbound(r.shell, rest)
  BY <1>10, <1>11 DEF Inbound
<1>14. r.shell.state = "PutFile" => said = <<>>
  BY <1>8, <1>10, <1>11 DEF Waiting
<1>15. clients'[s].pcb = p /\ net'[p].said = said
  BY <1>1, <1>2 DEF said
<1>16. /\ FileFits(s)' /\ shells'[s].lost \cap Lost = {}
       /\ \A t \in Slot : t # s => shells'[t] = shells[t] /\ (due'.slot = t <=> due.slot = t)
  BY <1>1, <1>5, <1>6, <1>10, <1>11, <1>12, <1>13, <1>14, <1>15, HearFiles DEF ServerInv
<1>17. ASSUME NEW t \in Slot, t # s PROVE FileFits(t)' /\ shells'[t].lost \cap Lost = {}
  <2>1. InUse(t) => clients[t].pcb \in Pcb /\ clients[t].pcb # p
    BY <1>2, <1>17, PcbInUse, OwnBlock DEF ServerInv
  <2> QED BY <1>1, <1>6, <1>16, <1>17, <2>1, OtherFiles DEF FileInv
<1> QED BY <1>16, <1>17 DEF FileInv

LEMMA FileInitial == ServerInit => FileInv
<1> SUFFICES ASSUME ServerInit PROVE FileInv
  OBVIOUS
<1>1. \A s \in Slot : ~ InUse(s) /\ shells[s].lost = {}
  BY DEF ServerInit, TcpInit, InUse, NewShell
<1> QED BY <1>1 DEF FileInv, FileFits

LEMMA FileStep ==
  ASSUME Steady, Quiet, ServerInv, ServerInv', FileInv, [ServerNext]_vars
  PROVE  FileInv'
<1>1. CASE UNCHANGED vars
  BY <1>1 DEF vars, tcpVars, FileInv, FileFits, InUse
<1>2. CASE Say
  BY <1>2, SayFiles
<1>3. ASSUME NEW p \in Pcb,
             Connect(p) \/ Ack(p) \/ Leave(p) \/ Lwip(p) \/ Ask(p) \/ Receive(p)
      PROVE  FileInv'
  BY <1>3, ConnectFiles, AckFiles, LeaveFiles, LwipFiles, AskFiles, ReceiveFiles
<1> QED BY <1>1, <1>2, <1>3 DEF ServerNext

(* Of the shell of a connection, a file or a directory is open only in the state that
   uses it, and no command forgets one: for any sizes, lines and numbers of
   connections, whatever part of the data peers acknowledge and when, and also when a
   command comes together with what follows it, or a peer leaves in the middle;
   unless a peer does not wait for the prompt, cuts a line of a put in two, or the
   read of a text file fails.  (What a new connection's shell leaves open of the
   slot's old one, erase's directory, and a file that could not be opened are not
   meant: lost names them apart.) *)
THEOREM FilesAreAlwaysClosed ==
  ASSUME Faults \cap {"resets", "writeFails"} = {},
         {"hurries", "splits", "failingText"} \cap Careless = {}
  PROVE  ServerSpec => []FilesAreClosed
<1> USE DEF Steady, Quiet
<1>1. FileInv => FilesAreClosed
  <2> SUFFICES ASSUME FileInv, NEW s \in Slot
               PROVE  LET sh == shells[s] IN
                        /\ sh.lost \cap {"file", "dir"} = {}
                        /\ InUse(s) => /\ sh.file.mode = "r" => sh.state = "GetFile"
                                       /\ sh.file.mode = "w" => sh.state = "PutFile"
                                       /\ sh.dir # None => sh.state = "ListFiles"
    BY DEF FilesAreClosed
  <2>1. None.mode = "none" /\ Bad.mode = "bad"
    BY DEF None, Bad, Opened
  <2>2. shells[s].lost \cap {"file", "dir"} = {} /\ (InUse(s) => Shut(shells[s]))
    BY DEF FileInv, FileFits, Lost
  <2> QED BY <2>1, <2>2 DEF Shut
<1>2. ServerInv /\ FileInv /\ [ServerNext]_vars => ServerInv' /\ FileInv'
  BY ServerStep, FileStep
<1> QED BY <1>1, <1>2, ServerInitial, FileInitial, PTL DEF ServerSpec
=============================================================================

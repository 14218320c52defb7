----------------------------- MODULE ShellServer -----------------------------
(***************************************************************************)
(* The shells of an application, one per connection, and those who talk to *)
(* them.  (MyShell and MyShellSocket of src/m8rscript/Application.cpp; the *)
(* simulator's commands, src/mac/m8rsim/Device.mm)                         *)
(*                                                                         *)
(* The handlers of EspTCP call the shell, whose messages are sent before   *)
(* the handler returns: until then (due) nothing else happens.             *)
(***************************************************************************)
EXTENDS EspTCP, Shell

CONSTANTS
  Sizes,       \* of files and listings
  Lines,       \* how many lines are put, at most
  Careless     \* what peers do that the shell is not ready for

ASSUME ServerConstantsOK ==
  /\ Sizes \subseteq Nat /\ Lines \in Nat \ {0}
  /\ Careless \subseteq {"hurries", "joins", "splits", "wholeBuffers", "failingText"}

(* What the shells and their peers send is among the tokens. *)
ASSUME TokensOK ==
  /\ \A kind \in {"welcome", "prompt", "error", "info", "eot", "stale", "nl", "garbled",
                   "long", "huge", "text", "binary", "erase", "run", "quit",
                   "unknown"} :
       Tok(kind) \in Token
  /\ \A n \in Sizes \cup {-1, 0} : {Cmd("ls", n), Cmd("get", n), Cmd("put", n)} \subseteq Token
  /\ \A n \in Sizes \cup {2 * Lines} : \A i \in 1 .. n : Data(i) \in Token

VARIABLES
  shells,    \* _shells
  peers,     \* what each peer has sent that has not been received (inbound),
             \* and the last thing it asked for
  due        \* of which slot, what has still to be sent, and whether it stays

vars == <<tcpVars, shells, peers, due>>

Idle == [slot |-> -1, says |-> <<>>, stays |-> TRUE]
Silent == [inbound |-> <<>>, asked |-> <<Tok("nl")>>]

(* The types of the variables; no more of a file or of a listing has been read
   than there is. *)
ServerTypeOK ==
  /\ TcpTypeOK
  /\ \A s \in Slot : /\ shells[s].state \in ShellStates
                     /\ shells[s].saved \in Seq(Token)
                     /\ shells[s].binary \in BOOLEAN
                     /\ shells[s].lost \subseteq {"file", "dir", "bad", "erase", "left"}
                     /\ shells[s].file.at \in 0 .. shells[s].file.size
                     /\ shells[s].dir.at \in 0 .. shells[s].dir.size
  /\ \A p \in Pcb : peers[p].inbound \in Seq(Token) /\ peers[p].asked \in Seq(Token)
  /\ due.slot \in {-1} \cup Slot /\ due.says \in Seq(Seq(Token)) /\ due.stays \in BOOLEAN

-----------------------------------------------------------------------------
ServerInit ==
  /\ TcpInit
  /\ shells = [s \in Slot |-> NewShell]
  /\ peers = [p \in Pcb |-> Silent]
  /\ due = Idle

(* What is sent of a message due, and the disconnect of a shell that has said
   no; EspTCP then reports SentData, to the shell as well. *)
Say ==
  /\ due # Idle
  /\ IF due.says # <<>>
     THEN /\ Send(due.slot, Head(due.says))
          /\ due' = IF due.stays /\ Len(due.says) = 1 THEN Idle
                    ELSE [due EXCEPT !.says = Tail(@)]
          /\ UNCHANGED shells
     ELSE /\ Disconnect(due.slot)
          /\ shells' = [shells EXCEPT ![due.slot] = SendComplete(@, FALSE).shell]
          /\ due' = Idle
  /\ UNCHANGED peers

(* TCPevent: the shell of slot s has answered r. *)
Hear(s, r) ==
  /\ shells' = [shells EXCEPT ![s] = r.shell]
  /\ due' = IF r.says = <<>> /\ r.stays THEN Idle
            ELSE [slot |-> s, says |-> r.says, stays |-> r.stays]

(* Connected: a new shell; the slot's old one is not deleted, for EspTCP never
   reports Disconnected, nor is what that has open. *)
Connect(p) ==
  /\ due = Idle
  /\ \E s \in Slot :
       LET old == shells[s] IN
         /\ Accept(p, s)
         /\ Hear(s, [Connected EXCEPT !.shell.lost =
              old.lost \cup Undeleted(old.file, "left") \cup Undeleted(old.dir, "left")])
  /\ peers' = [peers EXCEPT ![p] = Silent]

(* Reading a file may fail. *)
MayFail(sh) ==
  IF sh.binary \/ "failingText" \in Careless THEN BOOLEAN ELSE {FALSE}

(* SentData: on to the next message. *)
Ack(p) ==
  LET s == findConnection(p) IN
  /\ due = Idle
  /\ \E n \in 1 .. net[p].unacked : Sent(p, n)
  /\ IF s < 0 THEN UNCHANGED <<shells, due>>
     ELSE \E fails \in MayFail(shells[s]) : Hear(s, SendComplete(shells[s], fails))
  /\ UNCHANGED peers

(* SentData once more, when the peer has closed, in the middle of what it may be;
   nothing is sent any more. *)
Leave(p) ==
  LET s == findConnection(p) IN
  /\ due = Idle
  /\ PeerCloses(p)
  /\ shells' = [shells EXCEPT ![s] = SendComplete(@, FALSE).shell]
  /\ peers' = [peers EXCEPT ![p] = Silent]
  /\ UNCHANGED due

Lwip(p) ==
  due = Idle /\ (Abort(p) \/ Release(p) \/ Reset(p)) /\ UNCHANGED <<shells, peers, due>>

-----------------------------------------------------------------------------
(* The peer of p has all it asked for, and the prompt. *)
Prompted(p) ==
  /\ net[p].link = "open" /\ peers[p].inbound = <<>>
  /\ net[p].wire # <<>> /\ net[p].wire[Len(net[p].wire)].kind = "prompt"

Body(k) ==
  [i \in 1 .. 3 * k |-> IF i % 3 = 0 THEN Tok("nl") ELSE Data(i - (i - 1) \div 3)]

(* What may be asked for in a mode: sendCommand of Device.mm, which sends the
   contents of a file behind the command, and more than it ever asks for. *)
Asks(binary) ==
  LET gets == IF binary \/ "wholeBuffers" \in Careless THEN Sizes
              ELSE {n \in Sizes : n % BufferSize # 0}
      bodies == {Body(k) : k \in 1 .. Lines}
                \cup IF binary THEN {<<Tok(k), Tok("nl")>> : k \in {"long", "huge"}} ELSE {}
  IN {<<Tok(k)>> : k \in {"nl", "text", "binary", "info", "erase", "run", "quit", "unknown"}}
     \cup {<<Cmd("ls", n)>> : n \in Sizes} \cup {<<Cmd("get", n)>> : n \in gets \cup {-1}}
     \cup UNION {{<<Cmd("put", n)>> \o b \o Eot : b \in bodies} : n \in {-1, 0}}

(* A peer that waits for the prompt, as Device.mm does, and asks. *)
Ask(p) ==
  /\ due = Idle /\ net[p].link = "open" /\ peers[p].inbound = <<>>
  /\ (Prompted(p) /\ net[p].unacked = 0) \/ "hurries" \in Careless
  /\ \E line \in Asks(shells[findConnection(p)].binary) :
       /\ peers' = [peers EXCEPT ![p] = [inbound |-> line, asked |-> line]]
       /\ IF line = <<Tok("nl")>> THEN UNCHANGED tcpVars ELSE Read(p)
  /\ UNCHANGED <<shells, due>>

(* Whether the next thing received may be the first k tokens of q.  A command
   comes alone, text leaves its end to a segment of its own, and binary data
   is cut only between two groups of four characters. *)
Segment(q, k, binary) ==
  IF q[1].kind \notin {"data", "long", "huge", "nl", "eot"}
  THEN k = 1 \/ "joins" \in Careless
  ELSE IF binary
  THEN k = Len(q) \/ (q[k].kind = "data" /\ q[k].n % 2 = 0) \/ "splits" \in Careless
  ELSE k < Len(q) \/ Len(q) = 1 \/ "joins" \in Careless

(* ReceivedData.  What the peer had read when it sent this is acknowledged
   first, for the same segment says so. *)
Receive(p) ==
  LET s == findConnection(p)
      q == peers[p].inbound
  IN /\ due = Idle /\ net[p].link = "open" /\ q # <<>>
     /\ net[p].unacked = 0 \/ "hurries" \in Careless
     /\ \E k \in 1 .. Len(q), fails \in MayFail(shells[s]) :
          /\ Segment(q, k, shells[s].binary)
          /\ Hear(s, Received(shells[s], SubSeq(q, 1, k), fails))
          /\ peers' = [peers EXCEPT ![p].inbound = SubSeq(q, k + 1, Len(q))]
     /\ UNCHANGED tcpVars

ServerNext ==
  \/ Say
  \/ \E p \in Pcb : Connect(p) \/ Ack(p) \/ Leave(p) \/ Lwip(p) \/ Ask(p) \/ Receive(p)

ServerSpec == ServerInit /\ [][ServerNext]_vars

(* The loop of lwIP goes on, a peer acknowledges what it is sent, and what has
   been sent arrives; nobody has to ask, to connect or to leave. *)
FairServerSpec ==
  /\ ServerSpec
  /\ WF_vars(Say)
  /\ \A p \in Pcb : WF_vars(Ack(p)) /\ WF_vars(Receive(p))

-----------------------------------------------------------------------------
(* Of the shell of a connection, a file or a directory is open only in the state
   that uses it, and neither a get, a put nor a listing is forgotten open while its
   shell lives: a file system on the ESP8266 has a handful of handles.  (What an
   erase leaves open, and a shell that is replaced, is another matter.  _file and
   _directoryEntry of Shell.cpp, which every command and error reassigns) *)
FilesAreClosed ==
  \A s \in Slot :
    LET sh == shells[s] IN
      /\ sh.lost \cap {"file", "dir"} = {}
      /\ InUse(s) => /\ sh.file.mode = "r" => sh.state = "GetFile"
                     /\ sh.file.mode = "w" => sh.state = "PutFile"
                     /\ sh.dir # None => sh.state = "ListFiles"

(* A peer that reads the end of an answer has the whole of it: after the \04 of a
   get the file's contents, each piece once and in order; with the prompt after ls
   every entry; and with the prompt after a put, if no error was shown, the file
   holds what was sent.  (received and sendComplete of Shell.cpp, whose messages
   go through the buffer of EspTCP.cpp) *)
AnswerIsWhole ==
  \A s \in Slot : InUse(s) =>
    LET p == clients[s].pcb
        wire == net[p].wire
        asked == peers[p].asked[1]
        whole == OfKind(wire, DataKinds \cup {"stale"})
    IN /\ asked.kind = "get" /\ Exists(asked) /\ Kind(wire, "eot") =>
            whole = Pieces(0, asked.n)
       /\ asked.kind = "ls" /\ Kind(wire, "prompt") => whole = Pieces(0, asked.n)
       /\ /\ asked.kind = "put" /\ Exists(asked)
          /\ Kind(wire, "prompt") /\ ~ Kind(wire, "error")
          => shells[s].saved = OfKind(peers[p].asked, DataKinds)

(* "assert(_sending)": whoever acknowledges, the client of its slot is sending,
   once the handlers are through.  (Client::sent of EspTCP.cpp) *)
AcksFindSenders ==
  due = Idle => \A p \in Pcb :
    MayAcknowledge(p) /\ findConnection(p) >= 0 => clients[findConnection(p)].sending

(* Whoever connects or asks gets to the prompt, unless the connection ends: each
   message calls forth the acknowledgement that calls forth the next, and neither
   the shell nor the client ever waits for something nobody sends.  (the states
   of Shell::sendComplete and _sending of EspTCP.cpp) *)
AnswerComes ==
  \A s \in Slot : InUse(s) ~> (InUse(s) => Prompted(clients[s].pcb))
=============================================================================

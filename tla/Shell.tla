-------------------------------- MODULE Shell --------------------------------
(***************************************************************************)
(* The shell of one connection: the commands it carries out and how it     *)
(* answers, one message for each time it hears that the last was sent.     *)
(* (src/m8rscript/Shell.h and .cpp)                                        *)
(*                                                                         *)
(* A handler is a function of the shell; it answers with the shell as it   *)
(* is afterwards, what it has sent, one message after the other, and       *)
(* whether the connection stays.                                           *)
(*                                                                         *)
(* Text is a sequence of tokens of a kind, with a number: a command with   *)
(* the size of its file or the length of its listing (-1: no such file);   *)
(* "data", the two halves of every four characters of Base64, or two       *)
(* characters of text, numbered through; "long" and "huge", a whole line   *)
(* of too many of them; "nl", the end of a line, of two characters; "eot", *)
(* one character.                                                          *)
(***************************************************************************)
EXTENDS Integers, Sequences, FiniteSetsExt

CONSTANT BufferSize      \* of the tokens of text a read of a file takes, and
                         \* (StackAllocLimit) of those it takes for Base64

ASSUME ShellConstantsOK == BufferSize \in Nat \ {0}

Tok(kind) == [kind |-> kind, n |-> 0]
Cmd(kind, n) == [kind |-> kind, n |-> n]
Data(i) == [kind |-> "data", n |-> i]
Pieces(from, k) == [i \in 1 .. k |-> Data(from + i)]
Kind(s, k) == \E i \in DOMAIN s : s[i].kind = k
DataKinds == {"data", "long", "garbled"}

(* Where s has tokens of the kinds K, and these, in their order. *)
Places(s, K) == {i \in DOMAIN s : s[i].kind \in K}
OfKind(s, K) ==
  LET I == Places(s, K)
      Nth(j) == CHOOSE i \in I : Cardinality({h \in I : h <= i}) = j
  IN [j \in 1 .. Cardinality(I) |-> s[Nth(j)]]

Welcome == <<Tok("welcome"), Tok("welcome")>>
Error == <<Tok("error")>>
Info == <<Tok("info"), Tok("info"), Tok("info")>>
Prompt == <<Tok("prompt")>>
Eot == <<Tok("eot")>>
Stale == <<Tok("stale")>>

Opened(mode, size) == [mode |-> mode, at |-> 0, size |-> size]
None == Opened("none", 0)
Bad == Opened("bad", 0)
Exists(c) == c.n >= 0

(* EspFS::open, which never answers with a null pointer: of a file that cannot be
   opened it is one that cannot be read, and ignores what is written. *)
OpenedFile(mode, c) == IF Exists(c) THEN Opened(mode, c.n) ELSE Bad

ShellStates == {"Init", "NeedPrompt", "ShowingPrompt", "ListFiles", "GetFile", "PutFile"}

(* dir and file: _directoryEntry and _file.  saved: what the file the last put
   opened holds.  lost, a history: of what nothing points to any more and nobody
   has deleted, what it is ("file", "dir", "bad": one that could not be opened),
   or how it came to that ("erase", "left": its shell was replaced). *)
NewShell == [state |-> "Init", binary |-> TRUE, file |-> None, dir |-> None,
             saved |-> <<>>, lost |-> {}]

Undeleted(what, kind) ==
  IF what = None THEN {} ELSE IF what = Bad THEN {"bad"} ELSE {kind}

Result(sh, says) == [shell |-> sh, says |-> says, stays |-> TRUE]

(* showMessage of an error, from whatever state. *)
Failed(sh) == Result([sh EXCEPT !.state = "NeedPrompt"], <<Error>>)
Done(sh) == Result([sh EXCEPT !.state = "NeedPrompt"], <<Info>>)

ShowPrompt(sh) == Result([sh EXCEPT !.state = "ShowingPrompt"], <<Prompt>>)

-----------------------------------------------------------------------------
(* Faulty variants of GetPiece: the file is never closed, or too early. *)
GetPieceRunningOn(sh, fails) ==
  Result([sh EXCEPT !.file.at = @ + BufferSize], <<Pieces(sh.file.at, BufferSize)>>)
GetPieceOnce(sh, fails) ==
  LET left == sh.file.size - sh.file.at
      k == IF left < BufferSize THEN left ELSE BufferSize
  IN Result([sh EXCEPT !.file = None],
            << IF k > 0 THEN Pieces(sh.file.at, k) ELSE <<Tok("nl")>> >>)

(* GetFile: the next piece of the file.  Of text, a piece of size 0 is sent with
   length 0, for which send takes the length of what _buffer holds: what was
   sent before, once more.  A failed read closes a binary file only. *)
GetPiece(sh, fails) ==
  LET left == sh.file.size - sh.file.at
      k == IF left < BufferSize THEN left ELSE BufferSize
      after == IF k < BufferSize THEN None ELSE [sh.file EXCEPT !.at = @ + k]
  IN IF fails \/ sh.file = Bad
     THEN Failed(IF sh.binary THEN [sh EXCEPT !.file = None] ELSE sh)
     ELSE Result([sh EXCEPT !.file = after],
                 << IF k > 0 THEN Pieces(sh.file.at, k)
                    ELSE IF sh.binary THEN <<Tok("nl")>> ELSE Stale >>)

(* sendComplete.  fails: reading the file does. *)
SendComplete(sh, fails) ==
  CASE sh.state = "Init" ->
         Result([sh EXCEPT !.state = "NeedPrompt"], <<Welcome>>)
    [] sh.state = "NeedPrompt" -> ShowPrompt(sh)
    [] sh.state = "ListFiles" ->
         IF sh.dir.at < sh.dir.size
         THEN Result([sh EXCEPT !.dir.at = @ + 1], <<Pieces(sh.dir.at, 1)>>)
         ELSE ShowPrompt([sh EXCEPT !.dir = None])
    [] sh.state = "GetFile" ->
         IF sh.file = None
         THEN Result([sh EXCEPT !.state = "NeedPrompt"], <<Eot>>)
         ELSE GetPiece(sh, fails)
    [] OTHER -> Result(sh, <<>>)

Connected == SendComplete(NewShell, FALSE)

-----------------------------------------------------------------------------
(* _file is assigned without a look at what it points to. *)
Open(sh, file) == [sh EXCEPT !.file = file, !.lost = @ \cup Undeleted(sh.file, "file")]

(* executeCommand.  erase does not delete the directory it goes through.  Every
   other command is "text" or "info" here, or "run" when there is no program to
   run: an error, and then that it has started. *)
Execute(sh, c, fails) ==
  CASE c.kind = "nl" -> Result(sh, <<>>)
    [] c.kind = "ls" ->
         SendComplete([sh EXCEPT !.dir = Opened("dir", c.n), !.state = "ListFiles",
                                 !.lost = @ \cup Undeleted(sh.dir, "dir")], fails)
    [] c.kind = "text" -> Done([sh EXCEPT !.binary = FALSE])
    [] c.kind = "binary" -> Done([sh EXCEPT !.binary = TRUE])
    [] c.kind = "info" -> Done(sh)
    [] c.kind = "erase" -> Done([sh EXCEPT !.lost = @ \cup {"erase"}])
    [] c.kind = "get" ->
         SendComplete([Open(sh, OpenedFile("r", c)) EXCEPT !.state = "GetFile"], fails)
    [] c.kind = "put" ->
         Result([Open(sh, OpenedFile("w", c)) EXCEPT !.state = "PutFile", !.saved = <<>>],
                <<>>)
    [] c.kind = "run" -> Result([sh EXCEPT !.state = "NeedPrompt"], <<Error, Info>>)
    [] c.kind = "quit" -> [Result(sh, <<>>) EXCEPT !.stays = FALSE]
    [] OTHER -> Failed(sh)

(* Faulty variants of EndPut: the file is not closed, or the prompt not sent. *)
EndPutOpen(sh) == ShowPrompt(sh)
EndPutSilently(sh) == Result([sh EXCEPT !.file = None, !.state = "NeedPrompt"], <<>>)

(* The end of a put: the file is closed and the prompt sent. *)
EndPut(sh) == ShowPrompt([sh EXCEPT !.file = None])

Write(sh, s) ==
  IF sh.file = Bad THEN sh ELSE [sh EXCEPT !.saved = @ \o OfKind(s, DataKinds)]

(* Base64::decode of each line of s, as far as s holds it: what is left of one
   piece is not kept for the next, so four characters that do not lie together
   come out as something else. *)
Decoded(s) ==
  LET offset(i) == i - (CHOOSE j \in 0 .. i : /\ j = 0 \/ s[j].kind = "nl"
                                              /\ \A k \in j + 1 .. i : s[k].kind # "nl")
      aligned(i) == IF s[i].n % 2 = 1
                    THEN offset(i) % 2 = 1 /\ i < Len(s) /\ s[i + 1].kind = "data"
                    ELSE offset(i) % 2 = 0
  IN [i \in DOMAIN s |-> IF s[i].kind = "data" /\ ~ aligned(i)
                         THEN Tok("garbled") ELSE s[i]]

(* A put goes on until a piece of binary data has at most one character after
   its last line, or a piece of text has no more than one. *)
PutEnds(sh, s) ==
  LET last == s[Len(s)].kind IN
  IF sh.binary
  THEN \/ last = "nl"
       \/ last = "eot" /\ (Len(s) = 1 \/ s[Len(s) - 1].kind = "nl")
  ELSE Len(s) = 1 /\ last = "eot"

(* received, of s, which is not empty.  Each line of more than BufferSize
   characters ("long", or "huge") is an error, but decoded; one that decodes to
   more than that ("huge") ends the connection.  What comes with a command is
   taken for its arguments. *)
Received(sh, s, fails) ==
  LET huge == Places(s, {"huge"})
      upTo == IF huge = {} THEN Len(s) ELSE Min(huge)
      large == Places(SubSeq(s, 1, upTo), {"long", "huge"})
      errors == [i \in 1 .. Cardinality(large) |-> Error]
      told == IF large = {} THEN sh ELSE [sh EXCEPT !.state = "NeedPrompt"]
      words == {i \in DOMAIN s : s[i].kind # "nl"}
      Telling(r) == [r EXCEPT !.says = errors \o @]
  IN CASE sh.state # "PutFile" ->
            Execute(sh, IF words = {} THEN Tok("nl") ELSE s[Min(words)], fails)
       [] sh.state = "PutFile" /\ ~ sh.binary ->
            IF PutEnds(sh, s) THEN EndPut(sh) ELSE Result(Write(sh, s), <<>>)
       [] sh.state = "PutFile" /\ sh.binary ->
            LET written == Write(told, SubSeq(Decoded(s), 1, upTo)) IN
            IF huge # {}
            THEN Telling([Failed([written EXCEPT !.file = None]) EXCEPT !.stays = FALSE])
            ELSE IF PutEnds(sh, s) THEN Telling(EndPut(written))
            ELSE Result(written, errors)

=============================================================================

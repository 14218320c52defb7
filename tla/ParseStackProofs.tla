-------------------------- MODULE ParseStackProofs --------------------------
(* Registers of a function of any size, for expressions of any depth: what is
   taken is given back, and no operand is overwritten before it is read. *)
EXTENDS ParseStack, FiniteSetTheorems, SequenceTheorems, TLAPS

Reg == 0 .. Wrap - 1

(* An entry depends on what its type says: a register or a local of its own, or,
   behind a reference, any of both. *)
Entries ==
  {e \in [type : Types, reads : SUBSET (Local \cup Reg), ok : BOOLEAN] :
     /\ e.type = "Register" => \E r \in Reg : e.reads = {r}
     /\ e.type = "Local" => \E x \in Local : e.reads = {x}
     /\ e.type \notin {"Register", "Local", "EltRef"} => e.reads = {}}

Config == [s : Seq(Entries), n : Reg, l : 0 .. MaxRegister + 1, k : Nat, i : BOOLEAN]

(* The registers that will be given back when the entries above the j-th of s
   are popped. *)
RegistersAbove(s, j) == {i \in j + 1 .. Len(s) : s[i].type = "Register"}
Above(s, j) == Cardinality(RegistersAbove(s, j))

(* Every register is free, held by an entry, or kept. *)
Counted(c) ==
  c.l > 0 => c.l <= c.n + 1 /\ c.n + c.k + Above(c.s, 0) = MaxRegister

(* Nothing on the stack is spoiled.  What an entry depends on lies beyond all
   registers that are free, and beyond those that are going to be when what is
   above it has been popped; and a register is held by one entry. *)
Clear(s, n) ==
  /\ \A j \in 1 .. Len(s) : s[j].ok
  /\ \A j \in 1 .. Len(s) : \A r \in s[j].reads \cap Reg : r > n + Above(s, j)
  /\ \A j, h \in 1 .. Len(s) :
       s[j].type = "Register" /\ j # h => s[j].reads \cap s[h].reads = {}

Sound(c) == c.l > 0 => c.i /\ Clear(c.s, c.n)

-----------------------------------------------------------------------------
(* What happens to the count when the stack does. *)
LEMMA AboveType ==
  ASSUME NEW s \in Seq(Entries), NEW j \in Nat
  PROVE  IsFiniteSet(RegistersAbove(s, j)) /\ Above(s, j) \in Nat
<1>1. Len(s) \in Nat /\ IsFiniteSet(j + 1 .. Len(s))
  BY LenProperties, FS_Interval
<1> QED BY <1>1, FS_Subset, FS_CardinalityType DEF RegistersAbove, Above

LEMMA AboveTop ==
  ASSUME NEW s \in Seq(Entries)
  PROVE  Above(s, Len(s)) = 0 /\ Above(<<>>, 0) = 0
<1>1. RegistersAbove(s, Len(s)) = {} /\ RegistersAbove(<<>>, 0) = {}
  BY LenProperties, EmptySeq DEF RegistersAbove
<1> QED BY <1>1, FS_EmptySet DEF Above

(* Only the types count. *)
LEMMA AboveSame ==
  ASSUME NEW s \in Seq(Entries), NEW t \in Seq(Entries), NEW j \in Nat,
         Len(s) = Len(t), \A i \in j + 1 .. Len(s) : s[i].type = t[i].type
  PROVE  Above(s, j) = Above(t, j)
<1>1. RegistersAbove(s, j) = RegistersAbove(t, j)
  BY LenProperties DEF RegistersAbove
<1> QED BY <1>1 DEF Above

Weight(e) == IF e.type = "Register" THEN 1 ELSE 0

LEMMA AboveAppend ==
  ASSUME NEW s \in Seq(Entries), NEW e \in Entries, NEW j \in 0 .. Len(s)
  PROVE  Above(Append(s, e), j) = Above(s, j) + Weight(e)
<1> DEFINE t == Append(s, e)
           m == Len(s) + 1
<1>1. Len(s) \in Nat /\ t \in Seq(Entries) /\ Len(t) = m /\ t[m] = e
      /\ \A i \in 1 .. Len(s) : t[i] = s[i]
  BY LenProperties, AppendProperties
<1> HIDE DEF t
<1>2. IsFiniteSet(RegistersAbove(s, j)) /\ Above(s, j) \in Nat /\ m \notin RegistersAbove(s, j)
  BY <1>1, AboveType DEF RegistersAbove
<1>3. CASE e.type = "Register"
  <2>1. RegistersAbove(t, j) = RegistersAbove(s, j) \cup {m}
    BY <1>1, <1>3 DEF RegistersAbove
  <2>2. Cardinality(RegistersAbove(s, j) \cup {m}) = Cardinality(RegistersAbove(s, j)) + 1
    BY <1>2, FS_AddElement
  <2> QED BY <1>3, <2>1, <2>2 DEF Above, Weight, t
<1>4. CASE e.type # "Register"
  <2>1. RegistersAbove(t, j) = RegistersAbove(s, j)
    BY <1>1, <1>4 DEF RegistersAbove
  <2> QED BY <1>2, <1>4, <2>1 DEF Above, Weight, t
<1> QED BY <1>3, <1>4

LEMMA FrontIs ==
  ASSUME NEW s \in Seq(Entries), Len(s) > 0
  PROVE  /\ Front(s) \in Seq(Entries) /\ Len(Front(s)) = Len(s) - 1
         /\ \A i \in 1 .. Len(s) - 1 : Front(s)[i] = s[i]
         /\ s[Len(s)] \in Entries /\ s = Append(Front(s), s[Len(s)])
         /\ \A j \in 0 .. Len(s) - 1 : Above(s, j) = Above(Front(s), j) + Weight(s[Len(s)])
<1>1. Len(s) \in Nat /\ Len(s) >= 1 /\ \A i \in 1 .. Len(s) : s[i] \in Entries
  BY LenProperties, ElementOfSeq
<1>2. /\ Front(s) \in Seq(Entries) /\ Len(Front(s)) = Len(s) - 1
      /\ \A i \in 1 .. Len(s) - 1 : Front(s)[i] = s[i]
  <2> DEFINE m == Len(s) - 1
  <2>1. m \in Nat /\ (\A i \in 1 .. m : s[i] \in Entries) /\ Front(s) = SubSeq(s, 1, m)
    BY <1>1 DEF Front
  <2> HIDE DEF m
  <2>2. /\ SubSeq(s, 1, m) \in Seq(Entries)
        /\ Len(SubSeq(s, 1, m)) = IF 1 <= m THEN m - 1 + 1 ELSE 0
        /\ \A i \in 1 .. m - 1 + 1 : SubSeq(s, 1, m)[i] = s[1 + i - 1]
    <3>1. m \in Int /\ 1 \in Int
      BY <2>1
    <3> QED BY ONLY <2>1, <3>1, SubSeqProperties
  <2>3. Len(SubSeq(s, 1, m)) = m /\ \A i \in 1 .. m : SubSeq(s, 1, m)[i] = s[i]
    BY <2>1, <2>2
  <2> QED BY <2>1, <2>2, <2>3 DEF m
<1>3. s = Append(Front(s), s[Len(s)])
  <2> DEFINE t == Append(Front(s), s[Len(s)])
  <2>1. t \in Seq(Entries) /\ Len(t) = Len(s) /\ t[Len(s)] = s[Len(s)]
        /\ \A i \in 1 .. Len(s) - 1 : t[i] = s[i]
    BY <1>1, <1>2, AppendProperties
  <2> HIDE DEF t
  <2>2. \A i \in 1 .. Len(s) : s[i] = t[i]
    BY <1>1, <2>1
  <2>3. s = t
    BY <2>1, <2>2, SeqEqual
  <2> QED BY <2>3 DEF t
<1>4. \A j \in 0 .. Len(s) - 1 : Above(s, j) = Above(Front(s), j) + Weight(s[Len(s)])
  <2> TAKE j \in 0 .. Len(s) - 1
  <2>1. Above(Append(Front(s), s[Len(s)]), j) = Above(Front(s), j) + Weight(s[Len(s)])
    BY <1>1, <1>2, AboveAppend
  <2> QED BY <1>3, <2>1
<1> QED BY <1>1, <1>2, <1>3, <1>4

-----------------------------------------------------------------------------
(* What the five functions all others are made of do. *)
LEMMA Modulo ==
  ASSUME NEW n \in Reg
  PROVE  /\ (n - 1) % Wrap \in Reg /\ (n + 1) % Wrap \in Reg
         /\ n >= 1 => (n - 1) % Wrap = n - 1
         /\ n + 1 < Wrap => (n + 1) % Wrap = n + 1
BY ParseStackConstantsOK DEF Reg

LEMMA OverwrittenIs ==
  ASSUME NEW s \in Seq(Entries), NEW r
  PROVE  /\ Overwritten(s, r) \in Seq(Entries) /\ Len(Overwritten(s, r)) = Len(s)
         /\ \A j \in 1 .. Len(s) : Overwritten(s, r)[j] = [s[j] EXCEPT !.ok = @ /\ r \notin s[j].reads]
<1>1. Len(s) \in Nat /\ DOMAIN s = 1 .. Len(s)
  BY LenProperties
<1>2. ASSUME NEW j \in 1 .. Len(s)
      PROVE  [s[j] EXCEPT !.ok = @ /\ r \notin s[j].reads] \in Entries
  <2> DEFINE e == s[j]
  <2>1. e \in Entries
    BY <1>2, ElementOfSeq
  <2> HIDE DEF e
  <2>2. [e EXCEPT !.ok = @ /\ r \notin e.reads] \in [type : Types, reads : SUBSET (Local \cup Reg), ok : BOOLEAN]
    BY <2>1 DEF Entries
  <2>3. [e EXCEPT !.ok = @ /\ r \notin e.reads].type = e.type
        /\ [e EXCEPT !.ok = @ /\ r \notin e.reads].reads = e.reads
    BY <2>1 DEF Entries
  <2>4. [e EXCEPT !.ok = @ /\ r \notin e.reads] \in Entries
    BY <2>1, <2>2, <2>3 DEF Entries
  <2> QED BY <2>4 DEF e
<1> DEFINE t == [j \in 1 .. Len(s) |-> [s[j] EXCEPT !.ok = @ /\ r \notin s[j].reads]]
<1>3. t \in [1 .. Len(s) -> Entries]
  BY <1>2
<1>4. Overwritten(s, r) = t
  BY <1>1 DEF Overwritten
<1>5. \A j \in 1 .. Len(s) : t[j] = [s[j] EXCEPT !.ok = @ /\ r \notin s[j].reads]
  OBVIOUS
<1> HIDE DEF t
<1>6. t \in Seq(Entries) /\ Len(t) = Len(s)
  BY <1>1, <1>3
<1> QED BY <1>4, <1>5, <1>6

LEMMA PushRegisterIs ==
  ASSUME NEW c \in Config
  PROVE  /\ PushRegister(c) \in Config
         /\ PushRegister(c).n = (c.n - 1) % Wrap
         /\ PushRegister(c).l = IF c.n < c.l THEN c.n ELSE c.l
         /\ PushRegister(c).k = c.k /\ PushRegister(c).i = c.i
         /\ PushRegister(c).s =
              Append(Overwritten(c.s, c.n), [type |-> "Register", reads |-> {c.n}, ok |-> TRUE])
         /\ [type |-> "Register", reads |-> {c.n}, ok |-> TRUE] \in Entries
<1>1. c.s \in Seq(Entries) /\ c.n \in Reg /\ c.l \in 0 .. MaxRegister + 1
      /\ c.k \in Nat /\ c.i \in BOOLEAN
  BY DEF Config
<1> DEFINE e == [type |-> "Register", reads |-> {c.n}, ok |-> TRUE]
           t == Append(Overwritten(c.s, c.n), e)
           l == IF c.n < c.l THEN c.n ELSE c.l
           n == (c.n - 1) % Wrap
<1>2. e \in Entries
  BY <1>1 DEF Entries, Types
<1>3. Overwritten(c.s, c.n) \in Seq(Entries)
  BY <1>1, OverwrittenIs
<1>4. t \in Seq(Entries)
  BY <1>2, <1>3, AppendProperties
<1>5. n \in Reg
  BY <1>1, Modulo
<1>6. l \in 0 .. MaxRegister + 1
  BY <1>1, ParseStackConstantsOK DEF Reg
<1>7. PushRegister(c) = [c EXCEPT !.n = n, !.l = l, !.s = t]
  BY DEF PushRegister, Entry, Config
<1> HIDE DEF t, l, n, e
<1>8. PushRegister(c) \in Config /\ PushRegister(c).n = n /\ PushRegister(c).l = l
      /\ PushRegister(c).k = c.k /\ PushRegister(c).i = c.i /\ PushRegister(c).s = t
  BY <1>1, <1>4, <1>5, <1>6, <1>7 DEF Config
<1> QED BY <1>2, <1>8 DEF t, l, n, e

LEMMA PopIs ==
  ASSUME NEW c \in Config, Len(c.s) > 0
  PROVE  /\ Pop(c) \in Config
         /\ Pop(c).s = Front(c.s)
         /\ Pop(c).n = IF c.s[Len(c.s)].type = "Register" THEN (c.n + 1) % Wrap ELSE c.n
         /\ Pop(c).l = c.l /\ Pop(c).k = c.k /\ Pop(c).i = c.i
<1>1. c.s \in Seq(Entries) /\ c.n \in Reg
  BY DEF Config
<1> DEFINE n == IF c.s[Len(c.s)].type = "Register" THEN (c.n + 1) % Wrap ELSE c.n
           t == Front(c.s)
<1>2. n \in Reg /\ t \in Seq(Entries)
  BY <1>1, Modulo, FrontIs
<1>3. Pop(c) = [c EXCEPT !.n = n, !.s = t]
  BY DEF Pop, Top, Last, Config
<1> HIDE DEF n, t
<1>4. Pop(c) \in Config /\ Pop(c).s = t /\ Pop(c).n = n
      /\ Pop(c).l = c.l /\ Pop(c).k = c.k /\ Pop(c).i = c.i
  BY <1>2, <1>3 DEF Config
<1> QED BY <1>4 DEF n, t

LEMMA PushIs ==
  ASSUME NEW c \in Config, NEW e \in Entries
  PROVE  /\ Push(c, e) \in Config /\ Push(c, e).s = Append(c.s, e)
         /\ Push(c, e).n = c.n /\ Push(c, e).l = c.l
         /\ Push(c, e).k = c.k /\ Push(c, e).i = c.i
<1>1. Append(c.s, e) \in Seq(Entries)
  BY AppendProperties DEF Config
<1> DEFINE t == Append(c.s, e)
<1>2. Push(c, e) = [c EXCEPT !.s = t]
  BY DEF Push, Config
<1> HIDE DEF t
<1>3. Push(c, e) \in Config /\ Push(c, e).s = t /\ Push(c, e).n = c.n
      /\ Push(c, e).l = c.l /\ Push(c, e).k = c.k /\ Push(c, e).i = c.i
  BY <1>1, <1>2 DEF Config, t
<1> QED BY <1>3 DEF t

LEMMA ReadIs ==
  ASSUME NEW c \in Config, NEW m \in 0 .. Len(c.s)
  PROVE  /\ Read(c, m) \in Config /\ Read(c, m).s = c.s
         /\ Read(c, m).n = c.n /\ Read(c, m).l = c.l /\ Read(c, m).k = c.k
         /\ c.i /\ (\A j \in DOMAIN c.s : c.s[j].ok) => Read(c, m).i
<1> DEFINE i == c.i /\ \A j \in Len(c.s) - m + 1 .. Len(c.s) : c.s[j].ok
<1>1. Read(c, m) = [c EXCEPT !.i = i]
  BY DEF Read, Config
<1>2. c.i /\ (\A j \in DOMAIN c.s : c.s[j].ok) => i
  BY LenProperties DEF Config
<1>3. i \in BOOLEAN
  BY DEF Config
<1> HIDE DEF i
<1> QED BY <1>1, <1>2, <1>3 DEF Config

(* The last two entries change places. *)
LEMMA SwapIs ==
  ASSUME NEW c \in Config, Len(c.s) > 1
  PROVE  /\ Swap(c) \in Config
         /\ Swap(c).n = c.n /\ Swap(c).l = c.l /\ Swap(c).k = c.k /\ Swap(c).i = c.i
         /\ Len(Swap(c).s) = Len(c.s)
         /\ \A j \in 1 .. Len(c.s) - 2 : Swap(c).s[j] = c.s[j]
         /\ Swap(c).s[Len(c.s) - 1] = c.s[Len(c.s)]
         /\ Swap(c).s[Len(c.s)] = c.s[Len(c.s) - 1]
<1> DEFINE s == c.s
           m == Len(s) - 2
           p == SubSeq(s, 1, m)
           q == << s[Len(s)], s[Len(s) - 1] >>
<1>1. s \in Seq(Entries) /\ Len(s) \in Nat /\ m \in Nat /\ Len(s) = m + 2
  BY LenProperties DEF Config
<1>2. \A j \in 1 .. Len(s) : s[j] \in Entries
  BY <1>1, ElementOfSeq
<1>3. q \in Seq(Entries) /\ Len(q) = 2 /\ q[1] = s[Len(s)] /\ q[2] = s[Len(s) - 1]
  BY <1>1, <1>2
<1> HIDE DEF q
<1>4. p \in Seq(Entries) /\ Len(p) = m /\ \A j \in 1 .. m : p[j] = s[j]
  <2>1. (\A j \in 1 .. m : s[j] \in Entries) /\ 1 \in Int /\ m \in Int
    BY <1>1, <1>2
  <2> HIDE DEF s, m
  <2>2. /\ SubSeq(s, 1, m) \in Seq(Entries)
        /\ Len(SubSeq(s, 1, m)) = IF 1 <= m THEN m - 1 + 1 ELSE 0
        /\ \A i \in 1 .. m - 1 + 1 : SubSeq(s, 1, m)[i] = s[1 + i - 1]
    BY ONLY <2>1, SubSeqProperties
  <2>3. Len(SubSeq(s, 1, m)) = m /\ \A i \in 1 .. m : SubSeq(s, 1, m)[i] = s[i]
    BY <1>1, <2>2
  <2> QED BY <2>2, <2>3
<1> HIDE DEF p
<1>5. p \o q \in Seq(Entries) /\ Len(p \o q) = Len(s)
      /\ \A j \in 1 .. Len(s) : (p \o q)[j] = IF j <= m THEN p[j] ELSE q[j - m]
  <2> HIDE DEF s, m
  <2>1. /\ p \o q \in Seq(Entries)
        /\ Len(p \o q) = Len(p) + Len(q)
        /\ \A j \in 1 .. Len(p) + Len(q) :
             (p \o q)[j] = IF j <= Len(p) THEN p[j] ELSE q[j - Len(p)]
    BY ONLY <1>3, <1>4, ConcatProperties
  <2> QED BY <1>1, <1>3, <1>4, <2>1
<1> DEFINE t == p \o q
<1>6. Swap(c) = [c EXCEPT !.s = t]
  BY DEF Swap, Config, t, p, q
<1>7. t \in Seq(Entries) /\ Len(t) = Len(s) /\ (\A j \in 1 .. Len(s) - 2 : t[j] = s[j])
      /\ t[Len(s) - 1] = s[Len(s)] /\ t[Len(s)] = s[Len(s) - 1]
  BY <1>1, <1>3, <1>4, <1>5
<1> HIDE DEF t
<1> QED BY <1>6, <1>7 DEF Config

-----------------------------------------------------------------------------
(* The same functions, and the invariant. *)
Valid(c) == c \in Config /\ Counted(c)

(* The first m entries of d stand for what those of c do. *)
SameBelow(c, d, m) ==
  \A j \in 1 .. m : d.s[j].type = c.s[j].type /\ d.s[j].reads = c.s[j].reads

LEMMA ConfigTypes ==
  ASSUME NEW c \in Config
  PROVE  /\ c.s \in Seq(Entries) /\ c.n \in Reg /\ c.l \in Nat
         /\ c.k \in Nat /\ c.i \in BOOLEAN /\ c.n \in Nat
         /\ Len(c.s) \in Nat /\ DOMAIN c.s = 1 .. Len(c.s)
         /\ \A j \in 1 .. Len(c.s) : c.s[j] \in Entries
         /\ \A j \in 0 .. Len(c.s) : Above(c.s, j) \in Nat
<1>1. /\ c.s \in Seq(Entries) /\ c.n \in Reg /\ c.l \in Nat
      /\ c.k \in Nat /\ c.i \in BOOLEAN /\ c.n \in Nat
  BY ParseStackConstantsOK DEF Config, Reg
<1> DEFINE s == c.s
<1>2. s \in Seq(Entries)
  BY <1>1
<1> HIDE DEF s
<1>3. Len(s) \in Nat /\ DOMAIN s = 1 .. Len(s) /\ \A j \in 1 .. Len(s) : s[j] \in Entries
  BY <1>2, LenProperties, ElementOfSeq
<1>4. \A j \in 0 .. Len(s) : Above(s, j) \in Nat
  BY <1>2, <1>3, AboveType
<1> QED BY <1>1, <1>3, <1>4 DEF s

LEMMA EntryTypes ==
  ASSUME NEW e \in Entries
  PROVE  /\ e.type \in Types /\ e.reads \subseteq Local \cup Reg /\ e.ok \in BOOLEAN
         /\ e.type = "Register" => \E r \in Reg : e.reads = {r}
         /\ e.type = "Local" => \E x \in Local : e.reads = {x}
         /\ e.type \notin {"Register", "Local", "EltRef"} => e.reads = {}
         /\ e.type \notin {"Register", "EltRef"} => e.reads \cap Reg = {}
         /\ Weight(e) \in 0 .. 1
BY ParseStackConstantsOK DEF Entries, Reg, Weight

InOne(n) == [type |-> "Register", reads |-> {n}, ok |-> TRUE]

(* A free register is written: nothing is spoiled. *)
LEMMA WriteFree ==
  ASSUME NEW s \in Seq(Entries), NEW n \in Reg
  PROVE  LET t == Append(Overwritten(s, n), InOne(n)) IN
         /\ t \in Seq(Entries) /\ Len(t) = Len(s) + 1 /\ t[Len(s) + 1] = InOne(n)
         /\ \A j \in 1 .. Len(s) : t[j].type = s[j].type /\ t[j].reads = s[j].reads
         /\ \A j \in 0 .. Len(s) : Above(t, j) = Above(s, j) + 1
         /\ n >= 1 /\ Clear(s, n) => Clear(t, n - 1)
<1> DEFINE o == Overwritten(s, n)
           e == InOne(n)
           t == Append(o, e)
           m == Len(s)
<1>1. n \in Nat /\ m \in Nat /\ (\A j \in 0 .. m : Above(s, j) \in Nat) /\ \A j \in 1 .. m : s[j] \in Entries
  BY LenProperties, ElementOfSeq, AboveType DEF Reg
<1>2. e \in Entries /\ e.type = "Register" /\ e.reads = {n} /\ e.ok /\ Weight(e) = 1
  BY DEF Entries, Types, InOne, Weight
<1>3. o \in Seq(Entries) /\ Len(o) = m
      /\ \A j \in 1 .. m : o[j] = [s[j] EXCEPT !.ok = @ /\ n \notin s[j].reads]
  BY OverwrittenIs
<1>4. \A j \in 1 .. m : /\ o[j].type = s[j].type /\ o[j].reads = s[j].reads
                        /\ o[j].ok = (s[j].ok /\ n \notin s[j].reads)
  BY <1>1, <1>3 DEF Entries
<1> HIDE DEF o, e
<1>5. /\ t \in Seq(Entries) /\ Len(t) = m + 1 /\ t[m + 1] = e
      /\ \A j \in 1 .. m : t[j] = o[j]
  BY <1>1, <1>2, <1>3, AppendProperties
<1>6. \A j \in 0 .. m : Above(t, j) = Above(s, j) + 1
  <2> TAKE j \in 0 .. m
  <2>1. Above(t, j) = Above(o, j) + Weight(e)
    BY <1>2, <1>3, AboveAppend
  <2>2. j \in Nat /\ \A i \in j + 1 .. Len(s) : s[i].type = o[i].type
    BY <1>1, <1>4
  <2>3. Above(s, j) = Above(o, j)
    BY <1>3, <2>2, AboveSame
  <2> QED BY <1>2, <2>1, <2>3
<1>7. Above(t, m + 1) = 0
  BY <1>5, AboveTop
<1> HIDE DEF t, m
<1>8. ASSUME n >= 1, Clear(s, n) PROVE Clear(t, n - 1)
  <2>1. /\ \A j \in 1 .. m : s[j].ok
        /\ \A j \in 1 .. m : \A r \in s[j].reads \cap Reg : r > n + Above(s, j)
        /\ \A j, h \in 1 .. m :
             s[j].type = "Register" /\ j # h => s[j].reads \cap s[h].reads = {}
    BY <1>8 DEF Clear, m
  <2>2. ASSUME NEW j \in 1 .. m PROVE n \notin s[j].reads
    <3>1. n \in s[j].reads => n > n + Above(s, j)
      BY <2>1
    <3>2. Above(s, j) \in Nat
      BY <1>1
    <3> QED BY <1>1, <3>1, <3>2
  <2>3. ASSUME NEW j \in 1 .. m + 1 PROVE j \in 1 .. m \/ j = m + 1
    BY <1>1
  <2>4. ASSUME NEW j \in 1 .. m + 1 PROVE t[j].ok
    <3>1. CASE j \in 1 .. m
      BY <1>4, <1>5, <2>1, <2>2, <3>1
    <3>2. CASE j = m + 1
      BY <1>2, <1>5, <3>2
    <3> QED BY <2>3, <3>1, <3>2
  <2>5. ASSUME NEW j \in 1 .. m + 1, NEW r \in t[j].reads \cap Reg
        PROVE  r > n - 1 + Above(t, j)
    <3>1. CASE j \in 1 .. m
      <4>1. r \in s[j].reads \cap Reg
        BY <1>4, <1>5, <2>5, <3>1
      <4>2. r > n + Above(s, j) /\ r \in Int
        BY <2>1, <3>1, <4>1 DEF Reg
      <4>3. Above(t, j) = Above(s, j) + 1 /\ Above(s, j) \in Nat
        BY <1>1, <1>6, <3>1
      <4> QED BY <1>1, <4>2, <4>3
    <3>2. CASE j = m + 1
      BY <1>1, <1>2, <1>5, <1>7, <2>5, <3>2
    <3> QED BY <2>3, <3>1, <3>2
  <2>6. ASSUME NEW j \in 1 .. m + 1, NEW h \in 1 .. m + 1, t[j].type = "Register", j # h
        PROVE  t[j].reads \cap t[h].reads = {}
    <3>1. CASE j \in 1 .. m /\ h \in 1 .. m
      BY <1>4, <1>5, <2>1, <2>6, <3>1
    <3>2. CASE j \in 1 .. m /\ h = m + 1
      <4>1. t[j].reads = s[j].reads /\ t[h].reads = {n}
        BY <1>2, <1>4, <1>5, <3>2
      <4> QED BY <2>2, <3>2, <4>1
    <3>3. CASE j = m + 1 /\ h \in 1 .. m
      <4>1. t[h].reads = s[h].reads /\ t[j].reads = {n}
        BY <1>2, <1>4, <1>5, <3>3
      <4> QED BY <2>2, <3>3, <4>1
    <3> QED BY <2>3, <2>6, <3>1, <3>2, <3>3
  <2> QED BY <1>5, <2>4, <2>5, <2>6 DEF Clear
<1> QED BY <1>2, <1>3, <1>4, <1>5, <1>6, <1>8 DEF t, o, e, m

LEMMA PushRegisterKeeps ==
  ASSUME NEW c, Valid(c)
  PROVE  /\ Valid(PushRegister(c))
         /\ Len(PushRegister(c).s) = Len(c.s) + 1
         /\ SameBelow(c, PushRegister(c), Len(c.s))
         /\ PushRegister(c).s[Len(c.s) + 1].type = "Register"
         /\ Sound(c) => Sound(PushRegister(c))
<1> DEFINE d == PushRegister(c)
           s == c.s
           t == d.s
           n == c.n
<1>1. c \in Config /\ Counted(c)
  BY DEF Valid
<1>2. s \in Seq(Entries) /\ n \in Reg /\ n \in Nat /\ c.l \in Nat /\ c.k \in Nat
      /\ Len(s) \in Nat /\ Above(s, 0) \in Nat
  BY <1>1, ConfigTypes
<1>3. /\ d \in Config /\ d.n = (n - 1) % Wrap /\ d.k = c.k /\ d.i = c.i
      /\ d.l = (IF n < c.l THEN n ELSE c.l) /\ t = Append(Overwritten(s, n), InOne(n))
  BY <1>1, PushRegisterIs DEF InOne
<1> HIDE DEF d, s, t, n
<1>4. /\ t \in Seq(Entries) /\ Len(t) = Len(s) + 1 /\ t[Len(s) + 1] = InOne(n)
      /\ \A j \in 1 .. Len(s) : t[j].type = s[j].type /\ t[j].reads = s[j].reads
      /\ \A j \in 0 .. Len(s) : Above(t, j) = Above(s, j) + 1
      /\ n >= 1 /\ Clear(s, n) => Clear(t, n - 1)
  BY <1>2, <1>3, WriteFree
<1>5. d.l > 0 => c.l > 0 /\ n >= 1 /\ d.n = n - 1 /\ d.l <= n
  <2>1. n >= 1 => (n - 1) % Wrap = n - 1
    BY <1>2, Modulo
  <2> DEFINE l == c.l
  <2>2. l \in Nat /\ n \in Nat /\ d.n = (n - 1) % Wrap /\ d.l = IF n < l THEN n ELSE l
    BY <1>2, <1>3
  <2> HIDE DEF l
  <2>3. CASE n < l
    BY <2>1, <2>2, <2>3 DEF l
  <2>4. CASE ~(n < l)
    BY <2>1, <2>2, <2>4 DEF l
  <2> QED BY <2>3, <2>4
<1>6. Above(t, 0) = Above(s, 0) + 1
  BY <1>2, <1>4
<1>7. Counted(d)
  <2>1. c.l > 0 => n + c.k + Above(s, 0) = MaxRegister
    BY <1>1 DEF Counted, s, n
  <2>2. ASSUME d.l > 0 PROVE d.l <= d.n + 1 /\ d.n + d.k + Above(t, 0) = MaxRegister
    <3> DEFINE k == c.k
               a == Above(s, 0)
    <3>1. n \in Nat /\ k \in Nat /\ a \in Nat /\ n + k + a = MaxRegister
      BY <1>2, <1>5, <2>1, <2>2
    <3>2. d.n = n - 1 /\ d.l <= n /\ d.k = k /\ Above(t, 0) = a + 1
      BY <1>3, <1>5, <1>6, <2>2
    <3> HIDE DEF k, a
    <3> QED BY <3>1, <3>2
  <2> QED BY <2>2 DEF Counted, t
<1>8. Sound(c) => Sound(d)
  BY <1>3, <1>4, <1>5 DEF Sound, s, t, n
<1>9. SameBelow(c, d, Len(s)) /\ t[Len(s) + 1].type = "Register"
  BY <1>4 DEF SameBelow, s, t, InOne
<1> QED BY <1>3, <1>4, <1>7, <1>8, <1>9 DEF Valid, d, s, t

-----------------------------------------------------------------------------
(* A clear stack stays clear when its last entry goes, when an entry comes that
   is no register, when the last two change places, and when what its entries
   depend on stays. *)
LEMMA FrontClear ==
  ASSUME NEW s \in Seq(Entries), NEW n \in Reg, Len(s) > 0, Clear(s, n)
  PROVE  Clear(Front(s), n + Weight(s[Len(s)]))
<1> DEFINE t == Front(s)
           m == Len(s) - 1
           w == Weight(s[Len(s)])
<1>1. Len(s) \in Nat /\ m \in Nat /\ Len(s) = m + 1 /\ n \in Nat
      /\ (\A j \in 1 .. Len(s) : s[j] \in Entries)
  BY LenProperties, ElementOfSeq DEF Reg
<1>2. t \in Seq(Entries) /\ Len(t) = m /\ (\A j \in 1 .. m : t[j] = s[j])
      /\ (\A j \in 0 .. m : Above(s, j) = Above(t, j) + w) /\ w \in 0 .. 1
      /\ \A j \in 0 .. m : Above(t, j) \in Nat
  <2>1. /\ t \in Seq(Entries) /\ Len(t) = m /\ (\A j \in 1 .. m : t[j] = s[j])
        /\ s[Len(s)] \in Entries
        /\ \A j \in 0 .. m : Above(s, j) = Above(t, j) + w
    BY FrontIs
  <2>2. w \in 0 .. 1
    BY <2>1, EntryTypes
  <2>3. 0 .. m \subseteq Nat
    OBVIOUS
  <2> HIDE DEF t, m, w
  <2>4. \A j \in 0 .. m : Above(t, j) \in Nat
    BY <2>1, <2>3, AboveType
  <2> QED BY <2>1, <2>2, <2>4
<1>3. /\ \A j \in 1 .. m + 1 : s[j].ok
      /\ \A j \in 1 .. m + 1 : \A r \in s[j].reads \cap Reg : r > n + Above(s, j)
      /\ \A j, h \in 1 .. m + 1 :
           s[j].type = "Register" /\ j # h => s[j].reads \cap s[h].reads = {}
  BY <1>1 DEF Clear
<1> HIDE DEF t, m, w
<1>4. \A j \in 1 .. m : t[j].ok
  BY <1>1, <1>2, <1>3
<1>5. ASSUME NEW j \in 1 .. m, NEW r \in t[j].reads \cap Reg
      PROVE  r > (n + w) + Above(t, j)
  <2>1. r > n + Above(s, j) /\ r \in Int
    BY <1>1, <1>2, <1>3, <1>5 DEF Reg
  <2>2. Above(s, j) = Above(t, j) + w /\ Above(t, j) \in Nat /\ w \in Nat
    BY <1>1, <1>2
  <2> QED BY <1>1, <2>1, <2>2
<1>6. ASSUME NEW j \in 1 .. m, NEW h \in 1 .. m, t[j].type = "Register", j # h
      PROVE  t[j].reads \cap t[h].reads = {}
  BY <1>1, <1>2, <1>3, <1>6
<1> QED BY <1>2, <1>4, <1>5, <1>6 DEF Clear, t, w

LEMMA AppendClear ==
  ASSUME NEW s \in Seq(Entries), NEW n \in Reg, NEW e \in Entries,
         Clear(s, n), e.type # "Register", e.ok,
         \A r \in e.reads \cap Reg : r > n,
         \A j \in 1 .. Len(s) : s[j].type = "Register" => s[j].reads \cap e.reads = {}
  PROVE  Clear(Append(s, e), n)
<1> DEFINE t == Append(s, e)
           m == Len(s)
<1>1. m \in Nat /\ n \in Nat /\ (\A j \in 0 .. m : Above(s, j) \in Nat)
  BY LenProperties, AboveType DEF Reg
<1>2. t \in Seq(Entries) /\ Len(t) = m + 1 /\ t[m + 1] = e /\ (\A j \in 1 .. m : t[j] = s[j])
      /\ \A j \in 0 .. m : Above(t, j) = Above(s, j)
  <2>1. \A j \in 0 .. m : Above(t, j) = Above(s, j) + 0
    BY AboveAppend DEF Weight
  <2> QED BY <1>1, <2>1, AppendProperties
<1>3. Above(t, m + 1) = 0
  BY <1>2, AboveTop
<1>4. /\ \A j \in 1 .. m : s[j].ok
      /\ \A j \in 1 .. m : \A r \in s[j].reads \cap Reg : r > n + Above(s, j)
      /\ \A j, h \in 1 .. m :
           s[j].type = "Register" /\ j # h => s[j].reads \cap s[h].reads = {}
  BY DEF Clear
<1> HIDE DEF t, m
<1>5. ASSUME NEW j \in 1 .. m + 1 PROVE j \in 1 .. m \/ j = m + 1
  BY <1>1
<1>6. \A j \in 1 .. m + 1 : t[j].ok
  BY <1>2, <1>4, <1>5
<1>7. ASSUME NEW j \in 1 .. m + 1, NEW r \in t[j].reads \cap Reg PROVE r > n + Above(t, j)
  <2>1. CASE j \in 1 .. m
    BY <1>1, <1>2, <1>4, <1>7, <2>1
  <2>2. CASE j = m + 1
    <3>1. r > n /\ r \in Int /\ Above(t, j) = 0
      BY <1>2, <1>3, <1>7, <2>2 DEF Reg
    <3> QED BY <1>1, <3>1
  <2> QED BY <1>5, <2>1, <2>2
<1>8. ASSUME NEW j \in 1 .. m + 1, NEW h \in 1 .. m + 1, t[j].type = "Register", j # h
      PROVE  t[j].reads \cap t[h].reads = {}
  <2>1. j \in 1 .. m
    BY <1>2, <1>5, <1>8
  <2>2. CASE h \in 1 .. m
    BY <1>2, <1>4, <1>8, <2>1, <2>2
  <2>3. CASE h = m + 1
    BY <1>2, <1>8, <2>1, <2>3 DEF m
  <2> QED BY <1>5, <2>2, <2>3
<1> QED BY <1>2, <1>6, <1>7, <1>8 DEF Clear, t

LEMMA LessClear ==
  ASSUME NEW s \in Seq(Entries), NEW n \in Nat, NEW k \in Nat, k <= n, Clear(s, n)
  PROVE  Clear(s, k)
<1>1. Len(s) \in Nat /\ \A j \in 1 .. Len(s) : Above(s, j) \in Nat
  BY LenProperties, AboveType
<1>2. ASSUME NEW j \in 1 .. Len(s), NEW r \in s[j].reads \cap Reg PROVE r > k + Above(s, j)
  <2>1. r > n + Above(s, j) /\ r \in Int
    BY <1>2 DEF Clear, Reg
  <2> QED BY <1>1, <2>1
<1> QED BY <1>2 DEF Clear

LEMMA AlikeClear ==
  ASSUME NEW s \in Seq(Entries), NEW t \in Seq(Entries), NEW n, Clear(s, n),
         Len(t) = Len(s),
         \A j \in 1 .. Len(s) : t[j].type = s[j].type /\ t[j].reads = s[j].reads /\ t[j].ok
  PROVE  Clear(t, n)
<1>1. Len(s) \in Nat
  BY LenProperties
<1>2. ASSUME NEW j \in 1 .. Len(s) PROVE Above(t, j) = Above(s, j)
  <2>1. \A i \in j + 1 .. Len(t) : t[i].type = s[i].type
    BY <1>1
  <2> QED BY <1>1, <2>1, AboveSame
<1> QED BY <1>2 DEF Clear

Swapped(s, t) ==
  /\ Len(t) = Len(s)
  /\ \A j \in 1 .. Len(s) - 2 : t[j] = s[j]
  /\ t[Len(s) - 1] = s[Len(s)] /\ t[Len(s)] = s[Len(s) - 1]

LEMMA AboveSwapped ==
  ASSUME NEW s \in Seq(Entries), NEW t \in Seq(Entries), Len(s) > 1, Swapped(s, t)
  PROVE  /\ \A j \in 0 .. Len(s) - 2 : Above(t, j) = Above(s, j)
         /\ Above(s, Len(s) - 1) = Weight(s[Len(s)]) /\ Above(t, Len(s) - 1) = Weight(s[Len(s) - 1])
         /\ Above(s, Len(s)) = 0 /\ Above(t, Len(s)) = 0
<1> DEFINE m == Len(s)
           p == Front(s)
           q == Front(t)
<1>1. m \in Nat /\ m > 1 /\ Len(t) = m /\ Len(s) = m
      /\ (\A j \in 1 .. m - 2 : t[j] = s[j]) /\ t[m - 1] = s[m] /\ t[m] = s[m - 1]
      /\ s[m] \in Entries /\ s[m - 1] \in Entries
  BY LenProperties, ElementOfSeq DEF Swapped
<1> HIDE DEF m
<1>2. /\ p \in Seq(Entries) /\ Len(p) = m - 1 /\ (\A i \in 1 .. m - 1 : p[i] = s[i])
      /\ (\A j \in 0 .. m - 1 : Above(s, j) = Above(p, j) + Weight(s[m]))
  <2>1. Len(s) > 0 /\ Len(s) = m
    BY <1>1
  <2>2. /\ p \in Seq(Entries) /\ Len(p) = Len(s) - 1
        /\ (\A i \in 1 .. Len(s) - 1 : p[i] = s[i])
        /\ (\A j \in 0 .. Len(s) - 1 : Above(s, j) = Above(p, j) + Weight(s[Len(s)]))
    BY <2>1, FrontIs
  <2> QED BY ONLY <2>1, <2>2
<1>3. /\ q \in Seq(Entries) /\ Len(q) = m - 1 /\ (\A i \in 1 .. m - 1 : q[i] = t[i])
      /\ (\A j \in 0 .. m - 1 : Above(t, j) = Above(q, j) + Weight(t[m]))
  <2>1. Len(t) > 0 /\ Len(t) = m
    BY <1>1
  <2>2. /\ q \in Seq(Entries) /\ Len(q) = Len(t) - 1
        /\ (\A i \in 1 .. Len(t) - 1 : q[i] = t[i])
        /\ (\A j \in 0 .. Len(t) - 1 : Above(t, j) = Above(q, j) + Weight(t[Len(t)]))
    BY <2>1, FrontIs
  <2> QED BY ONLY <2>1, <2>2
<1> HIDE DEF p, q
<1> DEFINE u == Front(p)
           v == Front(q)
<1>4. /\ u \in Seq(Entries) /\ Len(u) = m - 2 /\ (\A i \in 1 .. m - 2 : u[i] = p[i])
      /\ (\A j \in 0 .. m - 2 : Above(p, j) = Above(u, j) + Weight(p[m - 1]))
  BY <1>1, <1>2, FrontIs
<1>5. /\ v \in Seq(Entries) /\ Len(v) = m - 2 /\ (\A i \in 1 .. m - 2 : v[i] = q[i])
      /\ (\A j \in 0 .. m - 2 : Above(q, j) = Above(v, j) + Weight(q[m - 1]))
  BY <1>1, <1>3, FrontIs
<1> HIDE DEF u, v
<1>6. \A i \in 1 .. m - 2 : u[i] = v[i]
  BY <1>1, <1>2, <1>3, <1>4, <1>5
<1>7. ASSUME NEW j \in 0 .. m - 2 PROVE Above(u, j) = Above(v, j) /\ Above(u, j) \in Nat
  <2>1. j \in Nat /\ Len(u) = Len(v) /\ \A i \in j + 1 .. Len(u) : u[i].type = v[i].type
    BY <1>1, <1>4, <1>5, <1>6
  <2>2. Above(u, j) = Above(v, j)
    BY <1>4, <1>5, <2>1, AboveSame
  <2> QED BY <1>4, <2>1, <2>2, AboveType
<1>8. Weight(s[m]) \in Nat /\ Weight(s[m - 1]) \in Nat
  BY <1>1, EntryTypes
<1>9. ASSUME NEW j \in 0 .. m - 2 PROVE Above(t, j) = Above(s, j)
  <2>1. /\ Above(s, j) = (Above(u, j) + Weight(s[m - 1])) + Weight(s[m])
        /\ Above(t, j) = (Above(v, j) + Weight(s[m])) + Weight(s[m - 1])
    BY <1>1, <1>2, <1>3, <1>4, <1>5
  <2> QED BY <1>7, <1>8, <2>1
<1>10. Above(p, m - 1) = 0 /\ Above(q, m - 1) = 0 /\ Above(s, m) = 0 /\ Above(t, m) = 0
  BY <1>1, <1>2, <1>3, AboveTop
<1>11. Above(s, m - 1) = Weight(s[m]) /\ Above(t, m - 1) = Weight(s[m - 1])
  BY <1>1, <1>2, <1>3, <1>8, <1>10
<1> QED BY <1>9, <1>10, <1>11 DEF m

LEMMA SwappedClear ==
  ASSUME NEW s \in Seq(Entries), NEW t \in Seq(Entries), NEW n \in Reg,
         Len(s) > 1, Swapped(s, t), Clear(s, n),
         s[Len(s) - 1].type # "Register" \/ s[Len(s)].reads \cap Reg = {}
  PROVE  Clear(t, n)
<1> DEFINE m == Len(s)
<1>1. m \in Nat /\ m > 1 /\ Len(t) = m /\ n \in Nat
      /\ (\A j \in 1 .. m - 2 : t[j] = s[j]) /\ t[m - 1] = s[m] /\ t[m] = s[m - 1]
      /\ (s[m - 1].type # "Register" \/ s[m].reads \cap Reg = {})
  BY LenProperties DEF Swapped, Reg
<1>2. /\ \A j \in 0 .. m - 2 : Above(t, j) = Above(s, j)
      /\ Above(s, m - 1) = Weight(s[m]) /\ Above(t, m - 1) = Weight(s[m - 1])
      /\ Above(s, m) = 0 /\ Above(t, m) = 0
  BY AboveSwapped
<1>3. /\ \A j \in 1 .. m : s[j].ok
      /\ \A j \in 1 .. m : \A r \in s[j].reads \cap Reg : r > n + Above(s, j)
      /\ \A j, h \in 1 .. m :
           s[j].type = "Register" /\ j # h => s[j].reads \cap s[h].reads = {}
  BY DEF Clear
<1>4. Weight(s[m]) \in Nat
  BY LenProperties, ElementOfSeq, EntryTypes
<1> HIDE DEF m
<1>5. ASSUME NEW j \in 1 .. m PROVE j \in 1 .. m - 2 \/ j = m - 1 \/ j = m
  BY <1>1
<1>6. m - 1 \in 1 .. m /\ m \in 1 .. m /\ 1 .. m - 2 \subseteq 1 .. m
  BY <1>1
<1>7. ASSUME NEW j \in 1 .. m PROVE t[j].ok
  BY <1>1, <1>3, <1>5, <1>6
<1>8. ASSUME NEW j \in 1 .. m, NEW r \in t[j].reads \cap Reg PROVE r > n + Above(t, j)
  <2>1. CASE j \in 1 .. m - 2
    BY <1>1, <1>2, <1>3, <1>6, <1>8, <2>1
  <2>2. CASE j = m - 1
    <3>1. r \in s[m].reads \cap Reg /\ r \in Int
      BY <1>1, <1>8, <2>2 DEF Reg
    <3>2. Weight(s[m - 1]) = 0
      BY <1>1, <3>1 DEF Weight
    <3>3. r > n + 0
      BY <1>2, <1>3, <1>6, <3>1
    <3> QED BY <1>2, <2>2, <3>2, <3>3
  <2>3. CASE j = m
    <3>1. r \in s[m - 1].reads \cap Reg /\ r \in Int
      BY <1>1, <1>8, <2>3 DEF Reg
    <3>2. r > n + Weight(s[m])
      BY <1>2, <1>3, <1>6, <3>1
    <3>3. r > n + 0
      BY <1>1, <1>4, <3>1, <3>2
    <3> QED BY <1>2, <2>3, <3>3
  <2> QED BY <1>5, <2>1, <2>2, <2>3
<1> DEFINE f == [j \in 1 .. m |-> IF j = m THEN m - 1 ELSE IF j = m - 1 THEN m ELSE j]
<1>9. /\ \A j \in 1 .. m : f[j] \in 1 .. m /\ t[j] = s[f[j]]
      /\ \A j, h \in 1 .. m : j # h => f[j] # f[h]
  BY <1>1, <1>5
<1> HIDE DEF f
<1>10. ASSUME NEW j \in 1 .. m, NEW h \in 1 .. m, t[j].type = "Register", j # h
       PROVE  t[j].reads \cap t[h].reads = {}
  BY <1>3, <1>9, <1>10
<1> QED BY <1>1, <1>7, <1>8, <1>10 DEF Clear

-----------------------------------------------------------------------------
(* The same for the functions. *)
LEMMA CountedIs ==
  ASSUME NEW c \in Config, Counted(c), c.l > 0
  PROVE  /\ c.n \in Nat /\ c.k \in Nat /\ Above(c.s, 0) \in Nat /\ c.l \in Nat
         /\ c.l <= c.n + 1 /\ c.n + c.k + Above(c.s, 0) = MaxRegister
BY ConfigTypes DEF Counted

LEMMA PopKeeps ==
  ASSUME NEW c, Valid(c), Len(c.s) > 0
  PROVE  /\ Valid(Pop(c)) /\ Len(Pop(c).s) = Len(c.s) - 1
         /\ \A j \in 1 .. Len(c.s) - 1 : Pop(c).s[j] = c.s[j]
         /\ Sound(c) => Sound(Pop(c))
<1> DEFINE d == Pop(c)
           s == c.s
           n == c.n
           w == Weight(s[Len(s)])
<1>1. c \in Config /\ Counted(c)
  BY DEF Valid
<1>2. s \in Seq(Entries) /\ n \in Reg /\ Len(s) > 0 /\ Len(s) \in Nat
  BY <1>1, ConfigTypes
<1>3. /\ d \in Config /\ d.s = Front(s) /\ d.l = c.l /\ d.k = c.k /\ d.i = c.i
      /\ d.n = IF s[Len(s)].type = "Register" THEN (n + 1) % Wrap ELSE n
  BY <1>1, PopIs
<1> HIDE DEF d
<1>4. /\ Front(s) \in Seq(Entries) /\ Len(Front(s)) = Len(s) - 1
      /\ \A i \in 1 .. Len(s) - 1 : Front(s)[i] = s[i]
      /\ s[Len(s)] \in Entries
      /\ \A j \in 0 .. Len(s) - 1 : Above(s, j) = Above(Front(s), j) + w
  BY <1>2, FrontIs
<1>5. w \in 0 .. 1 /\ Above(Front(s), 0) \in Nat /\ Above(s, 0) = Above(Front(s), 0) + w
  <2>1. w \in 0 .. 1
    BY <1>4, EntryTypes
  <2>2. Above(Front(s), 0) \in Nat
    BY <1>4, AboveType
  <2>3. 0 \in 0 .. Len(s) - 1
    BY <1>2
  <2> QED BY <1>4, <2>1, <2>2, <2>3
<1>6. ASSUME c.l > 0
      PROVE  /\ d.n = n + w
             /\ c.l <= n + w + 1 /\ n + w + c.k + Above(Front(s), 0) = MaxRegister
  <2> DEFINE k == c.k
             l == c.l
             a == Above(Front(s), 0)
  <2>1. n \in Nat /\ k \in Nat /\ l \in Nat /\ l <= n + 1 /\ n + k + Above(s, 0) = MaxRegister
    BY <1>1, <1>6, CountedIs
  <2>2. a \in Nat /\ w \in 0 .. 1 /\ Above(s, 0) = a + w
    BY <1>5
  <2>3. w = IF s[Len(s)].type = "Register" THEN 1 ELSE 0
    BY DEF Weight
  <2> HIDE DEF k, l, a, w, n, s
  <2>4. n + w + k + a = MaxRegister /\ l <= n + w + 1
    BY <2>1, <2>2
  <2>5. w = 1 => n + 1 < Wrap
    <3>1. n + w <= MaxRegister
      BY <2>1, <2>2, <2>4
    <3> QED BY <2>1, <3>1, ParseStackConstantsOK
  <2>6. d.n = n + w
    <3>1. n + 1 < Wrap => (n + 1) % Wrap = n + 1
      BY <1>2, Modulo
    <3>2. CASE s[Len(s)].type = "Register"
      BY <1>3, <2>3, <2>5, <3>1, <3>2
    <3>3. CASE s[Len(s)].type # "Register"
      BY <1>3, <2>1, <2>3, <3>3
    <3> QED BY <3>2, <3>3
  <2> QED BY <2>4, <2>6 DEF k, l, a, n
<1>7. Counted(d)
  BY <1>3, <1>6 DEF Counted
<1>8. Sound(c) => Sound(d)
  <2>1. ASSUME c.l > 0, c.i, Clear(s, n) PROVE d.i /\ Clear(d.s, d.n)
    <3>1. Clear(Front(s), n + Weight(s[Len(s)]))
      BY <1>2, <2>1, FrontClear
    <3> QED BY <1>3, <1>6, <2>1, <3>1
  <2> QED BY <1>3, <2>1 DEF Sound
<1> QED BY <1>3, <1>4, <1>7, <1>8 DEF Valid, d, s

LEMMA PushKeeps ==
  ASSUME NEW c, Valid(c), NEW e \in Entries, e.type # "Register"
  PROVE  /\ Valid(Push(c, e)) /\ Len(Push(c, e).s) = Len(c.s) + 1
         /\ \A j \in 1 .. Len(c.s) : Push(c, e).s[j] = c.s[j]
         /\ Push(c, e).s[Len(c.s) + 1] = e
         /\ e.ok /\ e.reads \cap Reg = {} /\ Sound(c) => Sound(Push(c, e))
         /\ Len(c.s) > 0 /\ e = c.s[Len(c.s)] /\ Sound(c) => Sound(Push(c, e))
<1> DEFINE d == Push(c, e)
           s == c.s
           n == c.n
<1>1. c \in Config /\ Counted(c)
  BY DEF Valid
<1>2. s \in Seq(Entries) /\ n \in Reg /\ n \in Nat /\ Len(s) \in Nat /\ Above(s, 0) \in Nat
  BY <1>1, ConfigTypes
<1>3. /\ d \in Config /\ d.s = Append(s, e) /\ d.l = c.l /\ d.k = c.k /\ d.i = c.i /\ d.n = n
  BY <1>1, PushIs
<1> HIDE DEF d, s, n
<1>4. Len(Append(s, e)) = Len(s) + 1 /\ Append(s, e)[Len(s) + 1] = e
      /\ \A j \in 1 .. Len(s) : Append(s, e)[j] = s[j]
  BY <1>2, AppendProperties
<1>5. Above(Append(s, e), 0) = Above(s, 0)
  <2>1. Above(Append(s, e), 0) = Above(s, 0) + 0
    BY <1>2, AboveAppend DEF Weight
  <2> QED BY <1>2, <2>1
<1>6. Counted(d)
  BY <1>1, <1>3, <1>5 DEF Counted, s, n
<1>7. ASSUME e.ok, e.reads \cap Reg = {}, Sound(c) PROVE Sound(d)
  <2>1. ASSUME Clear(s, n) PROVE Clear(Append(s, e), n)
    <3>1. \A j \in 1 .. Len(s) : s[j].type = "Register" => s[j].reads \cap e.reads = {}
      <4> SUFFICES ASSUME NEW j \in 1 .. Len(s), s[j].type = "Register"
                   PROVE  s[j].reads \cap e.reads = {}
        OBVIOUS
      <4>1. s[j] \in Entries
        BY <1>2, ElementOfSeq
      <4>2. \E r \in Reg : s[j].reads = {r}
        BY <4>1, EntryTypes
      <4> QED BY <1>7, <4>2
    <3> QED BY <1>2, <1>7, <2>1, <3>1, AppendClear
  <2> QED BY <1>3, <1>7, <2>1 DEF Sound, s, n
<1>8. ASSUME Len(s) > 0, e = s[Len(s)], Sound(c) PROVE Sound(d)
  <2>1. ASSUME Clear(s, n) PROVE Clear(Append(s, e), n)
    <3> DEFINE m == Len(s)
    <3>1. m \in 1 .. Len(s) /\ Above(s, m) = 0
      BY <1>2, <1>8, AboveTop
    <3> HIDE DEF m
    <3>2. e.ok /\ \A r \in e.reads \cap Reg : r > n + 0
      BY <1>8, <2>1, <3>1 DEF Clear, m
    <3>3. \A r \in e.reads \cap Reg : r > n
      BY <1>2, <3>2
    <3>4. \A j \in 1 .. Len(s) : s[j].type = "Register" => s[j].reads \cap e.reads = {}
      BY <1>8, <2>1, <3>1 DEF Clear, m
    <3> QED BY <1>2, <2>1, <3>2, <3>3, <3>4, AppendClear
  <2> QED BY <1>3, <1>8, <2>1 DEF Sound, s, n
<1> QED BY <1>3, <1>4, <1>6, <1>7, <1>8 DEF Valid, d, s

LEMMA ReadKeeps ==
  ASSUME NEW c, Valid(c), NEW m \in 0 .. Len(c.s)
  PROVE  Valid(Read(c, m)) /\ Read(c, m).s = c.s /\ (Sound(c) => Sound(Read(c, m)))
<1>1. c \in Config /\ Counted(c) /\ DOMAIN c.s = 1 .. Len(c.s)
  BY ConfigTypes DEF Valid
<1>2. /\ Read(c, m) \in Config /\ Read(c, m).s = c.s
      /\ Read(c, m).n = c.n /\ Read(c, m).l = c.l /\ Read(c, m).k = c.k
      /\ c.i /\ (\A j \in DOMAIN c.s : c.s[j].ok) => Read(c, m).i
  BY <1>1, ReadIs
<1>3. Sound(c) => Sound(Read(c, m))
  BY <1>1, <1>2 DEF Sound, Clear
<1> QED BY <1>1, <1>2, <1>3 DEF Valid, Counted

LEMMA SwapKeeps ==
  ASSUME NEW c, Valid(c), Len(c.s) > 1
  PROVE  /\ Valid(Swap(c)) /\ Swapped(c.s, Swap(c).s)
         /\ /\ c.s[Len(c.s) - 1].type # "Register" \/ c.s[Len(c.s)].reads \cap Reg = {}
            /\ Sound(c)
            => Sound(Swap(c))
<1> DEFINE d == Swap(c)
           s == c.s
           t == d.s
           n == c.n
<1>1. c \in Config /\ Counted(c)
  BY DEF Valid
<1>2. s \in Seq(Entries) /\ n \in Reg /\ Len(s) \in Nat /\ Len(s) > 1
  BY <1>1, ConfigTypes
<1>3. d \in Config /\ d.n = n /\ d.l = c.l /\ d.k = c.k /\ d.i = c.i /\ Swapped(s, t)
  BY <1>1, SwapIs DEF Swapped
<1>4. t \in Seq(Entries)
  BY <1>3, ConfigTypes
<1> HIDE DEF d, s, t, n
<1>5. Above(t, 0) = Above(s, 0)
  BY <1>2, <1>3, <1>4, AboveSwapped
<1>6. Counted(d)
  BY <1>1, <1>3, <1>5 DEF Counted, s, n, t
<1>7. ASSUME s[Len(s) - 1].type # "Register" \/ s[Len(s)].reads \cap Reg = {}, Sound(c)
      PROVE  Sound(d)
  <2>1. Clear(s, n) => Clear(t, n)
    BY <1>2, <1>3, <1>4, <1>7, SwappedClear
  <2> QED BY <1>3, <1>7, <2>1 DEF Sound, s, n, t
<1> QED BY <1>3, <1>6, <1>7 DEF Valid, d, s, t

LEMMA BakeKeeps ==
  ASSUME NEW c, Valid(c), Len(c.s) > 0
  PROVE  /\ Valid(Bake(c)) /\ Len(Bake(c).s) = Len(c.s)
         /\ SameBelow(c, Bake(c), Len(c.s) - 1)
         /\ c.s[Len(c.s)].type \in InRegister => Bake(c) = c
         /\ c.s[Len(c.s)].type \notin InRegister => Bake(c).s[Len(c.s)].type = "Register"
         /\ Sound(c) => Sound(Bake(c))
<1>1. Len(c.s) \in Nat /\ c \in Config
  BY ConfigTypes DEF Valid
<1>2. CASE c.s[Len(c.s)].type \in InRegister
  <2>1. Bake(c) = c
    BY <1>2 DEF Bake, Top, Last
  <2> QED BY <1>2, <2>1 DEF SameBelow
<1>3. CASE c.s[Len(c.s)].type \notin InRegister
  <2> DEFINE r == Read(c, 1)
             p == Pop(r)
             d == PushRegister(p)
  <2>1. Bake(c) = d
    BY <1>3 DEF Bake, Top, Last
  <2>2. Valid(r) /\ r.s = c.s /\ (Sound(c) => Sound(r))
    BY <1>1, ReadKeeps
  <2> HIDE DEF r
  <2>3. /\ Valid(p) /\ Len(p.s) = Len(c.s) - 1
        /\ (\A j \in 1 .. Len(c.s) - 1 : p.s[j] = c.s[j])
        /\ (Sound(r) => Sound(p))
    BY <2>2, PopKeeps
  <2> HIDE DEF p
  <2>4. /\ Valid(d) /\ Len(d.s) = Len(p.s) + 1 /\ SameBelow(p, d, Len(p.s))
        /\ d.s[Len(p.s) + 1].type = "Register" /\ (Sound(p) => Sound(d))
    BY <2>3, PushRegisterKeeps
  <2> HIDE DEF d
  <2>5. Len(d.s) = Len(c.s) /\ d.s[Len(c.s)].type = "Register"
    BY <1>1, <2>3, <2>4
  <2>6. SameBelow(c, d, Len(c.s) - 1)
    BY <2>3, <2>4 DEF SameBelow
  <2> QED BY <1>3, <2>1, <2>2, <2>3, <2>4, <2>5, <2>6
<1> QED BY <1>2, <1>3

-----------------------------------------------------------------------------
(* Both operands are baked.  When they end up as two registers in the order
   opposite to that in which they were taken, the stack is not clear until
   both have been popped. *)
LEMMA SameFields ==
  ASSUME NEW c \in Config, NEW d \in Config,
         c.s = d.s, c.n = d.n, c.l = d.l, c.k = d.k, c.i = d.i
  PROVE  c = d
BY DEF Config

LEMMA SwapTwice ==
  ASSUME NEW c \in Config, Len(c.s) > 1
  PROVE  Swap(Swap(c)) = c
<1> DEFINE d == Swap(c)
           e == Swap(d)
           m == Len(c.s)
<1>1. /\ d \in Config /\ d.n = c.n /\ d.l = c.l /\ d.k = c.k /\ d.i = c.i
      /\ Len(d.s) = m /\ (\A j \in 1 .. m - 2 : d.s[j] = c.s[j])
      /\ d.s[m - 1] = c.s[m] /\ d.s[m] = c.s[m - 1]
  BY SwapIs
<1> HIDE DEF d
<1>2. Len(d.s) > 1
  BY <1>1
<1>3. /\ e \in Config /\ e.n = d.n /\ e.l = d.l /\ e.k = d.k /\ e.i = d.i
      /\ Len(e.s) = Len(d.s) /\ (\A j \in 1 .. Len(d.s) - 2 : e.s[j] = d.s[j])
      /\ e.s[Len(d.s) - 1] = d.s[Len(d.s)] /\ e.s[Len(d.s)] = d.s[Len(d.s) - 1]
  BY <1>1, <1>2, SwapIs
<1> HIDE DEF e
<1> DEFINE s == c.s
           t == e.s
<1>4. s \in Seq(Entries) /\ t \in Seq(Entries) /\ Len(s) = m /\ m \in Nat
  BY <1>3, ConfigTypes
<1>5. /\ Len(t) = m /\ (\A j \in 1 .. m - 2 : t[j] = s[j])
      /\ t[m - 1] = s[m - 1] /\ t[m] = s[m]
  BY <1>1, <1>3
<1> HIDE DEF s, t, m
<1>6. \A j \in 1 .. Len(s) : t[j] = s[j]
  <2>1. ASSUME NEW j \in 1 .. m PROVE j \in 1 .. m - 2 \/ j = m - 1 \/ j = m
    BY <1>4
  <2> QED BY <1>4, <1>5, <2>1
<1>7. t = s
  BY <1>4, <1>5, <1>6, SeqEqual
<1>8. e = c
  BY <1>1, <1>3, <1>7, SameFields DEF s, t
<1> QED BY <1>8 DEF e, d

LEMMA PopBoth ==
  ASSUME NEW c, Valid(c), Len(c.s) > 1, Sound(c)
  PROVE  Sound(Pop(Pop(Read(Swap(c), 2))))
<1> DEFINE m == Len(c.s)
           d == Swap(c)
           r == Read(d, 2)
           r1 == Pop(r)
           r2 == Pop(r1)
           c1 == Pop(c)
           c2 == Pop(c1)
           Step(n, e) == IF e.type = "Register" THEN (n + 1) % Wrap ELSE n
<1>1. c \in Config /\ m \in Nat /\ m > 1
  BY ConfigTypes DEF Valid
<1>2. /\ d \in Config /\ d.n = c.n /\ d.l = c.l /\ d.k = c.k /\ d.i = c.i
      /\ Len(d.s) = m /\ (\A j \in 1 .. m - 2 : d.s[j] = c.s[j])
      /\ d.s[m - 1] = c.s[m] /\ d.s[m] = c.s[m - 1]
  BY <1>1, SwapIs
<1> HIDE DEF d
<1>3. /\ r \in Config /\ r.s = d.s /\ r.n = d.n /\ r.l = d.l
      /\ d.i /\ (\A j \in DOMAIN d.s : d.s[j].ok) => r.i
  BY <1>1, <1>2, ReadIs
<1> HIDE DEF r
<1>4. /\ c1 \in Config /\ c1.s = Front(c.s) /\ c1.n = Step(c.n, c.s[m]) /\ c1.l = c.l /\ c1.i = c.i
      /\ Valid(c1) /\ Len(c1.s) = m - 1 /\ (\A j \in 1 .. m - 1 : c1.s[j] = c.s[j])
      /\ Sound(c1)
  BY <1>1, PopIs, PopKeeps
<1>5. /\ r1 \in Config /\ r1.s = Front(r.s) /\ r1.n = Step(r.n, r.s[m]) /\ r1.l = r.l /\ r1.i = r.i
  BY <1>1, <1>2, <1>3, PopIs
<1>6. Len(r1.s) = m - 1 /\ \A j \in 1 .. m - 1 : r1.s[j] = r.s[j]
  <2>1. r.s \in Seq(Entries) /\ Len(r.s) = m /\ Len(r.s) > 0
    BY <1>1, <1>2, <1>3, ConfigTypes
  <2>2. Len(Front(r.s)) = Len(r.s) - 1 /\ \A j \in 1 .. Len(r.s) - 1 : Front(r.s)[j] = r.s[j]
    BY <2>1, FrontIs
  <2> QED BY <1>5, <2>1, <2>2
<1> HIDE DEF r1, c1
<1>7. /\ c2 \in Config /\ c2.s = Front(c1.s) /\ c2.n = Step(c1.n, c1.s[m - 1]) /\ c2.l = c1.l
      /\ c2.i = c1.i /\ Len(c2.s) = m - 2 /\ (\A j \in 1 .. m - 2 : c2.s[j] = c1.s[j])
      /\ Sound(c2)
  <2>1. Len(c1.s) > 0 /\ Len(c1.s) = m - 1
    BY <1>1, <1>4
  <2>2. /\ c2 \in Config /\ c2.s = Front(c1.s) /\ c2.n = Step(c1.n, c1.s[m - 1]) /\ c2.l = c1.l
        /\ c2.i = c1.i
    BY <1>4, <2>1, PopIs
  <2>3. Len(c2.s) = Len(c1.s) - 1 /\ (\A j \in 1 .. Len(c1.s) - 1 : c2.s[j] = c1.s[j]) /\ Sound(c2)
    BY <1>4, <2>1, PopKeeps
  <2> QED BY <1>1, <2>1, <2>2, <2>3
<1>8. /\ r2 \in Config /\ r2.s = Front(r1.s) /\ r2.n = Step(r1.n, r1.s[m - 1]) /\ r2.l = r1.l
      /\ r2.i = r1.i /\ Len(r2.s) = m - 2 /\ (\A j \in 1 .. m - 2 : r2.s[j] = r1.s[j])
  <2>1. r1.s \in Seq(Entries) /\ Len(r1.s) > 0 /\ Len(r1.s) = m - 1
    BY <1>1, <1>5, <1>6, ConfigTypes
  <2>2. /\ r2 \in Config /\ r2.s = Front(r1.s) /\ r2.n = Step(r1.n, r1.s[m - 1]) /\ r2.l = r1.l
        /\ r2.i = r1.i
    BY <1>5, <2>1, PopIs
  <2>3. Len(Front(r1.s)) = Len(r1.s) - 1 /\ \A j \in 1 .. Len(r1.s) - 1 : Front(r1.s)[j] = r1.s[j]
    BY <2>1, FrontIs
  <2> QED BY <1>1, <2>1, <2>2, <2>3
<1> HIDE DEF r2, c2
<1>9. r2.n = c2.n
  <2> DEFINE x == c.s[m]
             y == c.s[m - 1]
  <2>1. /\ c2.n = Step(Step(c.n, x), y) /\ r2.n = Step(Step(c.n, y), x)
    <3>1. m - 1 \in 1 .. m - 1
      BY <1>1
    <3>2. c1.s[m - 1] = y /\ r1.s[m - 1] = x /\ r.s[m] = y /\ r.n = c.n
      BY <1>2, <1>3, <1>4, <1>6, <3>1
    <3> QED BY <1>4, <1>5, <1>7, <1>8, <3>2
  <2> HIDE DEF x, y
  <2> QED BY <2>1
<1>10. r2.s = c2.s
  <2> DEFINE s == c2.s
             t == r2.s
  <2>1. s \in Seq(Entries) /\ t \in Seq(Entries) /\ Len(s) = m - 2 /\ Len(t) = m - 2
    BY <1>7, <1>8, ConfigTypes
  <2>2. ASSUME NEW j \in 1 .. m - 2 PROVE t[j] = s[j]
    <3>1. j \in 1 .. m - 1
      BY <1>1
    <3> HIDE DEF m, Step
    <3>2. s[j] = c.s[j]
      BY <1>4, <1>7, <3>1
    <3>3. t[j] = d.s[j]
      BY <1>3, <1>6, <1>8, <3>1
    <3> QED BY <1>2, <3>2, <3>3
  <2> HIDE DEF s, t
  <2>3. t = s
    BY <2>1, <2>2, SeqEqual
  <2> QED BY <2>3 DEF s, t
<1>11. c.l > 0 => r2.i
  <2> SUFFICES ASSUME c.l > 0 PROVE r.i
    BY <1>5, <1>8
  <2>1. c.i /\ \A j \in 1 .. m : c.s[j].ok
    BY DEF Sound, Clear
  <2>2. \A j \in 1 .. m : d.s[j].ok
    <3>1. ASSUME NEW j \in 1 .. m PROVE j \in 1 .. m - 2 \/ j = m - 1 \/ j = m
      BY <1>1
    <3>2. m \in 1 .. m /\ m - 1 \in 1 .. m /\ 1 .. m - 2 \subseteq 1 .. m
      BY <1>1
    <3> HIDE DEF m
    <3> QED BY <1>2, <2>1, <3>1, <3>2
  <2>3. DOMAIN d.s = 1 .. m
    BY <1>2, ConfigTypes
  <2> QED BY <1>2, <1>3, <2>1, <2>2, <2>3
<1>12. r2.l = c.l /\ c2.l = c.l
  BY <1>2, <1>3, <1>4, <1>5, <1>7, <1>8
<1> HIDE DEF Step, m
<1>13. Sound(r2)
  BY <1>7, <1>9, <1>10, <1>11, <1>12 DEF Sound
<1> QED BY <1>13 DEF r2, r1, r, d

LEMMA BakeBothKeeps ==
  ASSUME NEW c, Valid(c), Len(c.s) > 1
  PROVE  /\ Valid(BakeBoth(c)) /\ Len(BakeBoth(c).s) = Len(c.s)
         /\ SameBelow(c, BakeBoth(c), Len(c.s) - 2)
         /\ Sound(c) /\ (\/ c.s[Len(c.s) - 1].type \in InRegister
                         \/ c.s[Len(c.s)].type \in {"Local", "Constant"})
            => Sound(BakeBoth(c))
         /\ Sound(c) => Sound(Pop(Pop(BakeBoth(c))))
         /\ LET b == Swap(Bake(Swap(Bake(c)))) IN
            /\ Valid(b) /\ Len(b.s) = Len(c.s)
            /\ c.s[Len(c.s)].type \in {"Local", "Constant"} =>
                 /\ b.s[Len(c.s)].type = c.s[Len(c.s)].type
                 /\ Sound(c) => Sound(b)
<1> DEFINE m == Len(c.s)
           b1 == Bake(c)
           a == Swap(b1)
           b2 == Bake(a)
           d == Swap(b2)
           r == Read(d, 2)
<1>1. m \in Nat /\ m > 1 /\ c \in Config
  BY ConfigTypes DEF Valid
<1>2. /\ Valid(b1) /\ Len(b1.s) = m /\ SameBelow(c, b1, m - 1)
      /\ (c.s[m].type \in InRegister => b1 = c) /\ (Sound(c) => Sound(b1))
  BY <1>1, BakeKeeps
<1> HIDE DEF b1
<1>3. /\ Valid(a) /\ Swapped(b1.s, a.s)
      /\ (b1.s[m - 1].type # "Register" /\ Sound(b1) => Sound(a))
  BY <1>1, <1>2, SwapKeeps
<1>4. Len(a.s) = m /\ a.s[m - 1] = b1.s[m] /\ a.s[m] = b1.s[m - 1]
      /\ \A j \in 1 .. m - 2 : a.s[j] = b1.s[j]
  BY <1>2, <1>3 DEF Swapped
<1>5. /\ Valid(b2) /\ Len(b2.s) = m /\ SameBelow(a, b2, m - 1)
      /\ (a.s[m].type \in InRegister => b2 = a) /\ (Sound(a) => Sound(b2))
  <2>1. Len(a.s) > 0
    BY <1>1, <1>4
  <2> HIDE DEF a
  <2> QED BY <1>3, <1>4, <2>1, BakeKeeps
<1> HIDE DEF b2
<1>6. /\ Valid(d) /\ Swapped(b2.s, d.s)
      /\ (b2.s[m - 1].type # "Register" /\ Sound(b2) => Sound(d))
  BY <1>1, <1>5, SwapKeeps
<1>7. Len(d.s) = m /\ \A j \in 1 .. m - 2 : d.s[j] = b2.s[j]
  BY <1>5, <1>6 DEF Swapped
<1>8. /\ Valid(r) /\ r.s = d.s /\ (Sound(d) => Sound(r))
  <2>1. 2 \in 0 .. Len(d.s)
    BY <1>1, <1>7
  <2> HIDE DEF d
  <2> QED BY <1>6, <2>1, ReadKeeps
<1>9. r = BakeBoth(c)
  BY DEF BakeBoth, b1, b2
<1>10. SameBelow(c, r, m - 2)
  <2> SUFFICES ASSUME NEW j \in 1 .. m - 2
               PROVE  r.s[j].type = c.s[j].type /\ r.s[j].reads = c.s[j].reads
    BY DEF SameBelow
  <2>1. j \in 1 .. m - 1
    BY <1>1
  <2>2. r.s[j] = b2.s[j] /\ b2.s[j].type = a.s[j].type /\ b2.s[j].reads = a.s[j].reads
    BY <1>5, <1>7, <1>8, <2>1 DEF SameBelow
  <2>3. a.s[j] = b1.s[j] /\ b1.s[j].type = c.s[j].type /\ b1.s[j].reads = c.s[j].reads
    BY <1>2, <1>4, <2>1 DEF SameBelow
  <2> QED BY <2>2, <2>3
<1>11. b1.s[m - 1].type = c.s[m - 1].type
  BY <1>1, <1>2 DEF SameBelow
<1>12. ASSUME Sound(c), c.s[m - 1].type \in InRegister PROVE Sound(r)
  <2>1. b2 = a
    BY <1>4, <1>5, <1>11, <1>12
  <2>2. d = b1
    BY <1>1, <1>2, <2>1, SwapTwice DEF Valid
  <2> QED BY <1>2, <1>8, <1>12, <2>2
<1>13. ASSUME Sound(c), c.s[m - 1].type \notin InRegister PROVE Sound(b2)
  BY <1>2, <1>3, <1>5, <1>11, <1>13 DEF InRegister
<1>14. ASSUME c.s[m].type \in {"Local", "Constant"}
       PROVE  d.s[m].type = c.s[m].type /\ (Sound(c) => Sound(d) /\ Sound(r))
  <2>1. b1 = c
    BY <1>2, <1>14 DEF InRegister
  <2>2. b2.s[m - 1].type = c.s[m].type
    BY <1>1, <1>4, <1>5, <2>1 DEF SameBelow
  <2>3. d.s[m].type = c.s[m].type
    BY <1>5, <1>6, <2>2 DEF Swapped
  <2>4. ASSUME Sound(c) PROVE Sound(d)
    <3>1. CASE c.s[m - 1].type \in InRegister
      <4>1. d = c
        BY <1>1, <1>4, <1>5, <1>11, <2>1, <3>1, SwapTwice
      <4> QED BY <2>4, <4>1
    <3>2. CASE c.s[m - 1].type \notin InRegister
      BY <1>6, <1>13, <1>14, <2>2, <2>4, <3>2
    <3> QED BY <3>1, <3>2
  <2> QED BY <1>8, <2>3, <2>4
<1>15. ASSUME Sound(c) PROVE Sound(Pop(Pop(r)))
  <2>1. CASE c.s[m - 1].type \in InRegister
    <3>1. Valid(Pop(r)) /\ Len(Pop(r).s) = m - 1 /\ Sound(Pop(r))
      BY <1>1, <1>7, <1>8, <1>12, <1>15, <2>1, PopKeeps
    <3> HIDE DEF r
    <3> QED BY <1>1, <3>1, PopKeeps
  <2>2. CASE c.s[m - 1].type \notin InRegister
    BY <1>1, <1>5, <1>13, <1>15, <2>2, PopBoth
  <2> QED BY <2>1, <2>2
<1> HIDE DEF r
<1>16. Len(r.s) = m
  BY <1>7, <1>8
<1>17. d = Swap(Bake(Swap(Bake(c))))
  BY DEF b1, b2
<1> HIDE DEF d, a
<1> QED BY <1>6, <1>7, <1>8, <1>9, <1>10, <1>12, <1>14, <1>15, <1>16, <1>17

-----------------------------------------------------------------------------
(* Configurations that differ in nothing that counts. *)
LEMMA AlikeKeeps ==
  ASSUME NEW c, NEW d \in Config, Valid(c),
         d.n = c.n, d.l = c.l, d.k = c.k, Len(d.s) = Len(c.s), SameBelow(c, d, Len(c.s))
  PROVE  /\ Valid(d)
         /\ Sound(c) /\ (c.l > 0 => d.i /\ \A j \in 1 .. Len(c.s) : d.s[j].ok) => Sound(d)
<1> DEFINE s == c.s
           t == d.s
<1>1. s \in Seq(Entries) /\ t \in Seq(Entries) /\ Len(t) = Len(s) /\ Counted(c)
      /\ \A j \in 1 .. Len(s) : t[j].type = s[j].type /\ t[j].reads = s[j].reads
  BY ConfigTypes DEF Valid, SameBelow
<1> HIDE DEF s, t
<1>2. Above(t, 0) = Above(s, 0)
  BY <1>1, AboveSame
<1>3. Counted(d)
  BY <1>1, <1>2 DEF Counted, s, t
<1>4. ASSUME Sound(c), c.l > 0 => d.i /\ \A j \in 1 .. Len(s) : t[j].ok PROVE Sound(d)
  <2>1. ASSUME Clear(s, c.n), \A j \in 1 .. Len(s) : t[j].ok PROVE Clear(t, c.n)
    BY <1>1, <2>1, AlikeClear
  <2> QED BY <1>4, <2>1 DEF Sound, s, t
<1> QED BY <1>3, <1>4 DEF Valid, s, t

(* An assignment: the value on top is read, the target is what it was. *)
LEMMA WriteTarget ==
  ASSUME NEW s \in Seq(Entries), NEW q, Len(s) > 1
  PROVE  LET t == [Overwritten(s, q) EXCEPT ![Len(s)].ok = TRUE] IN
         /\ t \in Seq(Entries) /\ Len(t) = Len(s)
         /\ \A j \in 1 .. Len(s) : t[j].type = s[j].type /\ t[j].reads = s[j].reads
         /\ \A j \in 1 .. Len(s) - 1 : t[j].ok = (s[j].ok /\ q \notin s[j].reads)
         /\ t[Len(s)].ok
<1> DEFINE o == Overwritten(s, q)
           m == Len(s)
           e == [o[m] EXCEPT !.ok = TRUE]
           t == [o EXCEPT ![m].ok = TRUE]
<1>1. m \in Nat /\ m > 1 /\ \A j \in 1 .. m : s[j] \in Entries
  BY LenProperties, ElementOfSeq
<1>2. o \in Seq(Entries) /\ Len(o) = m
      /\ \A j \in 1 .. m : o[j] = [s[j] EXCEPT !.ok = @ /\ q \notin s[j].reads]
  BY OverwrittenIs
<1>3. \A j \in 1 .. m : /\ o[j].type = s[j].type /\ o[j].reads = s[j].reads
                        /\ o[j].ok = (s[j].ok /\ q \notin s[j].reads)
  BY <1>1, <1>2 DEF Entries
<1> HIDE DEF o, m
<1>4. \A j \in 1 .. m : o[j] \in Entries
  BY <1>2, ElementOfSeq
<1>5. e \in Entries /\ e.type = o[m].type /\ e.reads = o[m].reads /\ e.ok
  <2> DEFINE x == o[m]
  <2>1. x \in Entries
    BY <1>1, <1>4
  <2> HIDE DEF x
  <2>2. [x EXCEPT !.ok = TRUE] \in [type : Types, reads : SUBSET (Local \cup Reg), ok : BOOLEAN]
        /\ [x EXCEPT !.ok = TRUE].type = x.type /\ [x EXCEPT !.ok = TRUE].reads = x.reads
        /\ [x EXCEPT !.ok = TRUE].ok
    BY <2>1 DEF Entries
  <2>3. [x EXCEPT !.ok = TRUE] \in Entries
    BY <2>1, <2>2 DEF Entries
  <2> QED BY <2>2, <2>3 DEF x
<1>6. t = [o EXCEPT ![m] = e]
  OBVIOUS
<1> HIDE DEF e, t
<1>7. m \in 1 .. Len(o)
  BY <1>1, <1>2
<1>8. t \in Seq(Entries) /\ Len(t) = m /\ t[m] = e /\ \A j \in 1 .. m : j # m => t[j] = o[j]
  BY <1>2, <1>5, <1>6, <1>7, ExceptSeq
<1>9. \A j \in 1 .. m : t[j].type = s[j].type /\ t[j].reads = s[j].reads
  BY <1>3, <1>5, <1>8
<1>10. \A j \in 1 .. m - 1 : t[j].ok = (s[j].ok /\ q \notin s[j].reads)
  BY <1>1, <1>3, <1>8
<1>11. t[m].ok
  BY <1>5, <1>8
<1> QED BY <1>8, <1>9, <1>10, <1>11 DEF t, o, m

(* The object is named by a reference and its register kept. *)
LEMMA ReferenceKeeps ==
  ASSUME NEW c, Valid(c), Len(c.s) > 0, NEW e \in Entries, e.type = "EltRef"
  PROVE  LET d == [c EXCEPT
                     !.k = IF c.s[Len(c.s)].type = "Register" THEN @ + 1 ELSE @,
                     !.s = Append(Front(@), e)]
         IN /\ Valid(d)
            /\ /\ Sound(c)
               /\ c.l > 0 =>
                    /\ e.ok /\ \A r \in e.reads \cap Reg : r > c.n
                    /\ \A j \in 1 .. Len(c.s) - 1 :
                         c.s[j].type = "Register" => c.s[j].reads \cap e.reads = {}
               => Sound(d)
<1> DEFINE s == c.s
           n == c.n
           m == Len(s)
           w == Weight(s[m])
           f == Front(s)
           t == Append(f, e)
           k == IF s[m].type = "Register" THEN c.k + 1 ELSE c.k
           d == [c EXCEPT !.k = IF c.s[Len(c.s)].type = "Register" THEN @ + 1 ELSE @,
                          !.s = Append(Front(@), e)]
<1>1. s \in Seq(Entries) /\ n \in Reg /\ n \in Nat /\ m \in Nat /\ m > 0 /\ c \in Config
      /\ Counted(c) /\ c.k \in Nat
  BY ConfigTypes DEF Valid
<1>2. /\ f \in Seq(Entries) /\ Len(f) = m - 1 /\ (\A i \in 1 .. m - 1 : f[i] = s[i])
      /\ s[m] \in Entries
      /\ \A j \in 0 .. m - 1 : Above(s, j) = Above(f, j) + w
  <2> HIDE DEF s
  <2> QED BY <1>1, FrontIs
<1>3. w \in 0 .. 1 /\ Above(f, 0) \in Nat /\ Above(s, 0) = Above(f, 0) + w
  <2>1. w \in 0 .. 1
    BY <1>2, EntryTypes
  <2>2. Above(f, 0) \in Nat
    BY <1>2, AboveType
  <2>3. 0 \in 0 .. m - 1
    BY <1>1
  <2> QED BY <1>2, <2>1, <2>2, <2>3
<1>4. k = c.k + w /\ k \in Nat
  BY <1>1, <1>3 DEF Weight
<1> HIDE DEF f, w
<1>5. t \in Seq(Entries) /\ Above(t, 0) = Above(f, 0)
  <2>1. Above(t, 0) = Above(f, 0) + 0
    BY <1>1, <1>2, AboveAppend DEF Weight
  <2> QED BY <1>2, <1>3, <2>1, AppendProperties
<1>6. d \in Config /\ d.s = t /\ d.k = k /\ d.n = n /\ d.l = c.l /\ d.i = c.i
  <2>1. d = [c EXCEPT !.k = k, !.s = t]
    BY <1>1 DEF Config, f
  <2> HIDE DEF d, t, k
  <2> QED BY <1>1, <1>4, <1>5, <2>1 DEF Config
<1> HIDE DEF d, t, k
<1>7. Counted(d)
  <2> SUFFICES ASSUME c.l > 0
               PROVE  d.l <= d.n + 1 /\ d.n + d.k + Above(t, 0) = MaxRegister
    BY <1>6 DEF Counted, t
  <2> DEFINE ck == c.k
             a == Above(f, 0)
             b == Above(s, 0)
  <2>1. n \in Nat /\ ck \in Nat /\ n + ck + b = MaxRegister /\ c.l <= n + 1
    BY <1>1, CountedIs
  <2>2. a \in Nat /\ w \in 0 .. 1 /\ b = a + w /\ k = ck + w
    BY <1>3, <1>4
  <2> HIDE DEF ck, a, b, n
  <2>3. n + k + a = MaxRegister
    BY <2>1, <2>2
  <2> QED BY <1>5, <1>6, <2>1, <2>3 DEF a
<1>8. ASSUME Sound(c), c.l > 0,
             e.ok, \A r \in e.reads \cap Reg : r > n,
             \A j \in 1 .. m - 1 : s[j].type = "Register" => s[j].reads \cap e.reads = {}
      PROVE  d.i /\ Clear(d.s, d.n)
  <2>1. c.i /\ Clear(s, n)
    BY <1>8 DEF Sound
  <2>2. Clear(f, n + w)
    BY <1>1, <2>1, FrontClear DEF f, w, m
  <2>3. Clear(f, n)
    <3>1. n + w \in Nat /\ n <= n + w
      BY <1>1, <1>3
    <3> QED BY <1>1, <1>2, <2>2, <3>1, LessClear
  <2>4. \A j \in 1 .. Len(f) : f[j].type = "Register" => f[j].reads \cap e.reads = {}
    BY <1>2, <1>8
  <2>5. Clear(t, n)
    BY <1>1, <1>2, <1>8, <2>3, <2>4, AppendClear DEF t
  <2> QED BY <1>6, <2>1, <2>5
<1> QED BY <1>6, <1>7, <1>8 DEF Valid, Sound, d

-----------------------------------------------------------------------------
(* The emit functions *)
LEMMA EmitPushKeeps ==
  ASSUME NEW c, Valid(c), Len(c.s) > 0
  PROVE  /\ Valid(EmitPush(c)) /\ Len(EmitPush(c).s) = Len(c.s) - 1
         /\ SameBelow(c, EmitPush(c), Len(c.s) - 1)
         /\ Sound(c) => Sound(EmitPush(c))
<1> DEFINE b == Bake(c)
           r == Read(b, 1)
           d == Pop(r)
           m == Len(c.s)
<1>1. m \in Nat
  BY ConfigTypes DEF Valid
<1>2. Valid(b) /\ Len(b.s) = m /\ SameBelow(c, b, m - 1) /\ (Sound(c) => Sound(b))
  BY BakeKeeps
<1> HIDE DEF b
<1>3. Valid(r) /\ r.s = b.s /\ (Sound(b) => Sound(r))
  BY <1>1, <1>2, ReadKeeps
<1> HIDE DEF r
<1>4. /\ Valid(d) /\ Len(d.s) = m - 1 /\ (\A j \in 1 .. m - 1 : d.s[j] = r.s[j])
      /\ (Sound(r) => Sound(d))
  BY <1>1, <1>2, <1>3, PopKeeps
<1> HIDE DEF d
<1>5. SameBelow(c, d, m - 1)
  BY <1>2, <1>3, <1>4 DEF SameBelow
<1> QED BY <1>2, <1>3, <1>4, <1>5 DEF EmitPush, b, r, d

LEMMA EmitBinOpKeeps ==
  ASSUME NEW c, Valid(c), Len(c.s) > 1
  PROVE  Valid(EmitBinOp(c)) /\ (Sound(c) => Sound(EmitBinOp(c)))
<1> DEFINE b == BakeBoth(c)
           p == Pop(b)
           d == Pop(p)
<1>1. Len(c.s) \in Nat /\ Valid(b) /\ Len(b.s) = Len(c.s)
  BY BakeBothKeeps, ConfigTypes DEF Valid
<1>2. Sound(c) => Sound(d)
  BY BakeBothKeeps
<1> HIDE DEF b
<1>3. Valid(p) /\ Len(p.s) = Len(c.s) - 1
  BY <1>1, PopKeeps
<1> HIDE DEF p
<1>4. Valid(d)
  BY <1>1, <1>3, PopKeeps
<1> HIDE DEF d
<1>5. Valid(PushRegister(d)) /\ (Sound(d) => Sound(PushRegister(d)))
  BY <1>4, PushRegisterKeeps
<1> QED BY <1>2, <1>5 DEF EmitBinOp, b, p, d

LEMMA EmitUnOpKeeps ==
  ASSUME NEW c, Valid(c), Len(c.s) > 0
  PROVE  Valid(EmitUnOp(c)) /\ (Sound(c) => Sound(EmitUnOp(c)))
<1>1. EmitUnOp(c) = PushRegister(EmitPush(c))
  BY DEF EmitUnOp, EmitPush
<1> QED BY <1>1, EmitPushKeeps, PushRegisterKeeps

LEMMA EmitCallKeeps ==
  ASSUME NEW c, Valid(c), Len(c.s) > 0
  PROVE  Valid(EmitCall(c)) /\ (Sound(c) => Sound(EmitCall(c)))
<1> DEFINE r == Read(c, 1)
           p == Pop(r)
<1>1. CASE Top(c).type = "EltRef"
  <2>1. Valid(r) /\ r.s = c.s /\ (Sound(c) => Sound(r))
    BY ReadKeeps, ConfigTypes DEF Valid
  <2> HIDE DEF r
  <2>2. Valid(p) /\ (Sound(r) => Sound(p))
    BY <2>1, PopKeeps
  <2> HIDE DEF p
  <2>3. Valid(PushRegister(p)) /\ (Sound(p) => Sound(PushRegister(p)))
    BY <2>2, PushRegisterKeeps
  <2> QED BY <1>1, <2>1, <2>2, <2>3 DEF EmitCall, p, r
<1>2. CASE Top(c).type # "EltRef"
  BY <1>2, EmitPushKeeps, PushRegisterKeeps DEF EmitCall
<1> QED BY <1>1, <1>2

LEMMA EmitAppendEltKeeps ==
  ASSUME NEW c, Valid(c), Len(c.s) > 1, c.s[Len(c.s) - 1].type = "Register"
  PROVE  Valid(EmitAppendElt(c)) /\ (Sound(c) => Sound(EmitAppendElt(c)))
<1> DEFINE b == BakeBoth(c)
<1>1. Len(c.s) \in Nat /\ Valid(b) /\ Len(b.s) = Len(c.s) /\ (Sound(c) => Sound(b))
  BY BakeBothKeeps, ConfigTypes DEF Valid, InRegister
<1> HIDE DEF b
<1>2. Valid(Pop(b)) /\ (Sound(b) => Sound(Pop(b)))
  BY <1>1, PopKeeps
<1> QED BY <1>1, <1>2 DEF EmitAppendElt, b

LEMMA EmitCaseTestKeeps ==
  ASSUME NEW c, Valid(c), Len(c.s) > 1
  PROVE  /\ Valid(EmitCaseTest(c)) /\ Len(EmitCaseTest(c).s) = Len(c.s) - 1
         /\ Sound(c) /\ (\/ c.s[Len(c.s) - 1].type \in InRegister
                         \/ c.s[Len(c.s)].type \in {"Local", "Constant"})
            => Sound(EmitCaseTest(c))
<1> DEFINE b == BakeBoth(c)
           p == Pop(b)
           r == PushRegister(p)
<1>1. /\ Len(c.s) \in Nat /\ Valid(b) /\ Len(b.s) = Len(c.s)
      /\ Sound(c) /\ (\/ c.s[Len(c.s) - 1].type \in InRegister
                      \/ c.s[Len(c.s)].type \in {"Local", "Constant"})
         => Sound(b)
  BY BakeBothKeeps, ConfigTypes DEF Valid
<1> HIDE DEF b
<1>2. Valid(p) /\ Len(p.s) = Len(c.s) - 1 /\ (Sound(b) => Sound(p))
  BY <1>1, PopKeeps
<1> HIDE DEF p
<1>3. Valid(r) /\ Len(r.s) = Len(c.s) /\ (Sound(p) => Sound(r))
  BY <1>1, <1>2, PushRegisterKeeps
<1> HIDE DEF r
<1>4. /\ Valid(EmitPush(r)) /\ Len(EmitPush(r).s) = Len(c.s) - 1
      /\ (Sound(r) => Sound(EmitPush(r)))
  BY <1>1, <1>3, EmitPushKeeps
<1> QED BY <1>1, <1>2, <1>3, <1>4 DEF EmitCaseTest, AddMatchedJump, b, p, r

LEMMA EmitAppendPropKeeps ==
  ASSUME NEW c, Valid(c), Len(c.s) > 2, c.s[Len(c.s) - 1].type = "Constant"
  PROVE  Valid(EmitAppendProp(c)) /\ (Sound(c) => Sound(EmitAppendProp(c)))
<1> DEFINE m == Len(c.s)
           b == Bake(c)
           a == Swap(b)
           e == Bake(a)
           r == Read(e, 2)
           p == Pop(r)
           q == Pop(p)
<1>1. m \in Nat /\ m > 2
  BY ConfigTypes DEF Valid
<1>2. Valid(b) /\ Len(b.s) = m /\ SameBelow(c, b, m - 1) /\ (Sound(c) => Sound(b))
  BY <1>1, BakeKeeps
<1>3. b.s[m - 1].type = "Constant"
  BY <1>1, <1>2 DEF SameBelow
<1> HIDE DEF b
<1>4. Valid(a) /\ Len(a.s) = m /\ (Sound(b) => Sound(a))
  BY <1>1, <1>2, <1>3, SwapKeeps DEF Swapped
<1> HIDE DEF a
<1>5. Valid(e) /\ Len(e.s) = m /\ (Sound(a) => Sound(e))
  BY <1>1, <1>4, BakeKeeps
<1> HIDE DEF e
<1>6. Valid(r) /\ Len(r.s) = m /\ (Sound(e) => Sound(r))
  <2>1. 2 \in 0 .. Len(e.s)
    BY <1>1, <1>5
  <2> QED BY <1>5, <2>1, ReadKeeps
<1> HIDE DEF r
<1>7. Valid(p) /\ Len(p.s) = m - 1 /\ (Sound(r) => Sound(p))
  BY <1>1, <1>6, PopKeeps
<1> HIDE DEF p
<1>8. Valid(q) /\ Len(q.s) = m - 2 /\ (Sound(p) => Sound(q))
  BY <1>1, <1>7, PopKeeps
<1> HIDE DEF q
<1>9. Valid(Read(q, 1)) /\ (Sound(q) => Sound(Read(q, 1)))
  <2>1. 1 \in 0 .. Len(q.s)
    BY <1>1, <1>8
  <2> QED BY <1>8, <2>1, ReadKeeps
<1> QED BY <1>2, <1>4, <1>5, <1>6, <1>7, <1>8, <1>9 DEF EmitAppendProp, q, p, r, e, a, b

LEMMA EmitDerefKeeps ==
  ASSUME NEW c, Valid(c), Len(c.s) > 1
  PROVE  /\ Valid(EmitDeref(c))
         /\ Sound(c) /\ c.s[Len(c.s)].type \in {"Local", "Constant"} => Sound(EmitDeref(c))
<1> DEFINE m == Len(c.s)
           b == Swap(Bake(Swap(Bake(c))))
           p == Pop(b)
           x == b.s[m - 1]
           y == b.s[m]
           e == [type |-> "EltRef", reads |-> x.reads \cup y.reads, ok |-> x.ok /\ y.ok]
           d == [p EXCEPT !.k = IF p.s[Len(p.s)].type = "Register" THEN @ + 1 ELSE @,
                          !.s = Append(Front(@), e)]
<1>1. m \in Nat /\ m > 1
  BY ConfigTypes DEF Valid
<1>2. /\ Valid(b) /\ Len(b.s) = m
      /\ c.s[m].type \in {"Local", "Constant"} =>
           b.s[m].type = c.s[m].type /\ (Sound(c) => Sound(b))
  BY BakeBothKeeps
<1>3. EmitDeref(c) =
        [p EXCEPT !.k = IF x.type = "Register" THEN @ + 1 ELSE @, !.s = Append(Front(@), e)]
  BY <1>2 DEF EmitDeref, Top, Last
<1> HIDE DEF b
<1>4. /\ Valid(p) /\ Len(p.s) = m - 1 /\ (\A j \in 1 .. m - 1 : p.s[j] = b.s[j])
      /\ (Sound(b) => Sound(p))
  BY <1>1, <1>2, PopKeeps
<1>5. p.s[Len(p.s)] = x
  BY <1>1, <1>4
<1>6. EmitDeref(c) = d
  BY <1>3, <1>5
<1>7. x \in Entries /\ y \in Entries
  BY <1>1, <1>2, ConfigTypes DEF Valid
<1> HIDE DEF x, y
<1>8. e \in Entries
  BY <1>7 DEF Entries, Types
<1>9. e.type = "EltRef" /\ e.reads = x.reads \cup y.reads /\ e.ok = (x.ok /\ y.ok)
  OBVIOUS
<1> HIDE DEF e
<1>10. Len(p.s) > 0
  BY <1>1, <1>4
<1>p. p.l = b.l /\ (y.type # "Register" => p.n = b.n)
  BY <1>1, <1>2, PopIs DEF Valid, y
<1>11. /\ Valid(d)
       /\ /\ Sound(p)
          /\ p.l > 0 =>
               /\ e.ok /\ \A r \in e.reads \cap Reg : r > p.n
               /\ \A j \in 1 .. m - 2 :
                    p.s[j].type = "Register" => p.s[j].reads \cap e.reads = {}
          => Sound(d)
  <2> DEFINE h == m - 2
  <2>1. Len(p.s) - 1 = h
    BY <1>1, <1>4
  <2> HIDE DEF p, h
  <2> QED BY <1>4, <1>8, <1>9, <1>10, <2>1, ReferenceKeeps DEF h
<1>12. ASSUME Sound(c), c.s[m].type \in {"Local", "Constant"}, p.l > 0
       PROVE  /\ e.ok /\ \A r \in e.reads \cap Reg : r > p.n
              /\ \A j \in 1 .. m - 2 : p.s[j].type = "Register" => p.s[j].reads \cap e.reads = {}
  <2>1. b.i /\ Clear(b.s, b.n)
    BY <1>2, <1>12, <1>p DEF Sound
  <2> HIDE DEF p, m
  <2>2. y.type \in {"Local", "Constant"} /\ y.reads \cap Reg = {}
    BY <1>2, <1>7, <1>12, EntryTypes DEF y
  <2>3. m \in 1 .. m /\ m - 1 \in 1 .. m
    BY <1>1
  <2>4. /\ \A j \in 1 .. m : b.s[j].ok
        /\ \A j \in 1 .. m : \A r \in b.s[j].reads \cap Reg : r > b.n + Above(b.s, j)
        /\ \A j, h \in 1 .. m :
             b.s[j].type = "Register" /\ j # h => b.s[j].reads \cap b.s[h].reads = {}
    BY <1>2, <2>1 DEF Clear
  <2>5. e.ok
    BY <1>9, <2>3, <2>4 DEF x, y
  <2>6. ASSUME NEW r \in e.reads \cap Reg PROVE r > p.n
    <3>1. r \in x.reads \cap Reg /\ r \in Int
      BY <1>9, <2>2, <2>6 DEF Reg
    <3>2. r > b.n + Above(b.s, m - 1)
      BY <2>3, <2>4, <3>1 DEF x
    <3>3. Above(b.s, m - 1) \in Nat /\ b.n \in Nat /\ p.n = b.n
      BY <1>1, <1>2, <1>p, <2>2, ConfigTypes DEF Valid
    <3> DEFINE n == b.n
               a == Above(b.s, m - 1)
    <3>4. n \in Nat /\ a \in Nat /\ r > n + a /\ p.n = n
      BY <3>2, <3>3
    <3> HIDE DEF n, a
    <3> QED BY <3>1, <3>4
  <2>7. ASSUME NEW j \in 1 .. m - 2, p.s[j].type = "Register"
        PROVE  p.s[j].reads \cap e.reads = {}
    <3>1. j \in 1 .. m /\ j \in 1 .. m - 1 /\ j # m /\ j # m - 1
      BY <1>1
    <3>2. p.s[j] = b.s[j]
      BY <1>4, <3>1
    <3>3. b.s[j].reads \cap x.reads = {} /\ b.s[j].reads \cap y.reads = {}
      BY <2>3, <2>4, <2>7, <3>1, <3>2 DEF x, y
    <3> QED BY <1>9, <3>2, <3>3
  <2> QED BY <2>5, <2>6, <2>7
<1> HIDE DEF d, p
<1> QED BY <1>2, <1>4, <1>6, <1>11, <1>12

LEMMA EmitDupKeeps ==
  ASSUME NEW c, Valid(c), Len(c.s) > 0, c.s[Len(c.s)].type # "Register"
  PROVE  /\ Valid(EmitDup(c)) /\ Len(EmitDup(c).s) = Len(c.s) + 1
         /\ SameBelow(c, EmitDup(c), Len(c.s))
         /\ Sound(c) => Sound(EmitDup(c))
<1> DEFINE m == Len(c.s)
           e == c.s[m]
           p == Push(c, e)
<1>1. m \in Nat /\ m > 0 /\ e \in Entries /\ Top(c) = e
  BY ConfigTypes DEF Valid, Top, Last
<1>2. /\ Valid(p) /\ Len(p.s) = m + 1 /\ (\A j \in 1 .. m : p.s[j] = c.s[j])
      /\ (Sound(c) => Sound(p))
  BY <1>1, PushKeeps
<1>3. SameBelow(c, p, m)
  BY <1>2 DEF SameBelow
<1>4. EmitDup(c) = p \/ EmitDup(c) = Bake(p)
  BY <1>1 DEF EmitDup
<1> HIDE DEF p
<1>5. /\ Valid(Bake(p)) /\ Len(Bake(p).s) = m + 1 /\ SameBelow(p, Bake(p), m)
      /\ (Sound(p) => Sound(Bake(p)))
  <2>1. Len(p.s) > 0 /\ Len(p.s) - 1 = m
    BY <1>1, <1>2
  <2> HIDE DEF m
  <2> QED BY <1>2, <2>1, BakeKeeps
<1>6. SameBelow(c, Bake(p), m)
  BY <1>3, <1>5 DEF SameBelow
<1> QED BY <1>2, <1>3, <1>4, <1>5, <1>6

(* What the target depends on is nowhere else on the stack. *)
LEMMA EmitMoveKeeps ==
  ASSUME NEW c, Valid(c), Len(c.s) > 1, c.s[Len(c.s) - 1].type \in Assignable
  PROVE  /\ Valid(EmitMove(c)) /\ Len(EmitMove(c).s) = Len(c.s) - 1
         /\ SameBelow(c, EmitMove(c), Len(c.s) - 2)
         /\ /\ Sound(c)
            /\ c.s[Len(c.s) - 1].type = "Local" =>
                 \A j \in 1 .. Len(c.s) - 2 : c.s[j].reads \cap c.s[Len(c.s) - 1].reads = {}
            => Sound(EmitMove(c))
<1> DEFINE m == Len(c.s)
           b1 == Bake(c)
           b == Swap(b1)
           x == b.s[m]
           q == CHOOSE r \in x.reads : TRUE
           read == IF x.type = "EltRef" THEN Read(b, 2)
                   ELSE [b EXCEPT !.i = @ /\ b.s[Len(b.s) - 1].ok]
           named == x.type \in {"Local", "Register"}
           t == [Overwritten(b.s, q) EXCEPT ![Len(b.s)].ok = TRUE]
           u == IF named THEN t ELSE b.s
           w == [read EXCEPT !.s = u]
           v == Swap(w)
           d == Pop(v)
<1>1. m \in Nat /\ m > 1 /\ m \in 1 .. m /\ m - 1 \in 1 .. m
  BY ConfigTypes DEF Valid
<1>2. /\ Valid(b1) /\ Len(b1.s) = m /\ SameBelow(c, b1, m - 1) /\ (Sound(c) => Sound(b1))
  BY <1>1, BakeKeeps
<1> HIDE DEF b1
<1>3. /\ Valid(b) /\ Swapped(b1.s, b.s)
      /\ (b1.s[m - 1].type # "Register" /\ Sound(b1) => Sound(b))
  BY <1>1, <1>2, SwapKeeps
<1>4. b \in Config /\ b.n = b1.n /\ b.l = b1.l /\ b.k = b1.k /\ b.i = b1.i
  BY <1>1, <1>2, SwapIs DEF Valid
<1>5. Len(b.s) = m /\ x = b1.s[m - 1] /\ b.s[m - 1] = b1.s[m]
      /\ \A j \in 1 .. m - 2 : b.s[j] = b1.s[j]
  BY <1>2, <1>3 DEF Swapped
<1>6. x.type = c.s[m - 1].type /\ x.reads = c.s[m - 1].reads
  BY <1>1, <1>2, <1>5 DEF SameBelow
<1>7. Top(b) = x
  BY <1>5 DEF Top, Last
<1> DEFINE written ==
             [read EXCEPT !.s = IF named THEN [Overwritten(@, q) EXCEPT ![Len(@)].ok = TRUE]
                                ELSE @]
<1>8. EmitMove(c) = IF x.type = "RefK" THEN Pop(read) ELSE Pop(Swap(written))
  BY <1>7 DEF EmitMove, b1
<1> HIDE DEF b, x
<1>9. /\ read \in Config /\ read.s = b.s /\ read.n = b.n /\ read.l = b.l /\ read.k = b.k
      /\ b.i /\ (\A j \in 1 .. m : b.s[j].ok) => read.i
  <2>1. CASE x.type = "EltRef"
    <3>1. 2 \in 0 .. Len(b.s) /\ DOMAIN b.s = 1 .. m
      BY <1>1, <1>4, <1>5, ConfigTypes
    <3> QED BY <1>4, <2>1, <3>1, ReadIs
  <2>2. CASE x.type # "EltRef"
    <3> DEFINE i == b.i /\ b.s[m - 1].ok
    <3>1. read = [b EXCEPT !.i = i]
      BY <1>4, <1>5, <2>2 DEF Config
    <3>2. b.s[m - 1] \in Entries
      BY <1>1, <1>4, <1>5, ConfigTypes
    <3>3. i \in BOOLEAN /\ (b.i /\ (\A j \in 1 .. m : b.s[j].ok) => i)
      BY <1>1, <1>4, <3>2 DEF Config, Entries
    <3> HIDE DEF read, i
    <3> QED BY <1>4, <3>1, <3>3 DEF Config
  <2> QED BY <2>1, <2>2
<1>w. written = w
  <2> HIDE DEF read, q
  <2>1. read.s = b.s /\ read \in [s : Seq(Entries), n : Reg, l : 0 .. MaxRegister + 1, k : Nat, i : BOOLEAN]
    BY <1>9 DEF Config
  <2> QED BY <2>1
<1> HIDE DEF read, written
<1>10. /\ t \in Seq(Entries) /\ Len(t) = m
       /\ \A j \in 1 .. m : t[j].type = b.s[j].type /\ t[j].reads = b.s[j].reads
       /\ \A j \in 1 .. m - 1 : t[j].ok = (b.s[j].ok /\ q \notin b.s[j].reads)
       /\ t[m].ok
  <2> DEFINE s == b.s
  <2>1. s \in Seq(Entries) /\ Len(s) = m /\ Len(s) > 1
    BY <1>1, <1>4, <1>5, ConfigTypes
  <2> HIDE DEF s, q, m
  <2>2. LET o == [Overwritten(s, q) EXCEPT ![Len(s)].ok = TRUE] IN
         /\ o \in Seq(Entries) /\ Len(o) = Len(s)
         /\ \A j \in 1 .. Len(s) : o[j].type = s[j].type /\ o[j].reads = s[j].reads
         /\ \A j \in 1 .. Len(s) - 1 : o[j].ok = (s[j].ok /\ q \notin s[j].reads)
         /\ o[Len(s)].ok
    BY <2>1, WriteTarget
  <2>3. t = [Overwritten(s, q) EXCEPT ![Len(s)].ok = TRUE]
    BY DEF s
  <2> HIDE DEF t
  <2>4. /\ t \in Seq(Entries) /\ Len(t) = Len(s)
        /\ \A j \in 1 .. Len(s) : t[j].type = s[j].type /\ t[j].reads = s[j].reads
        /\ \A j \in 1 .. Len(s) - 1 : t[j].ok = (s[j].ok /\ q \notin s[j].reads)
        /\ t[Len(s)].ok
    BY <2>2, <2>3
  <2> QED BY <2>1, <2>4 DEF s
<1> HIDE DEF t
<1>11. /\ u \in Seq(Entries) /\ Len(u) = m
       /\ \A j \in 1 .. m : u[j].type = b.s[j].type /\ u[j].reads = b.s[j].reads
  BY <1>4, <1>5, <1>10, ConfigTypes
<1>12. ASSUME \A j \in 1 .. m : b.s[j].ok,
              named => \A j \in 1 .. m - 2 : q \notin b.s[j].reads
       PROVE  \A j \in 1 .. m : j # m - 1 => u[j].ok
  <2> SUFFICES ASSUME NEW j \in 1 .. m, j # m - 1 PROVE u[j].ok
    OBVIOUS
  <2>1. j = m \/ (j \in 1 .. m - 1 /\ j \in 1 .. m - 2)
    BY <1>1
  <2> HIDE DEF m, q
  <2> QED BY <1>10, <1>12, <2>1
<1> HIDE DEF u
<1>13. w \in Config /\ w.s = u /\ w.n = b.n /\ w.l = b.l /\ w.k = b.k /\ w.i = read.i
  BY <1>9, <1>11 DEF Config
<1> HIDE DEF w
<1>14. /\ v \in Config /\ v.n = b.n /\ v.l = b.l /\ v.k = b.k /\ v.i = read.i
       /\ Len(v.s) = m /\ (\A j \in 1 .. m - 2 : v.s[j] = u[j])
       /\ v.s[m - 1] = u[m] /\ v.s[m] = u[m - 1]
  BY <1>1, <1>11, <1>13, SwapIs
<1> HIDE DEF v
<1> DEFINE p == Pop(b1)
<1>15. /\ p \in Config /\ p.l = b1.l /\ p.k = b1.k /\ p.i = b1.i
       /\ p.n = IF b1.s[m].type = "Register" THEN (b1.n + 1) % Wrap ELSE b1.n
       /\ Valid(p) /\ Len(p.s) = m - 1 /\ (\A j \in 1 .. m - 1 : p.s[j] = b1.s[j])
       /\ (Sound(b1) => Sound(p))
  <2> HIDE DEF m
  <2>1. Len(b1.s) > 0 /\ b1 \in Config
    BY <1>1, <1>2 DEF Valid
  <2> QED BY <1>2, <2>1, PopIs, PopKeeps
<1>16. /\ d \in Config /\ d.l = b.l /\ d.k = b.k /\ d.i = read.i
       /\ d.n = IF v.s[m].type = "Register" THEN (b.n + 1) % Wrap ELSE b.n
       /\ Len(d.s) = m - 1 /\ \A j \in 1 .. m - 1 : d.s[j] = v.s[j]
  <2> DEFINE s == v.s
  <2>1. s \in Seq(Entries) /\ Len(s) > 0 /\ Len(s) = m
    BY <1>1, <1>14, ConfigTypes
  <2>2. /\ d \in Config /\ d.s = Front(s) /\ d.l = v.l /\ d.k = v.k /\ d.i = v.i
        /\ d.n = IF s[m].type = "Register" THEN (v.n + 1) % Wrap ELSE v.n
    BY <1>14, <2>1, PopIs
  <2> HIDE DEF s, d, m
  <2>3. Len(Front(s)) = Len(s) - 1 /\ \A j \in 1 .. Len(s) - 1 : Front(s)[j] = s[j]
    BY <2>1, FrontIs
  <2> QED BY <1>14, <2>1, <2>2, <2>3 DEF s
<1> HIDE DEF d, p
<1>17. ASSUME NEW j \in 1 .. m - 1
       PROVE  /\ d.s[j].type = p.s[j].type /\ d.s[j].reads = p.s[j].reads
              /\ d.s[j] = u[IF j = m - 1 THEN m ELSE j] /\ p.s[j] = b1.s[j]
  <2>1. j \in 1 .. m /\ (j = m - 1 \/ j \in 1 .. m - 2)
    BY <1>1
  <2>2. j = m - 1 => d.s[j] = u[m] /\ p.s[j] = x
    BY <1>5, <1>14, <1>15, <1>16
  <2>3. j \in 1 .. m - 2 => j # m - 1 /\ d.s[j] = u[j] /\ p.s[j] = b.s[j]
    BY <1>1, <1>5, <1>14, <1>15, <1>16
  <2>4. p.s[j] = b1.s[j]
    BY <1>15
  <2> HIDE DEF m
  <2> QED BY <1>1, <1>11, <2>1, <2>2, <2>3, <2>4 DEF x
<1>18. /\ d.n = p.n /\ d.l = p.l /\ d.k = p.k /\ Len(d.s) = Len(p.s)
       /\ SameBelow(p, d, Len(p.s))
  <2>1. v.s[m].type = b1.s[m].type
    BY <1>1, <1>5, <1>11, <1>14
  <2> QED BY <1>4, <1>15, <1>16, <1>17, <2>1 DEF SameBelow
<1>19. /\ Valid(d)
       /\ Sound(p) /\ (p.l > 0 => d.i /\ \A j \in 1 .. m - 1 : d.s[j].ok) => Sound(d)
  BY <1>15, <1>16, <1>18, AlikeKeeps
<1>20. SameBelow(c, d, m - 2)
  <2> SUFFICES ASSUME NEW j \in 1 .. m - 2
               PROVE  d.s[j].type = c.s[j].type /\ d.s[j].reads = c.s[j].reads
    BY DEF SameBelow
  <2>1. j \in 1 .. m - 1
    BY <1>1
  <2> HIDE DEF m
  <2> QED BY <1>2, <1>17, <2>1 DEF SameBelow
<1>21. ASSUME Sound(c),
              c.s[m - 1].type = "Local" =>
                \A j \in 1 .. m - 2 : c.s[j].reads \cap c.s[m - 1].reads = {}
       PROVE  Sound(d)
  <2> SUFFICES ASSUME p.l > 0 PROVE d.i /\ \A j \in 1 .. m - 1 : d.s[j].ok
    BY <1>2, <1>15, <1>19, <1>21
  <2>1. b1.i /\ Clear(b1.s, b1.n)
    BY <1>2, <1>15, <1>21 DEF Sound
  <2>2. /\ \A j \in 1 .. m : b1.s[j].ok
        /\ \A j, h \in 1 .. m :
             b1.s[j].type = "Register" /\ j # h => b1.s[j].reads \cap b1.s[h].reads = {}
    BY <1>2, <2>1 DEF Clear
  <2>3. \A j \in 1 .. m : b.s[j].ok
    <3>1. ASSUME NEW j \in 1 .. m PROVE j = m \/ j = m - 1 \/ j \in 1 .. m - 2
      BY <1>1
    <3> HIDE DEF m
    <3> QED BY <1>1, <1>5, <2>2, <3>1 DEF x
  <2>4. d.i
    BY <1>4, <1>9, <1>16, <2>1, <2>3
  <2>5. ASSUME named, NEW j \in 1 .. m - 2 PROVE q \notin b.s[j].reads
    <3>1. j \in 1 .. m /\ j \in 1 .. m - 1 /\ j # m - 1 /\ b.s[j] = b1.s[j]
      BY <1>1, <1>5
    <3>2. x \in Entries
      BY <1>1, <1>4, <1>5, ConfigTypes DEF x
    <3>3. \E r : x.reads = {r}
      BY <2>5, <3>2, EntryTypes
    <3>4. q \in x.reads
      BY <3>3
    <3> HIDE DEF q, m
    <3>5. CASE x.type = "Local"
      <4>1. c.s[j].reads \cap x.reads = {} /\ b.s[j].reads = c.s[j].reads
        BY <1>2, <1>6, <1>21, <3>1, <3>5 DEF SameBelow
      <4> QED BY <3>4, <4>1
    <3>6. CASE x.type = "Register"
      <4>1. b1.s[m - 1].reads \cap b1.s[j].reads = {}
        BY <1>1, <1>5, <2>2, <3>1, <3>6
      <4> QED BY <1>5, <3>1, <3>4, <4>1
    <3> QED BY <2>5, <3>5, <3>6
  <2>6. \A j \in 1 .. m : j # m - 1 => u[j].ok
    BY <1>12, <2>3, <2>5
  <2>7. ASSUME NEW j \in 1 .. m - 1 PROVE d.s[j].ok
    <3>1. m # m - 1 /\ j \in 1 .. m
      BY <1>1
    <3> HIDE DEF m
    <3> QED BY <1>1, <1>17, <2>6, <3>1
  <2> QED BY <2>4, <2>7
<1>22. CASE x.type = "RefK"
  <2>1. /\ Valid(read) /\ (Sound(b) => Sound(read)) /\ Len(read.s) = m
    <3>1. Counted(read)
      BY <1>3, <1>9 DEF Valid, Counted
    <3>2. ASSUME Sound(b) PROVE Sound(read)
      BY <1>5, <1>9, <3>2 DEF Sound, Clear
    <3> QED BY <1>5, <1>9, <3>1, <3>2 DEF Valid
  <2>2. Sound(c) => Sound(b)
    BY <1>2, <1>3, <1>5, <1>22
  <2>3. /\ Valid(Pop(read)) /\ Len(Pop(read).s) = m - 1 /\ (Sound(read) => Sound(Pop(read)))
        /\ \A j \in 1 .. m - 1 : Pop(read).s[j] = read.s[j]
    BY <1>1, <2>1, PopKeeps
  <2>4. SameBelow(c, Pop(read), m - 2)
    <3> SUFFICES ASSUME NEW j \in 1 .. m - 2
                 PROVE  /\ Pop(read).s[j].type = c.s[j].type
                        /\ Pop(read).s[j].reads = c.s[j].reads
      BY DEF SameBelow
    <3>1. j \in 1 .. m - 1
      BY <1>1
    <3>2. Pop(read).s[j] = b1.s[j]
      BY <1>5, <1>9, <2>3, <3>1
    <3> HIDE DEF m
    <3> QED BY <1>2, <3>1, <3>2 DEF SameBelow
  <2> QED BY <1>8, <1>22, <2>1, <2>2, <2>3, <2>4
<1>23. CASE x.type # "RefK"
  <2>1. EmitMove(c) = d
    BY <1>8, <1>23, <1>w DEF d, v
  <2> QED BY <1>16, <1>19, <1>20, <1>21, <2>1
<1> QED BY <1>22, <1>23

LEMMA EmitIncrementKeeps ==
  ASSUME NEW c, Valid(c), Len(c.s) > 0,
         c.s[Len(c.s)].type \in {"EltRef", "RefK", "Local", "UpValue"}
  PROVE  /\ Valid(EmitIncrement(c))
         /\ /\ Sound(c)
            /\ c.s[Len(c.s)].type = "Local" =>
                 \A j \in 1 .. Len(c.s) - 1 : c.s[j].reads \cap c.s[Len(c.s)].reads = {}
            => Sound(EmitIncrement(c))
<1> DEFINE m == Len(c.s)
           p == PushRegister(c)
           a == Swap(p)
           e == EmitDup(a)
           b == Bake(e)
           r == Read(b, 1)
           v == EmitMove(r)
<1>1. m \in Nat /\ m > 0 /\ m \in 1 .. m
  BY ConfigTypes DEF Valid
<1>2. /\ Valid(p) /\ Len(p.s) = m + 1 /\ SameBelow(c, p, m)
      /\ p.s[m + 1].type = "Register" /\ (Sound(c) => Sound(p))
  BY PushRegisterKeeps
<1>3. p.s[m].type = c.s[m].type /\ p.s[m].reads = c.s[m].reads
  BY <1>1, <1>2 DEF SameBelow
<1> HIDE DEF p
<1>4. /\ Valid(a) /\ Swapped(p.s, a.s) /\ (Sound(p) => Sound(a))
  <2>1. Len(p.s) > 1 /\ Len(p.s) - 1 = m /\ p.s[m].type # "Register"
    BY <1>1, <1>2, <1>3
  <2> HIDE DEF m
  <2> QED BY <1>2, <2>1, SwapKeeps
<1>5. /\ Len(a.s) = m + 1 /\ a.s[m] = p.s[m + 1] /\ a.s[m + 1] = p.s[m]
      /\ \A j \in 1 .. m - 1 : a.s[j] = p.s[j]
  <2>1. Len(p.s) - 2 = m - 1 /\ Len(p.s) - 1 = m
    BY <1>1, <1>2
  <2> HIDE DEF a, m
  <2> QED BY <1>2, <1>4, <2>1 DEF Swapped
<1> HIDE DEF a
<1>6. /\ Valid(e) /\ Len(e.s) = m + 2 /\ SameBelow(a, e, m + 1) /\ (Sound(a) => Sound(e))
  <2>1. Len(a.s) > 0 /\ a.s[Len(a.s)].type # "Register"
    BY <1>1, <1>3, <1>5
  <2>2. Len(a.s) + 1 = m + 2
    BY <1>1, <1>5
  <2> HIDE DEF m
  <2> QED BY <1>4, <1>5, <2>1, <2>2, EmitDupKeeps
<1> HIDE DEF e
<1>7. /\ Valid(b) /\ Len(b.s) = m + 2 /\ SameBelow(e, b, m + 1) /\ (Sound(e) => Sound(b))
  <2>1. Len(e.s) > 0 /\ Len(e.s) - 1 = m + 1
    BY <1>1, <1>6
  <2> HIDE DEF m
  <2> QED BY <1>6, <2>1, BakeKeeps
<1> HIDE DEF b
<1>8. Valid(r) /\ r.s = b.s /\ (Sound(b) => Sound(r))
  <2>1. 1 \in 0 .. Len(b.s)
    BY <1>1, <1>7
  <2> QED BY <1>7, <2>1, ReadKeeps
<1> HIDE DEF r
<1>9. \A j \in 1 .. m + 1 : r.s[j].type = a.s[j].type /\ r.s[j].reads = a.s[j].reads
  BY <1>6, <1>7, <1>8 DEF SameBelow
<1>10. r.s[m + 1].type = c.s[m].type /\ r.s[m + 1].reads = c.s[m].reads
       /\ Len(r.s) > 1 /\ Len(r.s) - 1 = m + 1 /\ Len(r.s) - 2 = m
  <2>1. Len(r.s) = m + 2
    BY <1>7, <1>8
  <2>2. m + 1 \in 1 .. m + 1
    BY <1>1
  <2>3. r.s[m + 1].type = a.s[m + 1].type /\ r.s[m + 1].reads = a.s[m + 1].reads
    BY <1>9, <2>2
  <2> HIDE DEF m
  <2> QED BY <1>1, <1>3, <1>5, <2>1, <2>3
<1>11. /\ Valid(v) /\ Len(v.s) = m + 1
       /\ /\ Sound(r)
          /\ r.s[m + 1].type = "Local" =>
               \A j \in 1 .. m : r.s[j].reads \cap r.s[m + 1].reads = {}
          => Sound(v)
  <2>1. r.s[m + 1].type \in Assignable
    BY <1>10 DEF Assignable
  <2> HIDE DEF m
  <2> QED BY <1>8, <1>10, <2>1, EmitMoveKeeps
<1>12. ASSUME c.s[m].type = "Local",
              \A j \in 1 .. m - 1 : c.s[j].reads \cap c.s[m].reads = {},
              NEW j \in 1 .. m
       PROVE  r.s[j].reads \cap r.s[m + 1].reads = {}
  <2>1. j \in 1 .. m + 1 /\ (j = m \/ j \in 1 .. m - 1)
    BY <1>1
  <2>2. CASE j \in 1 .. m - 1
    <3> HIDE DEF m
    <3>1. r.s[j].reads = c.s[j].reads
      BY <1>2, <1>5, <1>9, <1>12, <2>1, <2>2 DEF SameBelow
    <3> QED BY <1>10, <1>12, <2>2, <3>1
  <2>3. CASE j = m
    <3>1. r.s[m].reads = p.s[m + 1].reads
      BY <1>5, <1>9, <2>1, <2>3
    <3>2. p.s[m + 1] \in Entries /\ c.s[m] \in Entries
      BY <1>1, <1>2, ConfigTypes DEF Valid
    <3>3. (\E q \in Reg : r.s[m].reads = {q}) /\ c.s[m].reads \cap Reg = {}
      BY <1>2, <1>12, <3>1, <3>2, EntryTypes
    <3> QED BY <1>10, <2>3, <3>3
  <2> QED BY <2>1, <2>2, <2>3
<1> HIDE DEF v
<1>13. Valid(Pop(v)) /\ (Sound(v) => Sound(Pop(v)))
  BY <1>1, <1>11, PopKeeps
<1>14. EmitIncrement(c) = Pop(v)
  BY DEF EmitIncrement, v, r, b, e, a, p
<1>15. /\ Sound(c)
       /\ c.s[m].type = "Local" =>
            \A j \in 1 .. m - 1 : c.s[j].reads \cap c.s[m].reads = {}
       => Sound(v)
  BY <1>2, <1>4, <1>6, <1>7, <1>8, <1>10, <1>11, <1>12
<1> QED BY <1>13, <1>14, <1>15

-----------------------------------------------------------------------------
(* The inductive invariant, whose second part holds of programs that stay
   within the registers and whose third of those that ask for nothing the
   registers cannot bear. *)
Within == "long" \notin Programs => minReg > 0
RegistersInv == Valid(Current) /\ Within
OperandsInv == Sound(Current)

LEMMA CurrentIs ==
  /\ Current.s = stack /\ Current.n = nextReg /\ Current.l = minReg
  /\ Current.k = kept /\ Current.i = intact
BY DEF Current

LEMMA BecomesKeeps ==
  ASSUME NEW c, Valid(c), Becomes(c)
  PROVE  Valid(Current)' /\ Within' /\ (Sound(c) => Sound(Current)') /\ Current' = c
<1>1. c = Current'
  <2>1. c \in Config
    BY DEF Valid
  <2>2. Current' = [s |-> c.s, n |-> c.n, l |-> c.l, k |-> c.k, i |-> c.i]
    BY DEF Becomes, Current
  <2> QED BY <2>1, <2>2 DEF Config
<1>2. Within'
  BY DEF Becomes, Within
<1> QED BY <1>1, <1>2 DEF Valid, Sound, Counted

LEMMA RegistersInit == Init => RegistersInv /\ OperandsInv
<1> SUFFICES ASSUME Init PROVE RegistersInv /\ OperandsInv
  OBVIOUS
<1>1. stack \in Seq(Entries) /\ Len(stack) = 0 /\ Above(stack, 0) = 0
  <2>1. <<>> \in Seq(Entries) /\ Len(<<>>) = 0 /\ Above(<<>>, 0) = 0
    BY EmptySeq, AboveTop
  <2> QED BY <2>1 DEF Init
<1>2. /\ nextReg = MaxRegister /\ minReg = MaxRegister + 1 /\ kept = 0 /\ intact = TRUE
      /\ MaxRegister \in Nat /\ MaxRegister \in Reg
  BY ParseStackConstantsOK DEF Init, Reg
<1>3. Current \in Config
  BY <1>1, <1>2 DEF Current, Config
<1>4. Counted(Current)
  BY <1>1, <1>2, CurrentIs DEF Counted
<1>5. Sound(Current)
  BY <1>1, <1>2, CurrentIs DEF Sound, Clear
<1> QED BY <1>2, <1>3, <1>4, <1>5 DEF RegistersInv, OperandsInv, Valid, Within

(* What the guards say of the stack. *)
LEMMA GuardsAre ==
  ASSUME Valid(Current)
  PROVE  LET s == Current.s IN
         /\ s = stack /\ Len(stack) \in Nat
         /\ Has(1) <=> Len(s) > 0
         /\ Has(2) <=> Len(s) > 1
         /\ Has(3) <=> Len(s) > 2
         /\ Type(1) = s[Len(s)].type /\ Type(2) = s[Len(s) - 1].type
         /\ Alone(1) => \/ "assignments" \in Programs
                        \/ s[Len(s)].type # "Local"
                        \/ \A j \in 1 .. Len(s) - 1 : s[j].reads \cap s[Len(s)].reads = {}
         /\ Alone(2) => \/ "assignments" \in Programs
                        \/ s[Len(s) - 1].type # "Local"
                        \/ \A j \in 1 .. Len(s) - 2 : s[j].reads \cap s[Len(s) - 1].reads = {}
<1>1. Current.s = stack /\ Len(stack) \in Nat
  BY CurrentIs, ConfigTypes DEF Valid
<1> DEFINE n == Len(stack)
<1>2. n \in Nat /\ n - 1 + 1 = n /\ n - 2 + 1 = n - 1
  BY <1>1
<1> HIDE DEF n
<1>3. Type(1) = stack[n].type /\ Type(2) = stack[n - 1].type
  BY <1>2 DEF Type, n
<1>4. /\ Has(1) <=> n > 0
      /\ Has(2) <=> n > 1
      /\ Has(3) <=> n > 2
  BY <1>2 DEF Has, n
<1>5. /\ Alone(1) => \/ "assignments" \in Programs \/ stack[n].type # "Local"
                     \/ \A j \in 1 .. n - 1 : stack[j].reads \cap stack[n].reads = {}
      /\ Alone(2) => \/ "assignments" \in Programs \/ stack[n - 1].type # "Local"
                     \/ \A j \in 1 .. n - 2 : stack[j].reads \cap stack[n - 1].reads = {}
  BY <1>2, <1>3 DEF Alone, n
<1> QED BY <1>1, <1>3, <1>4, <1>5 DEF n

(* What one step does to the registers, and that it spoils no operand of a
   program that asks for nothing the registers cannot bear. *)
LEMMA StepKeeps ==
  ASSUME RegistersInv, Next
  PROVE  RegistersInv' /\ (Programs = {} /\ OperandsInv => OperandsInv')
<1> DEFINE C == Current
           s == C.s
           Good == RegistersInv' /\ (Programs = {} /\ OperandsInv => OperandsInv')
<1>v. Valid(C)
  BY DEF RegistersInv
<1>g. /\ Len(s) \in Nat
      /\ Has(1) <=> Len(s) > 0
      /\ Has(2) <=> Len(s) > 1
      /\ Has(3) <=> Len(s) > 2
      /\ Type(1) = s[Len(s)].type /\ Type(2) = s[Len(s) - 1].type
      /\ Alone(1) => \/ "assignments" \in Programs
                     \/ s[Len(s)].type # "Local"
                     \/ \A j \in 1 .. Len(s) - 1 : s[j].reads \cap s[Len(s)].reads = {}
      /\ Alone(2) => \/ "assignments" \in Programs
                     \/ s[Len(s) - 1].type # "Local"
                     \/ \A j \in 1 .. Len(s) - 2 : s[j].reads \cap s[Len(s) - 1].reads = {}
  BY <1>v, GuardsAre
<1>b. ASSUME NEW c, Valid(c), Becomes(c), Programs = {} /\ Sound(C) => Sound(c) PROVE Good
  BY <1>b, BecomesKeeps DEF RegistersInv, OperandsInv
<1> SUFFICES Good
  OBVIOUS
<1> HIDE DEF C, s, Good
<1>1. CASE Operand
  <2>1. ASSUME NEW type \in {"Constant", "Function", "RefK", "This", "UpValue"},
               Becomes(Push(C, Entry(type, {})))
        PROVE  Good
    <3>1. Entry(type, {}) \in Entries /\ Entry(type, {}).type # "Register"
          /\ Entry(type, {}).ok /\ Entry(type, {}).reads \cap Reg = {}
      BY <2>1 DEF Entry, Entries, Types
    <3> QED BY <1>v, <1>b, <2>1, <3>1, PushKeeps
  <2>2. ASSUME NEW x \in Local, Becomes(Push(C, Entry("Local", {x}))) PROVE Good
    <3>1. Entry("Local", {x}) \in Entries /\ Entry("Local", {x}).type # "Register"
          /\ Entry("Local", {x}).ok /\ Entry("Local", {x}).reads \cap Reg = {}
      BY <2>2, ParseStackConstantsOK DEF Entry, Entries, Types, Reg
    <3> QED BY <1>v, <1>b, <2>2, <3>1, PushKeeps
  <2> QED BY <1>1, <2>1, <2>2 DEF Operand, C
<1>2. CASE Literal
  <2>1. Becomes(PushRegister(C))
    BY <1>2 DEF Literal, C
  <2> QED BY <1>v, <1>b, <2>1, PushRegisterKeeps
<1>3. CASE Deref
  <2>1. /\ Becomes(EmitDeref(C)) /\ Len(s) > 1
        /\ "indices" \in Programs \/ s[Len(s)].type \in {"Local", "Constant"}
    BY <1>3, <1>g DEF Deref, C
  <2>2. /\ Valid(EmitDeref(C))
        /\ Sound(C) /\ s[Len(s)].type \in {"Local", "Constant"} => Sound(EmitDeref(C))
    BY <1>v, <2>1, EmitDerefKeeps DEF s
  <2> QED BY <1>b, <2>1, <2>2
<1>4. CASE BinOp
  <2>1. Becomes(EmitBinOp(C)) /\ Len(s) > 1
    BY <1>4, <1>g DEF BinOp, C
  <2>2. Valid(EmitBinOp(C)) /\ (Sound(C) => Sound(EmitBinOp(C)))
    BY <1>v, <2>1, EmitBinOpKeeps DEF s
  <2> QED BY <1>b, <2>1, <2>2
<1>5. CASE UnOp
  <2>1. Becomes(EmitUnOp(C)) /\ Len(s) > 0
    BY <1>5, <1>g DEF UnOp, C
  <2>2. Valid(EmitUnOp(C)) /\ (Sound(C) => Sound(EmitUnOp(C)))
    BY <1>v, <2>1, EmitUnOpKeeps DEF s
  <2> QED BY <1>b, <2>1, <2>2
<1>6. CASE Increment
  <2>1. /\ Becomes(EmitIncrement(C)) /\ Len(s) > 0
        /\ s[Len(s)].type \in {"EltRef", "RefK", "Local", "UpValue"}
        /\ \/ "assignments" \in Programs
           \/ s[Len(s)].type # "Local"
           \/ \A j \in 1 .. Len(s) - 1 : s[j].reads \cap s[Len(s)].reads = {}
    BY <1>6, <1>g DEF Increment, C
  <2>2. /\ Valid(EmitIncrement(C))
        /\ /\ Sound(C)
           /\ s[Len(s)].type = "Local" =>
                \A j \in 1 .. Len(s) - 1 : s[j].reads \cap s[Len(s)].reads = {}
           => Sound(EmitIncrement(C))
    BY <1>v, <2>1, EmitIncrementKeeps DEF s
  <2> QED BY <1>b, <2>1, <2>2
<1>7. CASE Dup
  <2>1. /\ Becomes(EmitDup(C)) /\ Len(s) > 0 /\ s[Len(s)].type # "Register"
    BY <1>7, <1>g DEF Dup, C
  <2>2. Valid(EmitDup(C)) /\ (Sound(C) => Sound(EmitDup(C)))
    BY <1>v, <2>1, EmitDupKeeps DEF s
  <2> QED BY <1>b, <2>1, <2>2
<1>8. CASE Move
  <2>1. /\ Becomes(EmitMove(C)) /\ Len(s) > 1 /\ s[Len(s) - 1].type \in Assignable
        /\ \/ "assignments" \in Programs
           \/ s[Len(s) - 1].type # "Local"
           \/ \A j \in 1 .. Len(s) - 2 : s[j].reads \cap s[Len(s) - 1].reads = {}
    BY <1>8, <1>g DEF Move, C
  <2>2. /\ Valid(EmitMove(C))
        /\ /\ Sound(C)
           /\ s[Len(s) - 1].type = "Local" =>
                \A j \in 1 .. Len(s) - 2 : s[j].reads \cap s[Len(s) - 1].reads = {}
           => Sound(EmitMove(C))
    BY <1>v, <2>1, EmitMoveKeeps DEF s
  <2> QED BY <1>b, <2>1, <2>2
<1>9. CASE Consume
  <2>1. Becomes(EmitPush(C)) /\ Len(s) > 0
    BY <1>9, <1>g DEF Consume, C
  <2>2. Valid(EmitPush(C)) /\ (Sound(C) => Sound(EmitPush(C)))
    BY <1>v, <2>1, EmitPushKeeps DEF s
  <2> QED BY <1>b, <2>1, <2>2
<1>10. ASSUME Len(s) > 0, Becomes(PushRegister(EmitPush(C))) PROVE Good
  <2>1. Valid(EmitPush(C)) /\ (Sound(C) => Sound(EmitPush(C)))
    BY <1>v, <1>10, EmitPushKeeps DEF s
  <2>2. /\ Valid(PushRegister(EmitPush(C)))
        /\ (Sound(EmitPush(C)) => Sound(PushRegister(EmitPush(C))))
    BY <2>1, PushRegisterKeeps
  <2> QED BY <1>b, <1>10, <2>1, <2>2
<1>11. CASE Call
  <2>1. CASE Becomes(EmitCall(C)) /\ Len(s) > 0
    <3>1. Valid(EmitCall(C)) /\ (Sound(C) => Sound(EmitCall(C)))
      BY <1>v, <2>1, EmitCallKeeps DEF s
    <3> QED BY <1>b, <2>1, <3>1
  <2> QED BY <1>10, <1>11, <1>g, <2>1 DEF Call, C
<1>12. CASE Question
  BY <1>10, <1>12, <1>g DEF Question, AddMatchedJump, C
<1>13. CASE Case
  <2>1. /\ Becomes(EmitCaseTest(C)) /\ Len(s) > 1
        /\ \/ "cases" \in Programs
           \/ s[Len(s)].type \in {"Local", "Constant"}
           \/ s[Len(s) - 1].type \in InRegister
    BY <1>13, <1>g DEF Case, C
  <2>2. /\ Valid(EmitCaseTest(C))
        /\ Sound(C) /\ (\/ s[Len(s) - 1].type \in InRegister
                        \/ s[Len(s)].type \in {"Local", "Constant"})
           => Sound(EmitCaseTest(C))
    BY <1>v, <2>1, EmitCaseTestKeeps DEF s
  <2> QED BY <1>b, <2>1, <2>2
<1>14. CASE AppendElt
  <2>1. Becomes(EmitAppendElt(C)) /\ Len(s) > 1 /\ s[Len(s) - 1].type = "Register"
    BY <1>14, <1>g DEF AppendElt, C
  <2>2. Valid(EmitAppendElt(C)) /\ (Sound(C) => Sound(EmitAppendElt(C)))
    BY <1>v, <2>1, EmitAppendEltKeeps DEF s
  <2> QED BY <1>b, <2>1, <2>2
<1>15. CASE AppendProp
  <2>1. Becomes(EmitAppendProp(C)) /\ Len(s) > 2 /\ s[Len(s) - 1].type = "Constant"
    BY <1>15, <1>g DEF AppendProp, C
  <2>2. Valid(EmitAppendProp(C)) /\ (Sound(C) => Sound(EmitAppendProp(C)))
    BY <1>v, <2>1, EmitAppendPropKeeps DEF s
  <2> QED BY <1>b, <2>1, <2>2
<1>16. CASE DiscardResult
  <2>1. Becomes(Pop(C)) /\ Len(s) > 0
    BY <1>16, <1>g DEF DiscardResult, C
  <2>2. Valid(Pop(C)) /\ (Sound(C) => Sound(Pop(C)))
    BY <1>v, <2>1, PopKeeps DEF s
  <2> QED BY <1>b, <2>1, <2>2
<1> QED BY <1>1, <1>2, <1>3, <1>4, <1>5, <1>6, <1>7, <1>8, <1>9, <1>11, <1>12, <1>13, <1>14,
           <1>15, <1>16 DEF Next

LEMMA StutterKeeps ==
  ASSUME UNCHANGED vars
  PROVE  (RegistersInv => RegistersInv') /\ (OperandsInv => OperandsInv')
<1>1. Current' = Current /\ minReg' = minReg
  BY DEF vars, Current
<1> QED BY <1>1 DEF RegistersInv, OperandsInv, Valid, Counted, Sound, Within

LEMMA RegistersInvariant == Spec => []RegistersInv
<1>1. Init => RegistersInv
  BY RegistersInit
<1>2. RegistersInv /\ [Next]_vars => RegistersInv'
  BY StepKeeps, StutterKeeps
<1> QED BY <1>1, <1>2, PTL DEF Spec

-----------------------------------------------------------------------------
(* Registers are taken and given back in balance, whatever the expression: the
   next register never leaves the range of those there are (ParseStack::push and
   pop, Parser.h). *)
THEOREM ParseStackTypes == Spec => []TypeOK
<1>1. RegistersInv => TypeOK
  <2> SUFFICES ASSUME RegistersInv PROVE TypeOK
    OBVIOUS
  <2>1. /\ stack \in Seq(Entries) /\ nextReg \in Reg /\ minReg \in 0 .. MaxRegister + 1
        /\ kept \in Nat /\ intact \in BOOLEAN /\ Counted(Current)
    BY CurrentIs DEF RegistersInv, Valid, Config
  <2> DEFINE S == [type : Types, reads : SUBSET (Local \cup 0 .. Wrap - 1), ok : BOOLEAN]
  <2>2. stack \in Seq(S)
    <3>1. Entries \subseteq S
      BY DEF Entries, Reg
    <3>2. Len(stack) \in Nat /\ stack = [i \in 1 .. Len(stack) |-> stack[i]]
          /\ \A i \in 1 .. Len(stack) : stack[i] \in S
      BY <2>1, <3>1, LenProperties, ElementOfSeq
    <3> HIDE DEF S
    <3> QED BY <3>2
  <2>3. "long" \notin Programs => nextReg \in 0 .. MaxRegister
    <3> SUFFICES ASSUME "long" \notin Programs PROVE nextReg \in 0 .. MaxRegister
      OBVIOUS
    <3>1. nextReg + kept + Above(stack, 0) = MaxRegister /\ Above(stack, 0) \in Nat
      BY <2>1, CurrentIs, AboveType DEF Counted, RegistersInv, Within
    <3> QED BY <2>1, <3>1, ParseStackConstantsOK DEF Reg
  <2> QED BY <2>1, <2>2, <2>3 DEF TypeOK, Reg
<1> QED BY <1>1, RegistersInvariant, PTL

(* At the end of a statement that fits the registers, whatever it was, all
   registers are free but those of objects a reference was made of. *)
THEOREM RegistersAreReturned ==
  ASSUME "long" \notin Programs
  PROVE  Spec => []RegistersReturned
<1>1. RegistersInv => RegistersReturned
  <2> SUFFICES ASSUME RegistersInv, stack = <<>> PROVE nextReg + kept = MaxRegister
    BY DEF RegistersReturned
  <2>1. nextReg + kept + Above(stack, 0) = MaxRegister /\ nextReg \in Nat /\ kept \in Nat
    BY CurrentIs, ConfigTypes DEF RegistersInv, Valid, Counted, Within
  <2>2. Above(stack, 0) = 0
    <3>1. <<>> \in Seq(Entries)
      BY EmptySeq
    <3> QED BY <3>1, AboveTop
  <2> QED BY <2>1, <2>2
<1> QED BY <1>1, RegistersInvariant, PTL

(* No instruction of an expression, of whatever depth, finds in a register
   something else than what was put there for it, if the indices and cases are
   names or constants and no local is assigned where it has been named. *)
THEOREM OperandsAreIntact ==
  ASSUME Programs = {}
  PROVE  Spec => []OperandsIntact
<1>1. Init => RegistersInv /\ OperandsInv
  BY RegistersInit
<1>2. RegistersInv /\ OperandsInv /\ [Next]_vars => RegistersInv' /\ OperandsInv'
  BY StepKeeps, StutterKeeps
<1>3. RegistersInv /\ OperandsInv => OperandsIntact
  BY CurrentIs DEF RegistersInv, OperandsInv, Within, Sound, OperandsIntact
<1> QED BY <1>1, <1>2, <1>3, PTL DEF Spec

(* Where no case has to be worked out the comment on emitCaseTest is right: the
   value of the switch lasts. *)
THEOREM SwitchValueLasts ==
  ASSUME Programs = {}
  PROVE  Spec => SwitchValueStays
<1>1. Init => RegistersInv /\ OperandsInv
  BY RegistersInit
<1>2. RegistersInv /\ OperandsInv /\ [Next]_vars => RegistersInv' /\ OperandsInv'
  BY StepKeeps, StutterKeeps
<1>3. RegistersInv /\ OperandsInv /\ [Next]_vars
        => [Case /\ stack[Len(stack) - 1].ok => Last(stack').ok]_vars
  <2> SUFFICES ASSUME RegistersInv, OperandsInv, Next, Case PROVE Last(stack').ok
    OBVIOUS
  <2> DEFINE C == Current
             d == EmitCaseTest(C)
  <2>1. Valid(C) /\ Becomes(d) /\ Len(C.s) > 1 /\ Len(C.s) \in Nat
    BY GuardsAre, ConfigTypes DEF RegistersInv, Valid, Case
  <2> HIDE DEF C
  <2>2. Valid(d) /\ Len(d.s) = Len(C.s) - 1
    BY <2>1, EmitCaseTestKeeps
  <2> HIDE DEF d
  <2>3. stack' = d.s /\ minReg' > 0 /\ Sound(Current)'
    BY <2>1, StepKeeps DEF Becomes, RegistersInv, Within, OperandsInv
  <2>4. Current'.s = stack' /\ Current'.l = minReg' /\ Current'.n = nextReg'
    BY CurrentIs DEF Current
  <2>5. \A j \in 1 .. Len(stack') : stack'[j].ok
    BY <2>3, <2>4 DEF Sound, Clear
  <2>6. Len(stack') \in 1 .. Len(stack')
    BY <2>1, <2>2, <2>3
  <2> QED BY <2>5, <2>6 DEF Last
<1> QED BY <1>1, <1>2, <1>3, PTL DEF Spec, SwitchValueStays
=============================================================================

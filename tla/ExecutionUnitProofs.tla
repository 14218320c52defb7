------------------------- MODULE ExecutionUnitProofs -------------------------
(***************************************************************************)
(* Proofs about the stack and the queue of events of ExecutionUnit, for    *)
(* functions of any size and any depth of calls.                           *)
(***************************************************************************)
EXTENDS ExecutionUnit, SequenceTheorems, TLAPS

Event == [func : Function \cup {Native}, nargs : 0 .. MaxArgs]
Item == Function \cup {Native} \cup {"this"} \cup (0 .. MaxArgs) \cup {"local"}

(* Event e begins at place p of the flat queue q. *)
Holds(q, e, p) ==
  /\ q[p] = e.func
  /\ q[p + 1] = "this"
  /\ q[p + 2] = e.nargs
  /\ \A i \in 1 .. e.nargs : q[p + 2 + i] = "local"

(* The places at which the events es begin in a queue of length n. *)
Places(n, es, at) ==
  /\ at \in [1 .. Len(es) + 1 -> 1 .. n + 1]
  /\ at[1] = 1 /\ at[Len(es) + 1] = n + 1
  /\ \A i, j \in 1 .. Len(es) + 1 : i <= j => at[i] <= at[j]
  /\ \A j \in 1 .. Len(es) : at[j + 1] = at[j] + 3 + es[j].nargs

(* The queue q is made of whole events, which are es. *)
Whole(q, es, at) ==
  /\ Places(Len(q), es, at)
  /\ \A j \in 1 .. Len(es) : Holds(q, es[j], at[j])

(* The part of q behind k is that of r behind m. *)
SamePart(q, k, r, m, n) == \A i \in 1 .. n : q[k + i] = r[m + i]

QueueInv ==
  /\ queue \in Seq(Item) /\ events \in Seq(Event)
  /\ \E at : Whole(queue, events, at)

-----------------------------------------------------------------------------
LEMMA ConstantTypes ==
  /\ \A f \in Function : f.formal \in Nat /\ f.locals \in Nat /\ f.formal <= f.locals
  /\ MainLocals \in Nat /\ MaxArgs \in Nat /\ MaxDepth \in Nat \ {0}
  /\ MaxListeners \in Nat
BY ExecutionUnitConstantsOK

LEMMA CopiesAre ==
  ASSUME NEW n \in Nat, NEW S, NEW role \in S
  PROVE  /\ Copies(n, role) \in Seq(S) /\ Len(Copies(n, role)) = n
         /\ \A i \in 1 .. n : Copies(n, role)[i] = role
<1>1. Copies(n, role) \in [1 .. n -> S]
  BY DEF Copies
<1>2. QED
  BY <1>1 DEF Copies

LEMMA FrontIs ==
  ASSUME NEW S, NEW s \in Seq(S), s # <<>>
  PROVE  /\ Len(s) \in Nat /\ Len(s) > 0
         /\ Front(s) \in Seq(S) /\ Len(Front(s)) = Len(s) - 1
         /\ \A i \in 1 .. Len(s) - 1 : Front(s)[i] = s[i]
         /\ Last(s) = s[Len(s)] /\ Last(s) \in S
<1> DEFINE m == Len(s) - 1
<1>1. /\ Len(s) \in Nat /\ Len(s) \in 1 .. Len(s) /\ m \in Nat
      /\ \A i \in 1 .. m : s[i] \in S
  BY EmptySeq
<1>2. Front(s) = SubSeq(s, 1, m)
  BY DEF Front
<1> HIDE DEF m
<1>3. /\ SubSeq(s, 1, m) \in Seq(S)
      /\ Len(SubSeq(s, 1, m)) = IF 1 <= m THEN m - 1 + 1 ELSE 0
      /\ \A i \in 1 .. m - 1 + 1 : SubSeq(s, 1, m)[i] = s[1 + i - 1]
  <2>1. m \in Int /\ 1 \in Int
    BY <1>1
  <2>2. QED
    BY ONLY <1>1, <2>1, SubSeqProperties
<1>4. Len(SubSeq(s, 1, m)) = m /\ \A i \in 1 .. m : SubSeq(s, 1, m)[i] = s[i]
  BY <1>1, <1>3
<1>5. QED
  BY <1>1, <1>2, <1>3, <1>4, ElementOfSeq DEF Last, m

(* A prefix of a sequence. *)
LEMMA PrefixIs ==
  ASSUME NEW S, NEW s \in Seq(S), NEW m \in Int, m <= Len(s)
  PROVE  /\ SubSeq(s, 1, m) \in Seq(S)
         /\ m \in Nat => Len(SubSeq(s, 1, m)) = m
<1>1. Len(s) \in Nat /\ \A i \in 1 .. m : s[i] \in S
  OBVIOUS
<1>2. /\ SubSeq(s, 1, m) \in Seq(S)
      /\ Len(SubSeq(s, 1, m)) = IF 1 <= m THEN m - 1 + 1 ELSE 0
  <2>1. 1 \in Int
    OBVIOUS
  <2>2. QED
    BY <1>1, <2>1, SubSeqProperties
<1>3. QED
  BY <1>2

-----------------------------------------------------------------------------
(* An event that is elsewhere in another queue *)
LEMMA HoldsThere ==
  ASSUME NEW q, NEW r, NEW e \in Event, NEW p \in Int, NEW to \in Int,
         Holds(q, e, p), SamePart(r, to - 1, q, p - 1, 3 + e.nargs)
  PROVE  Holds(r, e, to)
<1> DEFINE n == e.nargs
<1>1. n \in Nat
  BY ConstantTypes DEF Event
<1>2. \A i \in 1 .. 3 + n : r[(to - 1) + i] = q[(p - 1) + i]
  BY DEF SamePart
<1>3. /\ q[p] = e.func /\ q[p + 1] = "this" /\ q[p + 2] = n
      /\ \A i \in 1 .. n : q[p + 2 + i] = "local"
  BY DEF Holds
<1> HIDE DEF n
<1>4. /\ 1 \in 1 .. 3 + n /\ 2 \in 1 .. 3 + n /\ 3 \in 1 .. 3 + n
      /\ \A i \in 1 .. n : 3 + i \in 1 .. 3 + n
      /\ (to - 1) + 1 = to /\ (p - 1) + 1 = p
      /\ (to - 1) + 2 = to + 1 /\ (p - 1) + 2 = p + 1
      /\ (to - 1) + 3 = to + 2 /\ (p - 1) + 3 = p + 2
      /\ \A i \in 1 .. n : (to - 1) + (3 + i) = to + 2 + i /\ (p - 1) + (3 + i) = p + 2 + i
  BY <1>1
<1>5. r[to] = e.func /\ r[to + 1] = "this" /\ r[to + 2] = n
  BY <1>2, <1>3, <1>4
<1>6. ASSUME NEW i \in 1 .. n PROVE r[to + 2 + i] = "local"
  BY <1>2, <1>3, <1>4
<1>7. QED
  BY <1>5, <1>6 DEF Holds, n

(* An event put behind the others *)
LEMMA PutWhole ==
  ASSUME NEW q \in Seq(Item), NEW es \in Seq(Event), NEW at, Whole(q, es, at),
         NEW e \in Event, NEW r \in Seq(Item), Len(r) = Len(q) + 3 + e.nargs,
         SamePart(r, 0, q, 0, Len(q)), Holds(r, e, Len(q) + 1)
  PROVE  \E to : Whole(r, Append(es, e), to)
<1> DEFINE k == Len(es)
           n == Len(q)
           c == e.nargs
           m == Len(r)
           fs == Append(es, e)
           to == [j \in 1 .. k + 2 |-> IF j = k + 2 THEN m + 1 ELSE at[j]]
<1>1. /\ k \in Nat /\ n \in Nat /\ c \in Nat /\ m \in Nat /\ m = n + 3 + c
      /\ \A j \in 1 .. k : es[j] \in Event /\ es[j].nargs \in Nat
  <2>1. \A x \in Event : x.nargs \in Nat
    BY ConstantTypes DEF Event
  <2>2. \A j \in 1 .. k : es[j] \in Event
    OBVIOUS
  <2>3. k \in Nat /\ n \in Nat /\ c \in Nat /\ m \in Nat /\ m = n + 3 + c
    BY <2>1
  <2>4. QED
    BY <2>1, <2>2, <2>3
<1>2. Len(fs) = k + 1 /\ fs[k + 1] = e /\ \A j \in 1 .. k : fs[j] = es[j]
  OBVIOUS
<1>3. /\ at \in [1 .. k + 1 -> 1 .. n + 1] /\ at[1] = 1 /\ at[k + 1] = n + 1
      /\ \A i, j \in 1 .. k + 1 : i <= j => at[i] <= at[j]
      /\ \A j \in 1 .. k : at[j + 1] = at[j] + 3 + es[j].nargs
  BY DEF Whole, Places
<1> HIDE DEF k, n, c, m
<1>4. /\ to[k + 2] = n + 4 + c
      /\ \A j \in 1 .. k + 1 : to[j] = at[j] /\ j \in 1 .. k + 2
      /\ \A j \in 1 .. k + 2 : j = k + 2 \/ j \in 1 .. k + 1
  <2>1. /\ \A j \in 1 .. k + 1 : j \in 1 .. k + 2 /\ j # k + 2
        /\ \A j \in 1 .. k + 2 : j = k + 2 \/ j \in 1 .. k + 1
        /\ k + 2 \in 1 .. k + 2
    BY <1>1
  <2>2. to[k + 2] = m + 1 /\ \A j \in 1 .. k + 1 : to[j] = at[j]
    BY <2>1
  <2>3. m + 1 = n + 4 + c
    BY ONLY <1>1
  <2>4. QED
    BY <2>1, <2>2, <2>3
<1>5. to \in [1 .. k + 2 -> 1 .. m + 1]
  <2>1. \A j \in 1 .. k + 1 : at[j] \in 1 .. m + 1
    BY ONLY <1>1, <1>3
  <2>2. \A j \in 1 .. k + 2 : (IF j = k + 2 THEN m + 1 ELSE at[j]) \in 1 .. m + 1
    BY <1>1, <1>4, <2>1
  <2>3. QED
    BY <2>2
<1> HIDE DEF to, fs
<1>6. ASSUME NEW i \in 1 .. k + 2, NEW j \in 1 .. k + 2, i <= j
      PROVE  to[i] <= to[j]
  <2>1. CASE j = k + 2
    <3>1. to[i] \in 1 .. m + 1 /\ to[j] = m + 1
      BY <1>1, <1>4, <1>5, <2>1
    <3>2. QED
      BY ONLY <1>1, <3>1
  <2>2. CASE j # k + 2
    <3>1. i \in 1 .. k + 1 /\ j \in 1 .. k + 1
      BY <1>1, <1>6, <2>2
    <3>2. to[i] = at[i] /\ to[j] = at[j]
      BY <1>4, <3>1
    <3>3. QED
      BY <1>3, <1>6, <3>1, <3>2
  <2>3. QED
    BY <2>1, <2>2
<1>7. ASSUME NEW j \in 1 .. k
      PROVE  /\ to[j + 1] = to[j] + 3 + fs[j].nargs
             /\ Holds(r, fs[j], to[j])
  <2>1. j \in 1 .. k + 1 /\ j + 1 \in 1 .. k + 1 /\ fs[j] = es[j]
    <3>1. j \in 1 .. k + 1 /\ j + 1 \in 1 .. k + 1
      BY ONLY <1>1, j \in 1 .. k
    <3>2. fs[j] = es[j]
      BY <1>2
    <3>3. QED
      BY <3>1, <3>2
  <2>2. to[j] = at[j] /\ to[j + 1] = at[j] + 3 + es[j].nargs
    BY <1>3, <1>4, <2>1
  <2>3. at[j] \in Int /\ at[j] >= 1 /\ at[j] + 3 + es[j].nargs <= n + 1 /\ es[j].nargs \in Nat
    <3>1. es[j].nargs \in Nat /\ at[j + 1] \in 1 .. n + 1 /\ at[j] \in 1 .. n + 1
          /\ at[j + 1] = at[j] + 3 + es[j].nargs
      BY <1>1, <1>3, <2>1
    <3>2. QED
      BY ONLY <1>1, <3>1
  <2>4. SamePart(r, at[j] - 1, q, at[j] - 1, 3 + es[j].nargs)
    <3>1. \A i \in 1 .. n : r[0 + i] = q[0 + i]
      BY DEF SamePart, n
    <3> DEFINE p == at[j]
               d == es[j].nargs
    <3>0. p \in Int /\ p >= 1 /\ p + 3 + d <= n + 1 /\ d \in Nat /\ n \in Nat
      BY <1>1, <2>3
    <3> HIDE DEF p, d
    <3>4. \A i \in 1 .. 3 + d : (p - 1) + i \in 1 .. n /\ 0 + ((p - 1) + i) = (p - 1) + i
      BY ONLY <3>0
    <3>2. \A i \in 1 .. 3 + es[j].nargs :
            (at[j] - 1) + i \in 1 .. n /\ 0 + ((at[j] - 1) + i) = (at[j] - 1) + i
      BY <3>4 DEF p, d
    <3>3. QED
      BY <3>1, <3>2 DEF SamePart
  <2>5. Holds(q, es[j], at[j]) /\ es[j] \in Event
    BY <1>1 DEF Whole, k
  <2>6. QED
    BY <2>1, <2>2, <2>3, <2>4, <2>5, HoldsThere
<1>8. /\ to[k + 1 + 1] = to[k + 1] + 3 + fs[k + 1].nargs
      /\ Holds(r, fs[k + 1], to[k + 1])
  <2>1. k + 1 + 1 = k + 2 /\ k + 1 \in 1 .. k + 1 /\ n + 4 + c = n + 1 + 3 + c
    BY ONLY <1>1
  <2>2. to[k + 1] = n + 1 /\ to[k + 2] = n + 1 + 3 + c
    BY <1>3, <1>4, <2>1
  <2>3. Holds(r, e, n + 1)
    BY DEF n
  <2>4. QED
    BY <1>2, <2>1, <2>2, <2>3 DEF c
<1>9. /\ \A j \in 1 .. k + 1 : j \in 1 .. k \/ j = k + 1
      /\ to[1] = 1 /\ to[k + 2] = m + 1 /\ k + 1 + 1 = k + 2
  BY ONLY <1>1, <1>3, <1>4
<1>10. Whole(r, fs, to)
  <2>1. Len(fs) = k + 1 /\ Len(fs) + 1 = k + 2
    BY <1>1, <1>2
  <2>2. Places(Len(r), fs, to)
    BY <1>5, <1>6, <1>7, <1>8, <1>9, <2>1 DEF Places, m
  <2>3. QED
    BY <1>7, <1>8, <1>9, <2>1, <2>2 DEF Whole
<1>11. QED
  BY <1>10 DEF fs

(* A queue is empty if no event is in it, and otherwise begins with one. *)
LEMMA FirstEvent ==
  ASSUME NEW q \in Seq(Item), NEW es \in Seq(Event), NEW at, Whole(q, es, at),
         q # <<>>
  PROVE  /\ Len(es) \in Nat /\ Len(es) > 0
         /\ es[1] \in Event /\ es[1].nargs \in Nat
         /\ Len(q) \in Nat /\ 3 + es[1].nargs <= Len(q)
         /\ q[1] = es[1].func /\ q[3] = es[1].nargs
         /\ \A i \in 1 .. es[1].nargs : q[3 + i] = "local"
<1> DEFINE k == Len(es)
           n == Len(q)
           c == es[1].nargs
           one == at[1]
           two == at[2]
<1>1. k \in Nat /\ n \in Nat /\ n # 0
  BY EmptySeq
<1>2. at[1] = 1 /\ at[k + 1] = n + 1 /\ at \in [1 .. k + 1 -> 1 .. n + 1]
  BY DEF Whole, Places
<1>3. k > 0
  <2>1. k # 0
    <3>1. SUFFICES ASSUME k = 0 PROVE FALSE
      OBVIOUS
    <3>2. k + 1 = 1
      BY ONLY <3>1
    <3>3. n + 1 = 1
      BY <1>2, <3>2
    <3>4. QED
      BY ONLY <1>1, <3>3
  <2>2. QED
    BY ONLY <1>1, <2>1
<1>4. 1 \in 1 .. k /\ 1 + 1 = 2 /\ 2 \in 1 .. k + 1
  BY ONLY <1>1, <1>3
<1>5. es[1] \in Event /\ c \in Nat
  <2>1. \A x \in Event : x.nargs \in Nat
    BY ConstantTypes DEF Event
  <2>2. es[1] \in Event
    BY <1>4
  <2>3. QED
    BY <2>1, <2>2
<1>6. two = 1 + 3 + c /\ two \in 1 .. n + 1
  BY <1>2, <1>4 DEF Whole, Places
<1>7. Holds(q, es[1], 1)
  BY <1>2, <1>4 DEF Whole
<1>8. q[1] = es[1].func /\ q[1 + 2] = c /\ \A i \in 1 .. c : q[1 + 2 + i] = "local"
  BY <1>7 DEF Holds
<1> HIDE DEF k, n, c, two
<1>9. 3 + c <= n /\ 1 + 2 = 3
  BY ONLY <1>1, <1>5, <1>6
<1>10. QED
  BY <1>1, <1>3, <1>5, <1>8, <1>9 DEF k, n, c

(* The first event taken off: its arguments, and what is left *)
LEMMA TakeWhole ==
  ASSUME NEW q \in Seq(Item), NEW es \in Seq(Event), NEW at, Whole(q, es, at),
         q # <<>>
  PROVE  /\ q[3] \in 0 .. MaxArgs
         /\ SubSeq(q, 4, 3 + q[3]) \in Seq({"local"})
         /\ Len(SubSeq(q, 4, 3 + q[3])) = q[3]
         /\ SubSeq(q, 4 + q[3], Len(q)) \in Seq(Item)
         /\ Tail(es) \in Seq(Event)
         /\ \E to : Whole(SubSeq(q, 4 + q[3], Len(q)), Tail(es), to)
<1> DEFINE k == Len(es)
           n == Len(q)
           c == q[3]
           d == 3 + c
           r == SubSeq(q, 4 + c, n)
           fs == Tail(es)
           to == [j \in 1 .. k |-> at[j + 1] - d]
           args == SubSeq(q, 4, 3 + c)
<1>1. /\ k \in Nat /\ k > 0 /\ n \in Nat /\ c \in Nat /\ 3 + c <= n
      /\ c = es[1].nargs /\ es[1] \in Event
      /\ \A i \in 1 .. c : q[3 + i] = "local"
  BY FirstEvent
<1>0. k \in Nat /\ k > 0 /\ n \in Nat /\ c \in Nat /\ 3 + c <= n
  BY <1>1
<1>2. c \in 0 .. MaxArgs
  BY <1>1 DEF Event
<1>3. /\ at \in [1 .. k + 1 -> 1 .. n + 1] /\ at[1] = 1 /\ at[k + 1] = n + 1
      /\ \A i, j \in 1 .. k + 1 : i <= j => at[i] <= at[j]
      /\ \A j \in 1 .. k : at[j + 1] = at[j] + 3 + es[j].nargs
      /\ \A j \in 1 .. k : Holds(q, es[j], at[j])
  BY DEF Whole, Places
<1>4. /\ fs \in Seq(Event) /\ Len(fs) = k - 1
      /\ \A j \in 1 .. k - 1 : fs[j] = es[j + 1]
  <2>1. es # <<>>
    BY <1>1
  <2>2. QED
    BY <2>1, HeadTailProperties
<1>5. \A i \in 1 .. n : q[i] \in Item
  OBVIOUS
<1>6. \A j \in 1 .. k : es[j] \in Event /\ es[j].nargs \in Nat
  <2>1. \A x \in Event : x.nargs \in Nat
    BY ConstantTypes DEF Event
  <2>2. QED
    BY <2>1
<1> HIDE DEF k, n, c, fs
<1>7. /\ args \in Seq({"local"}) /\ Len(args) = c
  <2>0. 4 \in Int /\ 3 + c \in Int
    BY ONLY <1>0
  <2>1. \A i \in 4 .. 3 + c : i - 3 \in 1 .. c /\ 3 + (i - 3) = i
    BY ONLY <1>0
  <2>2. \A i \in 4 .. 3 + c : q[i] \in {"local"}
    BY <1>1, <2>1
  <2> DEFINE l == 3 + c
             L == {"local"}
  <2>3. 4 \in Int /\ l \in Int /\ \A i \in 4 .. l : q[i] \in L
    BY <2>0, <2>2
  <2>4. (IF 4 <= l THEN l - 4 + 1 ELSE 0) = c
    BY ONLY <1>0
  <2> HIDE DEF l, L
  <2>5. /\ SubSeq(q, 4, l) \in Seq(L)
        /\ Len(SubSeq(q, 4, l)) = IF 4 <= l THEN l - 4 + 1 ELSE 0
    BY ONLY <2>3, SubSeqProperties
  <2>6. /\ SubSeq(q, 4, l) \in Seq(L) /\ Len(SubSeq(q, 4, l)) = c
    BY ONLY <2>4, <2>5
  <2>7. QED
    BY <2>6 DEF l, L
<1>8. /\ r \in Seq(Item) /\ Len(r) = n - d
      /\ \A i \in 1 .. n - d : r[i] = q[d + i]
  <2>1. 4 + c \in Int /\ n \in Int /\ \A i \in 4 + c .. n : i \in 1 .. n
    BY ONLY <1>0
  <2>2. \A i \in 4 + c .. n : q[i] \in Item
    BY <1>5, <2>1
  <2>3. /\ r \in Seq(Item)
        /\ Len(r) = IF 4 + c <= n THEN n - (4 + c) + 1 ELSE 0
        /\ \A i \in 1 .. n - (4 + c) + 1 : r[i] = q[4 + c + i - 1]
    BY <2>1, <2>2, SubSeqProperties
  <2>4. /\ (IF 4 + c <= n THEN n - (4 + c) + 1 ELSE 0) = n - d
        /\ n - (4 + c) + 1 = n - d
        /\ \A i \in 1 .. n - d : 4 + c + i - 1 = d + i
    BY ONLY <1>0 DEF d
  <2>5. QED
    BY <2>3, <2>4
<1>9. d \in Nat /\ d <= n
  BY ONLY <1>0
<1> HIDE DEF r, args, d
<1>10. \A j \in 1 .. k : j \in 1 .. k + 1 /\ j + 1 \in 1 .. k + 1
  BY ONLY <1>0
<1>11. at[2] = d + 1
  <2>1. 1 \in 1 .. k /\ 1 + 1 = 2
    BY ONLY <1>0
  <2>2. at[2] = 1 + 3 + c
    BY <1>1, <1>3, <2>1
  <2>3. QED
    BY ONLY <1>0, <2>2 DEF d
<1>12. \A j \in 1 .. k : at[j + 1] \in d + 1 .. n + 1
  <2>1. SUFFICES ASSUME NEW j \in 1 .. k PROVE at[j + 1] \in d + 1 .. n + 1
    OBVIOUS
  <2>2. 2 \in 1 .. k + 1 /\ j + 1 \in 1 .. k + 1 /\ 2 <= j + 1
    BY ONLY <1>0, <2>1
  <2>3. at[2] <= at[j + 1] /\ at[j + 1] \in 1 .. n + 1
    BY <1>3, <2>2
  <2>4. QED
    BY ONLY <1>0, <1>9, <1>11, <2>3
<1>13. \A j \in 1 .. k : to[j] = at[j + 1] - d
  OBVIOUS
<1>14. to \in [1 .. k -> 1 .. n - d + 1]
  <2>1. \A j \in 1 .. k : at[j + 1] - d \in 1 .. n - d + 1
    BY ONLY <1>0, <1>9, <1>12
  <2>2. QED
    BY <2>1
<1> HIDE DEF to
<1>15. ASSUME NEW i \in 1 .. k, NEW j \in 1 .. k, i <= j
       PROVE  to[i] <= to[j]
  <2>1. i + 1 \in 1 .. k + 1 /\ j + 1 \in 1 .. k + 1 /\ i + 1 <= j + 1
    BY <1>1, <1>15
  <2>2. at[i + 1] <= at[j + 1] /\ at[i + 1] \in 1 .. n + 1 /\ at[j + 1] \in 1 .. n + 1
    BY <1>3, <2>1
  <2>3. to[i] = at[i + 1] - d /\ to[j] = at[j + 1] - d
    BY <1>13
  <2>4. QED
    BY ONLY <1>0, <1>9, <2>2, <2>3
<1>16. ASSUME NEW j \in 1 .. k - 1
       PROVE  /\ to[j + 1] = to[j] + 3 + fs[j].nargs
              /\ Holds(r, fs[j], to[j])
  <2>1. j \in 1 .. k /\ j + 1 \in 1 .. k /\ fs[j] = es[j + 1]
    BY <1>1, <1>4
  <2>2. /\ to[j] = at[j + 1] - d /\ to[j + 1] = at[j + 1 + 1] - d
        /\ at[j + 1 + 1] = at[j + 1] + 3 + es[j + 1].nargs
    BY <1>3, <1>13, <2>1
  <2> DEFINE p == at[j + 1]
             z == at[j + 1 + 1]
             g == es[j + 1].nargs
             t == to[j]
             u == to[j + 1]
  <2>3. /\ p \in d + 1 .. n + 1 /\ z \in d + 1 .. n + 1 /\ g \in Nat
        /\ t = p - d /\ u = z - d /\ z = p + 3 + g /\ Holds(q, es[j + 1], p)
        /\ es[j + 1] \in Event
    BY <1>3, <1>6, <1>12, <2>1, <2>2
  <2>8. \A i \in 1 .. n - d : r[i] = q[d + i]
    BY <1>8
  <2> HIDE DEF p, z, g, t, u
  <2>9. /\ p \in d + 1 .. n + 1 /\ z \in d + 1 .. n + 1 /\ g \in Nat
        /\ t = p - d /\ u = z - d /\ z = p + 3 + g
    BY <2>3
  <2>4. /\ p \in Int /\ t \in Int /\ u = t + 3 + g
        /\ \A i \in 1 .. 3 + g : (t - 1) + i \in 1 .. n - d
                                 /\ d + ((t - 1) + i) = (p - 1) + i
    BY ONLY <1>0, <1>9, <2>9
  <2>5. SamePart(r, t - 1, q, p - 1, 3 + g)
    BY <2>8, <2>4 DEF SamePart
  <2>6. Holds(r, es[j + 1], t)
    BY <2>3, <2>4, <2>5, HoldsThere DEF g
  <2>7. QED
    BY <2>1, <2>4, <2>6 DEF t, u, g
<1>17. to[1] = 1 /\ to[k] = n - d + 1
  <2>1. 1 \in 1 .. k /\ k \in 1 .. k /\ 1 + 1 = 2
    BY ONLY <1>0
  <2>2. to[1] = at[2] - d /\ to[k] = at[k + 1] - d
    BY <1>13, <2>1
  <2>3. d + 1 - d = 1 /\ n + 1 - d = n - d + 1
    BY ONLY <1>0, <1>9
  <2>4. QED
    <3>1. to[1] = (d + 1) - d
      BY <1>11, <2>2
    <3>2. to[k] = (n + 1) - d
      BY <1>3, <2>2
    <3>3. QED
      BY ONLY <1>0, <1>9, <3>1, <3>2
<1>18. Whole(r, fs, to)
  <2>1. Len(fs) = k - 1 /\ Len(fs) + 1 = k /\ Len(r) = n - d /\ Len(r) + 1 = n - d + 1
    BY <1>1, <1>4, <1>8
  <2>2. Places(Len(r), fs, to)
    BY <1>14, <1>15, <1>16, <1>17, <2>1 DEF Places
  <2>3. QED
    BY <1>16, <2>1, <2>2 DEF Whole
<1>19. QED
  BY <1>2, <1>4, <1>7, <1>8, <1>18 DEF args, r, fs, n, c

-----------------------------------------------------------------------------
AnyFunction == Function \cup {Main}
Record == [func : AnyFunction, frame : Nat, params : 0 .. MaxArgs,
           pc : {"result", "end"}]

StackTypes ==
  /\ stack \in Seq(Role)
  /\ frame \in Nat /\ func \in AnyFunction /\ actual \in 0 .. MaxArgs
  /\ records \in Seq(Record) /\ Len(records) <= MaxDepth
  /\ pc \in {"code", "result", "end"}
  /\ phase \in {"slice", "between", "over"}
  /\ executingEvent \in BOOLEAN

ListenTypes ==
  /\ listeners \in 0 .. MaxListeners /\ open \in 0 .. MaxListeners
  /\ inherited \in 0 .. MaxListeners

(* The frame above record d begins where the frame of that record ends, and
   the stack ends with the frame of the running function, or with one result
   on top of it. *)
FramesFit ==
  /\ \A d \in 1 .. Len(records) :
       (IF d = Len(records) THEN frame ELSE records[d + 1].frame)
         = records[d].frame + FrameSize(records[d].func, records[d].params)
  /\ Len(stack) = frame + FrameSize(func, actual) + (IF pc = "result" THEN 1 ELSE 0)

(* Only an event's function is entered from the end of the program, and it
   calls no script function. *)
EventsAreShallow ==
  /\ executingEvent => \/ records = <<>> /\ pc = "end"
                       \/ Len(records) = 1 /\ records[1].pc = "end"
  /\ ~ executingEvent => \A d \in 1 .. Len(records) : records[d].pc = "result"

StackInv ==
  /\ phase # "over" => FramesFit /\ ResultOnTop
  /\ EventsAreShallow

-----------------------------------------------------------------------------
LEMMA Sizes ==
  ASSUME NEW f \in AnyFunction, NEW n \in Nat
  PROVE  /\ f.formal \in Nat /\ f.locals \in Nat /\ f.formal <= f.locals
         /\ FrameSize(f, n) \in Nat
         /\ f.locals - f.formal + Extra(f.formal, n) \in Nat
         /\ n + (f.locals - f.formal + Extra(f.formal, n)) = FrameSize(f, n)
<1>1. f.formal \in Nat /\ f.locals \in Nat /\ f.formal <= f.locals
  BY ConstantTypes DEF AnyFunction, Main
<1> DEFINE a == f.formal
           b == f.locals
<1>2. a \in Nat /\ b \in Nat /\ a <= b
  BY <1>1
<1> HIDE DEF a, b
<1>3. /\ b + Extra(n, a) \in Nat /\ b - a + Extra(a, n) \in Nat
      /\ n + (b - a + Extra(a, n)) = b + Extra(n, a)
  BY <1>2 DEF Extra
<1>4. QED
  BY <1>1, <1>3 DEF FrameSize, LocalOffset, a, b

(* A function is started with its arguments on the stack s. *)
LEMMA Started ==
  ASSUME StackTypes, NEW f \in Function, NEW n \in 0 .. MaxArgs,
         NEW s \in Seq(Role), NEW top \in Nat, Len(s) = top + n,
         NEW back \in {"result", "end"}, Len(records) < MaxDepth,
         StartFunction(f, n, s, back)
  PROVE  /\ stack' \in Seq(Role) /\ Len(stack') = top + FrameSize(f, n)
         /\ frame' = top /\ func' = f /\ actual' = n /\ pc' = "code"
         /\ func' \in AnyFunction
         /\ records' \in Seq(Record) /\ Len(records') = Len(records) + 1
         /\ Len(records) \in Nat /\ Len(records') <= MaxDepth
         /\ \A d \in 1 .. Len(records) : records'[d] = records[d]
         /\ records'[Len(records) + 1]
              = [func |-> func, frame |-> frame, params |-> actual, pc |-> back]
<1> DEFINE r == [func |-> func, frame |-> frame, params |-> actual, pc |-> back]
           m == f.locals - f.formal + Extra(f.formal, n)
           c == Copies(m, "local")
<1>1. n \in Nat /\ f \in AnyFunction /\ r \in Record /\ records \in Seq(Record)
  BY ConstantTypes DEF AnyFunction, StackTypes, Record
<1>2. m \in Nat /\ n + m = FrameSize(f, n)
  BY <1>1, Sizes
<1>3. records' = Append(records, r) /\ stack' = s \o c /\ frame' = Len(s) - n
      /\ func' = f /\ actual' = n /\ pc' = "code"
  BY DEF StartFunction
<1> HIDE DEF r, m
<1>4. c \in Seq(Role) /\ Len(c) = m
  BY <1>2, CopiesAre DEF Role
<1> HIDE DEF c
<1>5. s \o c \in Seq(Role) /\ Len(s \o c) = Len(s) + m
  BY <1>4
<1>6. Len(stack') = top + FrameSize(f, n) /\ frame' = top
  BY <1>1, <1>2, <1>3, <1>5
<1>7. /\ records' \in Seq(Record) /\ Len(records') = Len(records) + 1
      /\ Len(records) \in Nat
      /\ \A d \in 1 .. Len(records) : records'[d] = records[d]
      /\ records'[Len(records) + 1] = r
  BY <1>1, <1>3, AppendProperties
<1>8. Len(records) + 1 <= MaxDepth
  BY <1>7, ConstantTypes
<1>9. QED
  BY <1>1, <1>3, <1>5, <1>6, <1>7, <1>8 DEF r

(* Where the items of two sequences are in their concatenation *)
LEMMA Joined ==
  ASSUME NEW S, NEW s \in Seq(S), NEW t \in Seq(S)
  PROVE  /\ s \o t \in Seq(S) /\ Len(s \o t) = Len(s) + Len(t)
         /\ Len(s) \in Nat /\ Len(t) \in Nat
         /\ \A i \in 1 .. Len(s) : (s \o t)[i] = s[i]
         /\ \A i \in 1 .. Len(t) : (s \o t)[Len(s) + i] = t[i]
<1>1. /\ s \o t \in Seq(S) /\ Len(s \o t) = Len(s) + Len(t)
      /\ \A i \in 1 .. Len(s) + Len(t) :
           (s \o t)[i] = IF i <= Len(s) THEN s[i] ELSE t[i - Len(s)]
  BY ConcatProperties
<1>2. Len(s) \in Nat /\ Len(t) \in Nat
  OBVIOUS
<1> DEFINE m == Len(s)
           n == Len(t)
<1>3. m \in Nat /\ n \in Nat
  BY <1>2
<1> HIDE DEF m, n
<1>4. /\ \A i \in 1 .. m : i \in 1 .. m + n /\ i <= m
      /\ \A i \in 1 .. n : m + i \in 1 .. m + n /\ ~ (m + i <= m) /\ m + i - m = i
  BY ONLY <1>3
<1>5. QED
  BY <1>1, <1>2, <1>4 DEF m, n

(* What an event puts behind the queue *)
LEMMA PutKeepsWhole ==
  ASSUME QueueInv, NEW f \in Function \cup {Native}, NEW n \in 0 .. MaxArgs,
         PutEvent(f, n)
  PROVE  QueueInv'
<1> DEFINE e == [func |-> f, nargs |-> n]
           head == <<f, "this", n>>
           c == Copies(n, "local")
           k == Len(queue)
<1>1. /\ n \in Nat /\ e \in Event /\ e.func = f /\ e.nargs = n
      /\ head \in Seq(Item) /\ Len(head) = 3
      /\ head[1] = f /\ head[2] = "this" /\ head[3] = n
      /\ queue \in Seq(Item) /\ events \in Seq(Event)
  BY ConstantTypes DEF Event, Item, QueueInv
<1>2. queue' = queue \o head \o c /\ events' = Append(events, e)
  BY DEF PutEvent
<1>3. PICK at : Whole(queue, events, at)
  BY DEF QueueInv
<1>4. c \in Seq(Item) /\ Len(c) = n /\ \A i \in 1 .. n : c[i] = "local"
  BY <1>1, CopiesAre DEF Item
<1>5. k \in Nat
  BY <1>1
<1> HIDE DEF head, c, e
<1> DEFINE mid == queue \o head
<1>6. /\ mid \in Seq(Item) /\ Len(mid) = k + 3
      /\ \A i \in 1 .. k : mid[i] = queue[i]
      /\ \A i \in 1 .. 3 : mid[k + i] = head[i]
  <2>1. queue \in Seq(Item) /\ head \in Seq(Item)
    BY <1>1
  <2>2. /\ mid \in Seq(Item) /\ Len(mid) = Len(queue) + Len(head)
        /\ \A i \in 1 .. Len(queue) : mid[i] = queue[i]
        /\ \A i \in 1 .. Len(head) : mid[Len(queue) + i] = head[i]
    BY ONLY <2>1, Joined
  <2>3. QED
    BY <1>1, <2>2
<1> HIDE DEF mid
<1>7. /\ queue' \in Seq(Item) /\ Len(queue') = k + 3 + n
      /\ \A i \in 1 .. k + 3 : queue'[i] = mid[i]
      /\ \A i \in 1 .. n : queue'[k + 3 + i] = c[i]
  <2>1. queue' = mid \o c
    BY <1>2 DEF mid
  <2>2. /\ mid \o c \in Seq(Item) /\ Len(mid \o c) = Len(mid) + Len(c)
        /\ \A i \in 1 .. Len(mid) : (mid \o c)[i] = mid[i]
        /\ \A i \in 1 .. Len(c) : (mid \o c)[Len(mid) + i] = c[i]
    <3>1. mid \in Seq(Item) /\ c \in Seq(Item)
      BY <1>4, <1>6
    <3>2. QED
      BY ONLY <3>1, Joined
  <2>3. Len(mid) = k + 3 /\ Len(c) = n
    BY <1>4, <1>6
  <2> HIDE DEF k
  <2>4. QED
    BY ONLY <2>1, <2>2, <2>3
<1> HIDE DEF k
<1>8. /\ \A i \in 1 .. k : i \in 1 .. k + 3 /\ 0 + i = i
      /\ \A i \in 1 .. 3 : k + i \in 1 .. k + 3
      /\ 1 \in 1 .. 3 /\ 2 \in 1 .. 3 /\ 3 \in 1 .. 3 /\ k + 1 + 1 = k + 2 /\ k + 1 + 2 = k + 3
  BY ONLY <1>5
<1>9. SamePart(queue', 0, queue, 0, k)
  BY <1>6, <1>7, <1>8 DEF SamePart
<1>10. queue'[k + 1] = f /\ queue'[k + 1 + 1] = "this" /\ queue'[k + 1 + 2] = n
  BY <1>1, <1>6, <1>7, <1>8
<1>11. \A i \in 1 .. n : queue'[k + 1 + 2 + i] = "local"
  BY <1>4, <1>7, <1>8
<1>12. Holds(queue', e, k + 1)
  BY <1>1, <1>10, <1>11 DEF Holds
<1>13. \E to : Whole(queue', events', to)
  BY <1>1, <1>2, <1>3, <1>7, <1>9, <1>12, PutWhole DEF k
<1>14. events' \in Seq(Event)
  BY <1>1, <1>2
<1>15. QED
  BY <1>7, <1>13, <1>14 DEF QueueInv

(* The event taken off the queue and its arguments *)
LEMMA TakeKeepsWhole ==
  ASSUME QueueInv, TakeEvent
  PROVE  /\ QueueInv' /\ executingEvent' = TRUE
         /\ queue[3] \in 0 .. MaxArgs
         /\ SubSeq(queue, 4, 3 + queue[3]) \in Seq(Role)
         /\ Len(SubSeq(queue, 4, 3 + queue[3])) = queue[3]
<1>1. PICK at : Whole(queue, events, at)
  BY DEF QueueInv
<1>2. queue \in Seq(Item) /\ events \in Seq(Event) /\ queue # <<>>
      /\ queue' = SubSeq(queue, 4 + queue[3], Len(queue)) /\ events' = Tail(events)
      /\ executingEvent' = TRUE
  BY DEF QueueInv, TakeEvent
<1> DEFINE args == SubSeq(queue, 4, 3 + queue[3])
<1>3. /\ queue[3] \in 0 .. MaxArgs
      /\ args \in Seq({"local"}) /\ Len(args) = queue[3]
      /\ queue' \in Seq(Item) /\ events' \in Seq(Event)
      /\ \E to : Whole(queue', events', to)
  BY <1>1, <1>2, TakeWhole
<1>4. args \in Seq(Role)
  <2> HIDE DEF args
  <2>1. {"local"} \subseteq Role
    BY DEF Role
  <2>2. QED
    BY <1>3, <2>1
<1>5. QED
  BY <1>2, <1>3, <1>4 DEF QueueInv

-----------------------------------------------------------------------------
TypeInv == StackTypes /\ ListenTypes /\ QueueInv

(* A counter that wraps *)
LEMMA Wraps ==
  ASSUME NEW x \in 0 .. MaxListeners
  PROVE  /\ (x - 1) % (MaxListeners + 1) \in 0 .. MaxListeners
         /\ (x + 1) % (MaxListeners + 1) \in 0 .. MaxListeners
<1>1. MaxListeners \in Nat
  BY ConstantTypes
<1> DEFINE m == MaxListeners + 1
<1>2. m \in Nat \ {0} /\ x \in 0 .. m - 1 /\ m - 1 = MaxListeners
  BY <1>1
<1> HIDE DEF m
<1>3. (x - 1) % m \in 0 .. m - 1 /\ (x + 1) % m \in 0 .. m - 1
  BY ONLY <1>2
<1>4. QED
  BY <1>2, <1>3 DEF m

(* A call that returns to the record on top *)
LEMMA Returned ==
  ASSUME StackTypes, Return
  PROVE  /\ records # <<>> /\ Len(records) \in Nat /\ Len(records) > 0
         /\ Last(records) = records[Len(records)] /\ Last(records) \in Record
         /\ records' \in Seq(Record) /\ Len(records') = Len(records) - 1
         /\ \A d \in 1 .. Len(records) - 1 : records'[d] = records[d]
         /\ frame' = Last(records).frame /\ func' = Last(records).func
         /\ actual' = Last(records).params /\ pc' = Last(records).pc
         /\ pc = "code" /\ executingEvent' = FALSE
         /\ phase = "slice" /\ phase' = phase
         /\ SubSeq(stack, 1, Len(stack) - FrameSize(func, actual)) \in Seq(Role)
         /\ stack' = IF executingEvent
                     THEN SubSeq(stack, 1, Len(stack) - FrameSize(func, actual))
                     ELSE Append(SubSeq(stack, 1, Len(stack) - FrameSize(func, actual)),
                                 "result")
         /\ stack' \in Seq(Role)
<1>1. records \in Seq(Record) /\ records # <<>>
  BY DEF StackTypes, Return
<1>2. FrameSize(func, actual) \in Nat /\ stack \in Seq(Role)
  <2>1. func \in AnyFunction /\ actual \in Nat /\ stack \in Seq(Role)
    BY ConstantTypes DEF StackTypes
  <2>2. QED
    BY <2>1, Sizes
<1> DEFINE size == FrameSize(func, actual)
           left == SubSeq(stack, 1, Len(stack) - size)
<1>3. left \in Seq(Role)
  <2>1. Len(stack) \in Nat /\ size \in Nat
    BY <1>2
  <2> HIDE DEF size
  <2>2. Len(stack) - size \in Int /\ Len(stack) - size <= Len(stack)
    BY ONLY <2>1
  <2>3. QED
    BY <1>2, <2>2, PrefixIs
<1> HIDE DEF left
<1>4. Append(left, "result") \in Seq(Role)
  BY <1>3 DEF Role
<1>5. /\ frame' = Last(records).frame /\ func' = Last(records).func
      /\ actual' = Last(records).params /\ pc' = Last(records).pc
      /\ pc = "code" /\ executingEvent' = FALSE /\ phase = "slice" /\ phase' = phase
      /\ records' = Front(records)
      /\ stack' = IF executingEvent THEN left ELSE Append(left, "result")
  BY DEF Return, Running, left
<1>6. /\ Len(records) \in Nat /\ Len(records) > 0
      /\ records' \in Seq(Record) /\ Len(records') = Len(records) - 1
      /\ \A d \in 1 .. Len(records) - 1 : records'[d] = records[d]
      /\ Last(records) = records[Len(records)] /\ Last(records) \in Record
  BY <1>1, <1>5, FrontIs
<1>7. QED
  BY <1>1, <1>3, <1>4, <1>5, <1>6 DEF left, size

LEMMA TypesHold == Spec => []TypeInv
<1> USE DEF StackTypes, ListenTypes
<1>1. Init => TypeInv
  <2> SUFFICES ASSUME Init PROVE TypeInv
    OBVIOUS
  <2>1. StackTypes /\ ListenTypes
    <3>1. stack \in Seq(Role)
      BY CopiesAre, ConstantTypes DEF Init, Role
    <3>2. records \in Seq(Record) /\ Len(records) <= MaxDepth /\ actual \in 0 .. MaxArgs
      BY ConstantTypes DEF Init
    <3>3. func \in AnyFunction /\ frame \in Nat
      BY DEF Init, AnyFunction
    <3>4. StackTypes
      BY <3>1, <3>2, <3>3 DEF Init
    <3>5. ListenTypes
      BY ConstantTypes DEF Init
    <3>6. QED
      BY <3>4, <3>5
  <2>2. QueueInv
    <3> DEFINE at == [j \in 1 .. 1 |-> 1]
    <3>1. queue = <<>> /\ events = <<>>
      BY DEF Init
    <3>2. Whole(<<>>, <<>>, at)
      BY DEF Whole, Places
    <3>3. QED
      BY <3>1, <3>2 DEF QueueInv
  <2>3. QED
    BY <2>1, <2>2 DEF TypeInv
<1>2. TypeInv /\ [Next]_vars => TypeInv'
  <2> SUFFICES ASSUME TypeInv, [Next]_vars PROVE TypeInv'
    OBVIOUS
  <2> USE DEF TypeInv
  <2>0. ASSUME UNCHANGED eventVars PROVE QueueInv'
    BY <2>0 DEF QueueInv, eventVars
  <2>00. ASSUME UNCHANGED listenVars PROVE ListenTypes'
    BY <2>00 DEF listenVars
  <2>1. ASSUME NEW f \in Function, NEW n \in 0 .. MaxArgs, CallScript(f, n) PROVE TypeInv'
    <3> DEFINE s == stack \o Copies(n, "local")
    <3>1. n \in Nat /\ Len(stack) \in Nat /\ s \in Seq(Role) /\ Len(s) = Len(stack) + n
      <4>1. n \in Nat
        BY ConstantTypes
      <4> DEFINE c == Copies(n, "local")
      <4>2. c \in Seq(Role) /\ Len(c) = n
        BY <4>1, CopiesAre DEF Role
      <4>3. stack \in Seq(Role)
        OBVIOUS
      <4> HIDE DEF c
      <4>4. stack \o c \in Seq(Role) /\ Len(stack \o c) = Len(stack) + Len(c)
            /\ Len(stack) \in Nat
        BY ONLY <4>2, <4>3, Joined
      <4>5. QED
        BY <4>1, <4>2, <4>4 DEF c
    <3> HIDE DEF s
    <3>2. StartFunction(f, n, s, "result") /\ Len(records) < MaxDepth
      BY <2>1 DEF CallScript, s
    <3>3. /\ stack' \in Seq(Role) /\ frame' = Len(stack) /\ func' \in AnyFunction
          /\ actual' = n /\ pc' = "code" /\ records' \in Seq(Record)
          /\ Len(records') <= MaxDepth
      BY <3>1, <3>2, Started
    <3>4. StackTypes'
      BY <2>1, <3>1, <3>3 DEF CallScript, eventVars
    <3>5. QED
      BY <2>0, <2>00, <2>1, <3>4 DEF CallScript
  <2>2. CASE CallNative
    <3>1. Append(stack, "result") \in Seq(Role)
      BY DEF Role
    <3>2. StackTypes'
      BY <2>2, <3>1 DEF CallNative, eventVars
    <3>3. QED
      BY <2>0, <2>00, <2>2, <3>2 DEF CallNative
  <2>3. CASE TakeResult
    <3>1. Front(stack) \in Seq(Role)
      <4>1. Len(stack) - 1 \in Int /\ Len(stack) - 1 <= Len(stack)
        OBVIOUS
      <4>2. QED
        BY <4>1, PrefixIs DEF Front
    <3>2. StackTypes'
      BY <2>3, <3>1 DEF TakeResult, eventVars
    <3>3. QED
      BY <2>0, <2>00, <2>3, <3>2 DEF TakeResult
  <2>4. CASE Return
    <3>1. /\ Last(records) \in Record
          /\ Len(records) \in Nat /\ Len(records') = Len(records) - 1
          /\ records' \in Seq(Record)
          /\ frame' = Last(records).frame /\ func' = Last(records).func
          /\ actual' = Last(records).params /\ pc' = Last(records).pc
          /\ stack' \in Seq(Role) /\ executingEvent' = FALSE /\ phase' = phase
      BY <2>4, Returned
    <3>2. /\ frame' \in Nat /\ func' \in AnyFunction /\ actual' \in 0 .. MaxArgs
          /\ pc' \in {"code", "result", "end"}
      BY <3>1 DEF Record
    <3>3. Len(records') <= MaxDepth
      BY <3>1, ConstantTypes
    <3>4. StackTypes'
      BY <3>1, <3>2, <3>3
    <3>5. QED
      BY <2>00, <2>4, <3>4 DEF Return, QueueInv
  <2>5. CASE NoEvent
    <3>1. StackTypes'
      BY <2>5 DEF NoEvent, eventVars
    <3>2. QED
      BY <2>0, <2>00, <2>5, <3>1 DEF NoEvent
  <2>6. CASE ScriptEvent
    <3> DEFINE n == queue[3]
               args == SubSeq(queue, 4, 3 + queue[3])
               s == stack \o args
               f == queue[1]
    <3>1. /\ QueueInv' /\ executingEvent' = TRUE /\ n \in 0 .. MaxArgs
          /\ args \in Seq(Role) /\ Len(args) = n
      BY <2>6, TakeKeepsWhole DEF ScriptEvent
    <3>2. /\ records = <<>> /\ f \in Function /\ StartFunction(f, n, s, "end")
          /\ phase' = phase /\ UNCHANGED listenVars
      BY <2>6 DEF ScriptEvent, AtEnd
    <3> HIDE DEF n, args, f
    <3>3. n \in Nat /\ Len(stack) \in Nat /\ s \in Seq(Role) /\ Len(s) = Len(stack) + n
      BY <3>1, ConstantTypes
    <3>4. Len(records) < MaxDepth
      BY <3>2, ConstantTypes
    <3> HIDE DEF s
    <3>5. /\ stack' \in Seq(Role) /\ frame' = Len(stack) /\ func' \in AnyFunction
          /\ actual' = n /\ pc' = "code" /\ records' \in Seq(Record)
          /\ Len(records') <= MaxDepth
      BY <3>1, <3>2, <3>3, <3>4, Started
    <3>6. StackTypes'
      BY <3>1, <3>2, <3>3, <3>5
    <3>7. QED
      BY <2>00, <3>1, <3>2, <3>6
  <2>7. CASE NativeEvent
    <3> DEFINE args == SubSeq(queue, 4, 3 + queue[3])
    <3>1. QueueInv' /\ executingEvent' = TRUE /\ args \in Seq(Role)
      BY <2>7, TakeKeepsWhole DEF NativeEvent
    <3>2. stack' \in {stack, stack \o args} /\ phase' \in {"between", "over"}
      BY <2>7 DEF NativeEvent
    <3> HIDE DEF args
    <3>3. stack' \in Seq(Role)
      <4>1. stack \in Seq(Role) /\ args \in Seq(Role)
        BY <3>1
      <4>2. stack \o args \in Seq(Role)
        BY ONLY <4>1, Joined
      <4>3. QED
        BY ONLY <3>2, <4>1, <4>2
    <3>4. StackTypes'
      BY <2>7, <3>1, <3>2, <3>3 DEF NativeEvent
    <3>5. QED
      BY <2>00, <2>7, <3>1, <3>4 DEF NativeEvent
  <2>8. CASE NextSlice
    <3>1. StackTypes'
      BY <2>8 DEF NextSlice, stackVars, eventVars
    <3>2. QED
      BY <2>0, <2>00, <2>8, <3>1 DEF NextSlice
  <2>9. CASE Terminate
    <3>1. StackTypes'
      BY <2>9 DEF Terminate, eventVars
    <3>2. QED
      BY <2>0, <2>00, <2>9, <3>1 DEF Terminate
  <2>10. CASE StartExecution
    <3>1. stack' \in Seq(Role)
      BY <2>10, CopiesAre, ConstantTypes DEF StartExecution, Role
    <3>2. StackTypes' /\ ListenTypes'
      <4>1. records' \in Seq(Record) /\ Len(records') <= MaxDepth /\ actual' \in 0 .. MaxArgs
        BY <2>10, ConstantTypes DEF StartExecution
      <4>2. func' \in AnyFunction /\ frame' \in Nat
        BY <2>10 DEF StartExecution, AnyFunction
      <4>3. StackTypes'
        BY <2>10, <3>1, <4>1, <4>2 DEF StartExecution
      <4>4. ListenTypes'
        BY <2>10, ConstantTypes DEF StartExecution
      <4>5. QED
        BY <4>3, <4>4
    <3>3. QueueInv'
      <4> DEFINE at == [j \in 1 .. 1 |-> 1]
      <4>1. queue' = <<>> /\ events' = <<>>
        BY <2>10 DEF StartExecution
      <4>2. Whole(<<>>, <<>>, at)
        BY DEF Whole, Places
      <4>3. QED
        BY <4>1, <4>2 DEF QueueInv
    <3>4. QED
      BY <3>2, <3>3
  <2>11. CASE Listen
    <3>1. StackTypes'
      BY <2>11 DEF Listen, stackVars, eventVars
    <3>2. ListenTypes'
      BY <2>11, Wraps, ConstantTypes DEF Listen
    <3>3. QED
      BY <2>0, <2>11, <3>1, <3>2 DEF Listen
  <2>12. CASE Close
    <3>1. StackTypes'
      BY <2>12 DEF Close, stackVars, eventVars
    <3>2. ListenTypes'
      BY <2>12, Wraps, ConstantTypes DEF Close
    <3>3. QED
      BY <2>0, <2>12, <3>1, <3>2 DEF Close
  <2>13. ASSUME NEW f \in Function \cup {Native}, NEW n \in 0 .. MaxArgs,
                SocketEvent(f, n)
         PROVE  TypeInv'
    <3>1. QueueInv'
      BY <2>13, PutKeepsWhole DEF SocketEvent
    <3>2. StackTypes'
      BY <2>13 DEF SocketEvent, stackVars
    <3>3. QED
      BY <2>00, <2>13, <3>1, <3>2 DEF SocketEvent
  <2>14. ASSUME NEW f \in Function \cup {Native}, NEW n \in 0 .. MaxArgs, Answer(f, n)
         PROVE  TypeInv'
    <3>1. QueueInv'
      BY <2>14, PutKeepsWhole DEF Answer
    <3>2. StackTypes'
      BY <2>14 DEF Answer, stackVars
    <3>3. ListenTypes'
      BY <2>14, Wraps, ConstantTypes DEF Answer
    <3>4. QED
      BY <3>1, <3>2, <3>3
  <2>15. CASE UNCHANGED vars
    <3>1. StackTypes'
      BY <2>15 DEF vars, stackVars, eventVars
    <3>2. QED
      BY <2>0, <2>00, <2>15, <3>1 DEF vars
  <2>16. QED
    BY <2>1, <2>2, <2>3, <2>4, <2>5, <2>6, <2>7, <2>8, <2>9, <2>10, <2>11, <2>12,
       <2>13, <2>14, <2>15 DEF Next
<1>3. QED
  BY <1>1, <1>2, PTL DEF Spec

(* The items of the queue that are an event's *)
Flat(e) == <<e.func, "this", e.nargs>> \o Copies(e.nargs, "local")

LEMMA EventIs ==
  ASSUME NEW q \in Seq(Item), NEW e \in Event, NEW p \in 1 .. Len(q) + 1, Holds(q, e, p),
         NEW z \in 1 .. Len(q) + 1, z = p + 3 + e.nargs
  PROVE  Len(Flat(e)) = 3 + e.nargs /\ SubSeq(q, p, z - 1) = Flat(e)
<1> DEFINE n == e.nargs
           head == <<e.func, "this", n>>
           c == Copies(n, "local")
           f == head \o c
           m == Len(q)
           s == SubSeq(q, p, z - 1)
<1>1. /\ n \in Nat /\ head \in Seq(Item) /\ Len(head) = 3
      /\ head[1] = e.func /\ head[2] = "this" /\ head[3] = n
  BY ConstantTypes DEF Event, Item
<1>2. c \in Seq(Item) /\ Len(c) = n /\ \A i \in 1 .. n : c[i] = "local"
  BY <1>1, CopiesAre DEF Item
<1>3. /\ q[p] = e.func /\ q[p + 1] = "this" /\ q[p + 2] = n
      /\ \A i \in 1 .. n : q[p + 2 + i] = "local"
  BY DEF Holds
<1>4. m \in Nat /\ p \in 1 .. m + 1 /\ z \in 1 .. m + 1 /\ z = p + 3 + n
      /\ \A i \in 1 .. m : q[i] \in Item
  OBVIOUS
<1> HIDE DEF n, head, c, m
<1>5. /\ f \in Seq(Item) /\ Len(f) = 3 + n
      /\ \A i \in 1 .. 3 : f[i] = head[i]
      /\ \A i \in 1 .. n : f[3 + i] = c[i]
  <2>1. /\ head \o c \in Seq(Item) /\ Len(head \o c) = Len(head) + Len(c)
        /\ \A i \in 1 .. Len(head) : (head \o c)[i] = head[i]
        /\ \A i \in 1 .. Len(c) : (head \o c)[Len(head) + i] = c[i]
    <3>1. head \in Seq(Item) /\ c \in Seq(Item)
      BY <1>1, <1>2
    <3>2. QED
      BY ONLY <3>1, Joined
  <2>2. QED
    BY <1>1, <1>2, <2>1
<1>6. /\ s \in Seq(Item) /\ Len(s) = 3 + n
      /\ \A i \in 1 .. 3 + n : s[i] = q[p + i - 1]
  <2>1. p \in Int /\ z - 1 \in Int /\ \A i \in p .. z - 1 : i \in 1 .. m
    BY ONLY <1>4
  <2>2. \A i \in p .. z - 1 : q[i] \in Item
    BY <1>4, <2>1
  <2>3. /\ s \in Seq(Item)
        /\ Len(s) = IF p <= z - 1 THEN z - 1 - p + 1 ELSE 0
        /\ \A i \in 1 .. z - 1 - p + 1 : s[i] = q[p + i - 1]
    BY <2>1, <2>2, SubSeqProperties
  <2>4. p <= z - 1 /\ z - 1 - p + 1 = 3 + n
    BY ONLY <1>1, <1>4
  <2>5. QED
    BY <2>3, <2>4
<1> HIDE DEF s, f
<1>7. ASSUME NEW i \in 1 .. 3 + n PROVE s[i] = f[i]
  <2>1. s[i] = q[p + i - 1]
    BY <1>6
  <2>2. CASE i = 1 \/ i = 2 \/ i = 3
    <3>1. \/ i = 1 /\ p + i - 1 = p
          \/ i = 2 /\ p + i - 1 = p + 1
          \/ i = 3 /\ p + i - 1 = p + 2
      BY ONLY <1>4, <2>2
    <3>2. 1 \in 1 .. 3 /\ 2 \in 1 .. 3 /\ 3 \in 1 .. 3
      OBVIOUS
    <3>3. QED
      BY <1>1, <1>3, <1>5, <2>1, <3>1, <3>2
  <2>3. CASE i > 3
    <3> DEFINE j == i - 3
    <3>1. j \in 1 .. n /\ i = 3 + j /\ p + i - 1 = p + 2 + j
      BY ONLY <1>1, <1>4, <1>7, <2>3
    <3> HIDE DEF j
    <3>2. q[p + 2 + j] = "local" /\ f[3 + j] = c[j] /\ c[j] = "local"
      BY <1>2, <1>3, <1>5, <3>1
    <3>3. QED
      BY <2>1, <3>1, <3>2
  <2>4. QED
    BY ONLY <1>1, <1>7, <2>2, <2>3
<1>8. s = f
  BY <1>1, <1>5, <1>6, <1>7, SeqEqual
<1>9. QED
  BY <1>5, <1>8 DEF s, f, head, c, n, Flat

(* The queue of events is always made of whole events, in the order in which they
   were fired: what runNextEvent takes off it is one event with its arguments,
   whatever comes while it runs. *)
THEOREM QueueIsWhole == Spec => []QueueHoldsEvents
<1>1. TypeInv => QueueHoldsEvents
  <2>1. SUFFICES ASSUME QueueInv PROVE QueueHoldsEvents
    BY DEF TypeInv
  <2>2. PICK at : Whole(queue, events, at)
    BY <2>1 DEF QueueInv
  <2> DEFINE n == Len(events)
             m == Len(queue)
  <2>3. /\ at \in [1 .. n + 1 -> 1 .. m + 1] /\ at[1] = 1 /\ at[n + 1] = m + 1
        /\ \A k \in 1 .. n : at[k + 1] = at[k] + 3 + events[k].nargs
        /\ \A k \in 1 .. n : Holds(queue, events[k], at[k])
    BY <2>2 DEF Whole, Places
  <2>4. ASSUME NEW k \in 1 .. n
        PROVE  /\ at[k + 1] = at[k] + Len(Flat(events[k]))
               /\ SubSeq(queue, at[k], at[k + 1] - 1) = Flat(events[k])
    <3> DEFINE e == events[k]
               p == at[k]
               z == at[k + 1]
    <3>0. events \in Seq(Event) /\ queue \in Seq(Item)
      BY <2>1 DEF QueueInv
    <3>1. k \in 1 .. n + 1 /\ k + 1 \in 1 .. n + 1 /\ e \in Event /\ queue \in Seq(Item)
          /\ e.nargs \in Nat
      <4>1. n \in Nat /\ e \in Event
        BY <3>0
      <4>2. \A x \in Event : x.nargs \in Nat
        BY ConstantTypes DEF Event
      <4> HIDE DEF e, n
      <4>3. QED
        BY <3>0, <4>1, <4>2
    <3>2. /\ p \in 1 .. m + 1 /\ z \in 1 .. m + 1 /\ z = p + 3 + e.nargs
          /\ Holds(queue, e, p)
      BY <2>3, <3>1
    <3> HIDE DEF e, p, z, n
    <3>3. Len(Flat(e)) = 3 + e.nargs /\ SubSeq(queue, p, z - 1) = Flat(e)
      BY <3>1, <3>2, EventIs
    <3>4. z = p + Len(Flat(e))
      <4> DEFINE g == e.nargs
                 l == Len(Flat(e))
      <4>1. p \in Int /\ g \in Nat /\ l = 3 + g /\ z = p + 3 + g
        BY <3>1, <3>2, <3>3
      <4> HIDE DEF g, l
      <4>2. z = p + l
        BY ONLY <4>1
      <4>3. QED
        BY <4>2 DEF l
    <3>5. QED
      BY <3>3, <3>4 DEF e, p, z
  <2>5. QED
    BY <2>3, <2>4 DEF QueueHoldsEvents, Flat
<1>2. QED
  BY <1>1, TypesHold, PTL

-----------------------------------------------------------------------------
LEMMA AnySize ==
  ASSUME StackTypes
  PROVE  /\ FrameSize(func, actual) \in Nat /\ Len(stack) \in Nat
         /\ Len(records) \in Nat /\ frame \in Nat
<1>1. func \in AnyFunction /\ actual \in Nat
  BY ConstantTypes DEF StackTypes
<1>2. FrameSize(func, actual) \in Nat
  BY <1>1, Sizes
<1>3. QED
  BY <1>2 DEF StackTypes

(* A started function's frame is put on top of the frame below it. *)
LEMMA StartFits ==
  ASSUME StackTypes, phase # "over", FramesFit, pc # "result",
         NEW f \in Function, NEW n \in 0 .. MaxArgs,
         NEW s \in Seq(Role), Len(s) = Len(stack) + n,
         NEW back \in {"result", "end"}, Len(records) < MaxDepth,
         StartFunction(f, n, s, back)
  PROVE  /\ FramesFit' /\ pc' = "code" /\ Len(records') = Len(records) + 1
         /\ \A d \in 1 .. Len(records) : records'[d] = records[d]
         /\ records'[Len(records) + 1].pc = back
<1> DEFINE k == Len(records)
           size == FrameSize(func, actual)
           top == Len(stack)
<1>1. /\ size \in Nat /\ top \in Nat /\ k \in Nat /\ frame \in Nat
      /\ top = frame + size
  BY AnySize DEF FramesFit
<1>2. /\ Len(stack') = top + FrameSize(f, n) /\ frame' = top /\ func' = f /\ actual' = n
      /\ pc' = "code" /\ Len(records') = k + 1
      /\ \A d \in 1 .. k : records'[d] = records[d]
      /\ records'[k + 1] = [func |-> func, frame |-> frame, params |-> actual, pc |-> back]
  <2>1. top \in Nat /\ Len(s) = top + n
    BY <1>1
  <2> HIDE DEF top
  <2>2. /\ Len(stack') = top + FrameSize(f, n) /\ frame' = top /\ func' = f /\ actual' = n
        /\ pc' = "code" /\ Len(records') = Len(records) + 1
    BY <2>1, Started
  <2>3. \A d \in 1 .. Len(records) : records'[d] = records[d]
    BY <2>1, Started
  <2>4. records'[Len(records) + 1]
          = [func |-> func, frame |-> frame, params |-> actual, pc |-> back]
    BY <2>1, Started, ZenonT(60)
  <2>5. QED
    BY <2>2, <2>3, <2>4
<1>3. FrameSize(f, n) \in Nat
  <2>1. f \in AnyFunction /\ n \in Nat
    BY ConstantTypes DEF AnyFunction
  <2>2. QED
    BY <2>1, Sizes
<1>4. Len(stack') = frame' + FrameSize(func', actual') + (IF pc' = "result" THEN 1 ELSE 0)
  <2> DEFINE z == FrameSize(f, n)
  <2>1. Len(stack') = top + z /\ frame' = top /\ z = FrameSize(func', actual') /\ pc' # "result"
        /\ z \in Nat /\ top \in Nat
    BY <1>1, <1>2, <1>3
  <2> HIDE DEF z, top
  <2>2. frame' + z + 0 = top + z
    BY <2>1
  <2>3. QED
    BY <2>1, <2>2
<1>5. ASSUME NEW d \in 1 .. k + 1
      PROVE  (IF d = k + 1 THEN frame' ELSE records'[d + 1].frame)
               = records'[d].frame + FrameSize(records'[d].func, records'[d].params)
  <2> HIDE DEF k, size
  <2>1. CASE d = k + 1
    <3>1. /\ records'[d].frame = frame /\ records'[d].func = func
          /\ records'[d].params = actual
      BY <1>2, <2>1
    <3>2. frame' = frame + FrameSize(func, actual)
      BY <1>1, <1>2 DEF size
    <3>3. QED
      BY <2>1, <3>1, <3>2
  <2>2. CASE d # k + 1 /\ d # k
    <3>1. d \in 1 .. k /\ d + 1 \in 1 .. k
      BY ONLY <1>1, <1>5, <2>2
    <3>2. records'[d] = records[d] /\ records'[d + 1] = records[d + 1]
      BY <1>2, <3>1
    <3>3. records[d + 1].frame
            = records[d].frame + FrameSize(records[d].func, records[d].params)
      BY <2>2, <3>1 DEF FramesFit, k
    <3>4. QED
      BY <2>2, <3>2, <3>3
  <2>3. CASE d = k
    <3>1. d \in 1 .. k /\ d + 1 = k + 1 /\ d # k + 1
      BY ONLY <1>1, <1>5, <2>3
    <3>2. records'[d] = records[d] /\ records'[d + 1].frame = frame
      BY <1>2, <3>1
    <3>3. frame = records[d].frame + FrameSize(records[d].func, records[d].params)
      BY <2>3, <3>1 DEF FramesFit, k
    <3>4. QED
      BY <3>1, <3>2, <3>3
  <2>4. QED
    BY <2>1, <2>2, <2>3
<1>6. FramesFit'
  BY <1>2, <1>4, <1>5 DEF FramesFit
<1>7. QED
  BY <1>2, <1>6

(* Returning pops the frame on top: what is left is the frame of the caller. *)
LEMMA ReturnFits ==
  ASSUME StackTypes, FramesFit, EventsAreShallow, Return
  PROVE  FramesFit' /\ ResultOnTop' /\ EventsAreShallow'
<1> DEFINE k == Len(records)
           size == FrameSize(func, actual)
           left == SubSeq(stack, 1, Len(stack) - size)
           back == Last(records)
<1>1. /\ k \in Nat /\ k > 0 /\ back = records[k] /\ back \in Record
      /\ Len(records') = k - 1 /\ records' \in Seq(Record)
      /\ \A d \in 1 .. k - 1 : records'[d] = records[d]
  BY Returned
<1>2. /\ frame' = back.frame /\ func' = back.func /\ actual' = back.params
      /\ pc' = back.pc /\ pc = "code" /\ executingEvent' = FALSE
  BY Returned
<1>3. /\ left \in Seq(Role)
      /\ stack' = IF executingEvent THEN left ELSE Append(left, "result")
  BY Returned
<1>4. size \in Nat /\ Len(stack) \in Nat /\ frame \in Nat
  BY AnySize
<1>5. Len(left) = frame
  <2> DEFINE m == Len(stack) - size
  <2>1. Len(stack) = frame + size
    <3>1. Len(stack) = frame + size + 0
      BY <1>2 DEF FramesFit
    <3>2. QED
      BY <1>4, <3>1
  <2>2. m = frame /\ m \in Int /\ m <= Len(stack) /\ m \in Nat
    BY <1>4, <2>1
  <2>3. stack \in Seq(Role)
    BY DEF StackTypes
  <2> HIDE DEF m
  <2>4. Len(SubSeq(stack, 1, m)) = m
    BY <2>2, <2>3, PrefixIs
  <2>5. QED
    BY <2>2, <2>4 DEF m
<1>6. \A d \in 1 .. k :
        (IF d = k THEN frame ELSE records[d + 1].frame)
          = records[d].frame + FrameSize(records[d].func, records[d].params)
  BY DEF FramesFit
<1>7. frame = back.frame + FrameSize(back.func, back.params)
  <2>1. k \in 1 .. k
    BY <1>1
  <2>2. QED
    BY <1>1, <1>6, <2>1
<1> HIDE DEF left, back, size
<1>8. CASE executingEvent
  <2>1. k = 1 /\ back.pc = "end"
    BY <1>1, <1>2, <1>8 DEF EventsAreShallow
  <2>2. pc' = "end" /\ Len(records') = 0 /\ Len(stack') = frame
    BY <1>1, <1>2, <1>3, <1>5, <1>8, <2>1
  <2>3. FramesFit'
    <3>1. 1 .. Len(records') = {}
      BY <2>2
    <3>2. Len(stack') = frame' + FrameSize(func', actual')
                          + (IF pc' = "result" THEN 1 ELSE 0)
      <4>1. frame = frame + 0
        BY <1>4
      <4>2. QED
        BY <1>2, <1>7, <2>2, <4>1
    <3>3. QED
      BY <3>1, <3>2 DEF FramesFit
  <2>4. QED
    BY <1>2, <2>2, <2>3 DEF ResultOnTop, EventsAreShallow
<1>9. CASE ~ executingEvent
  <2>1. \A d \in 1 .. k : records[d].pc = "result"
    BY <1>9 DEF EventsAreShallow
  <2>2. k \in 1 .. k /\ \A d \in 1 .. k - 1 : d \in 1 .. k /\ d + 1 \in 1 .. k /\ d # k
    BY ONLY <1>1
  <2>3. pc' = "result"
    BY <1>1, <1>2, <2>1, <2>2
  <2>4. EventsAreShallow'
    BY <1>1, <1>2, <2>1, <2>2 DEF EventsAreShallow
  <2>5. /\ stack' = Append(left, "result") /\ Len(stack') = frame + 1
        /\ Last(stack') = "result"
    <3>1. stack' = Append(left, "result")
      BY <1>3, <1>9
    <3>2. "result" \in Role
      BY DEF Role
    <3>3. /\ Append(left, "result") \in Seq(Role)
          /\ Len(Append(left, "result")) = Len(left) + 1
          /\ Append(left, "result")[Len(left) + 1] = "result"
      BY <1>3, <3>2, AppendProperties
    <3>4. QED
      BY <1>5, <3>1, <3>3 DEF Last
  <2>6. FramesFit'
    <3>1. ASSUME NEW d \in 1 .. k - 1
          PROVE  (IF d = k - 1 THEN frame' ELSE records'[d + 1].frame)
                   = records'[d].frame + FrameSize(records'[d].func, records'[d].params)
      <4>1. records'[d] = records[d] /\ d \in 1 .. k /\ d # k
        BY <1>1, <2>2
      <4>2. records[d + 1].frame
              = records[d].frame + FrameSize(records[d].func, records[d].params)
        BY <1>6, <4>1
      <4>3. CASE d = k - 1
        <5>1. d + 1 = k
          BY ONLY <1>1, <4>3
        <5>2. frame' = records[d + 1].frame
          BY <1>1, <1>2, <5>1
        <5>3. QED
          BY <4>1, <4>2, <4>3, <5>2
      <4>4. CASE d # k - 1
        <5>1. d + 1 \in 1 .. k - 1
          BY ONLY <1>1, <3>1, <4>4
        <5>2. records'[d + 1] = records[d + 1]
          BY <1>1, <5>1
        <5>3. QED
          BY <4>1, <4>2, <4>4, <5>2
      <4>5. QED
        BY <4>3, <4>4
    <3>2. Len(stack') = frame' + FrameSize(func', actual')
                          + (IF pc' = "result" THEN 1 ELSE 0)
      BY <1>2, <1>7, <2>3, <2>5
    <3>3. QED
      BY <1>1, <3>1, <3>2 DEF FramesFit
  <2>7. QED
    BY <2>4, <2>5, <2>6 DEF ResultOnTop
<1>10. QED
  BY <1>8, <1>9

LEMMA StackHolds ==
  ASSUME ~ HandlersCall
  PROVE  Spec => []StackInv
<1>1. Init => StackInv
  <2> SUFFICES ASSUME Init PROVE StackInv
    OBVIOUS
  <2>1. MainLocals \in Nat /\ Len(stack) = MainLocals
    BY CopiesAre, ConstantTypes DEF Init
  <2>2. FrameSize(func, actual) = MainLocals
    BY <2>1 DEF Init, FrameSize, LocalOffset, Extra, Main
  <2>3. records = <<>> /\ Len(records) = 0 /\ pc = "code" /\ frame = 0
        /\ executingEvent = FALSE
    BY DEF Init
  <2>4. FramesFit
    BY <2>1, <2>2, <2>3 DEF FramesFit
  <2>5. QED
    BY <2>3, <2>4 DEF StackInv, ResultOnTop, EventsAreShallow
<1>2. TypeInv /\ StackInv /\ [Next]_vars => StackInv'
  <2> SUFFICES ASSUME TypeInv, StackInv, [Next]_vars PROVE StackInv'
    OBVIOUS
  <2>0. StackTypes /\ QueueInv
    BY DEF TypeInv
  <2>00. ASSUME UNCHANGED stackVars, UNCHANGED executingEvent,
                phase' # "over" => phase # "over"
         PROVE  StackInv'
    <3>1. FramesFit => FramesFit'
      BY <2>00 DEF FramesFit, stackVars
    <3>2. QED
      BY <2>00, <3>1 DEF StackInv, ResultOnTop, EventsAreShallow, stackVars
  <2>1. ASSUME NEW f \in Function, NEW n \in 0 .. MaxArgs, CallScript(f, n)
        PROVE  StackInv'
    <3> DEFINE s == stack \o Copies(n, "local")
    <3>1. /\ phase = "slice" /\ pc = "code" /\ ~ executingEvent
          /\ StartFunction(f, n, s, "result") /\ Len(records) < MaxDepth
          /\ UNCHANGED executingEvent
      BY <2>1 DEF CallScript, Running, eventVars
    <3>2. s \in Seq(Role) /\ Len(s) = Len(stack) + n
      <4> DEFINE c == Copies(n, "local")
      <4>1. c \in Seq(Role) /\ Len(c) = n
        BY CopiesAre, ConstantTypes DEF Role
      <4>2. stack \in Seq(Role)
        BY <2>0 DEF StackTypes
      <4> HIDE DEF c
      <4>3. stack \o c \in Seq(Role) /\ Len(stack \o c) = Len(stack) + Len(c)
        BY ONLY <4>1, <4>2, Joined
      <4>4. QED
        BY <4>1, <4>3 DEF c
    <3> HIDE DEF s
    <3>3. FramesFit /\ \A d \in 1 .. Len(records) : records[d].pc = "result"
      BY <3>1 DEF StackInv, EventsAreShallow
    <3>4. /\ FramesFit' /\ pc' = "code" /\ Len(records') = Len(records) + 1
          /\ \A d \in 1 .. Len(records) : records'[d] = records[d]
          /\ records'[Len(records) + 1].pc = "result"
      BY <2>0, <3>1, <3>2, <3>3, StartFits
    <3>5. EventsAreShallow'
      <4>1. \A d \in 1 .. Len(records) + 1 : d \in 1 .. Len(records) \/ d = Len(records) + 1
        BY <2>0, AnySize
      <4>2. QED
        BY <3>1, <3>3, <3>4, <4>1 DEF EventsAreShallow
    <3>6. QED
      BY <3>4, <3>5 DEF StackInv, ResultOnTop
  <2>2. CASE CallNative
    <3>1. /\ phase = "slice" /\ pc = "code" /\ pc' = "result"
          /\ stack' = Append(stack, "result")
          /\ UNCHANGED <<frame, func, actual, records, executingEvent>>
      BY <2>2 DEF CallNative, Running, eventVars
    <3>2. FramesFit /\ EventsAreShallow
      BY <3>1 DEF StackInv
    <3>3. Len(stack') = Len(stack) + 1 /\ Last(stack') = "result"
      <4>1. stack \in Seq(Role) /\ "result" \in Role
        BY <2>0 DEF StackTypes, Role
      <4>2. /\ Append(stack, "result") \in Seq(Role)
            /\ Len(Append(stack, "result")) = Len(stack) + 1
            /\ Append(stack, "result")[Len(stack) + 1] = "result"
        BY <4>1, AppendProperties
      <4>3. QED
        BY <3>1, <4>2 DEF Last
    <3>4. FramesFit'
      <4>1. Len(stack) = frame + FrameSize(func, actual) + 0
        BY <3>1, <3>2 DEF FramesFit
      <4>2. Len(stack') = frame + FrameSize(func, actual) + 1
        BY <2>0, <3>3, <4>1, AnySize
      <4>3. QED
        BY <3>1, <3>2, <4>2 DEF FramesFit
    <3>5. EventsAreShallow'
      BY <3>1, <3>2 DEF EventsAreShallow
    <3>6. QED
      BY <3>3, <3>4, <3>5 DEF StackInv, ResultOnTop
  <2>3. CASE TakeResult
    <3>1. /\ phase = "slice" /\ pc = "result" /\ pc' = "code" /\ stack' = Front(stack)
          /\ UNCHANGED <<frame, func, actual, records, executingEvent>>
      BY <2>3 DEF TakeResult, Running, eventVars
    <3>2. FramesFit /\ EventsAreShallow
      BY <3>1 DEF StackInv
    <3>3. Len(stack) = frame + FrameSize(func, actual) + 1
      BY <3>1, <3>2 DEF FramesFit
    <3>4. Len(stack') = frame + FrameSize(func, actual) + 0
      <4>1. stack \in Seq(Role)
        BY <2>0 DEF StackTypes
      <4>2. Len(stack) > 0
        BY <2>0, <3>3, AnySize
      <4>3. stack # <<>>
        BY <4>2
      <4>4. Len(Front(stack)) = Len(stack) - 1
        BY <4>1, <4>3, FrontIs
      <4>5. QED
        BY <2>0, <3>1, <3>3, <4>4, AnySize
    <3>5. FramesFit'
      BY <3>1, <3>2, <3>4 DEF FramesFit
    <3>6. EventsAreShallow'
      BY <3>1, <3>2 DEF EventsAreShallow
    <3>7. QED
      BY <3>1, <3>5, <3>6 DEF StackInv, ResultOnTop
  <2>4. CASE Return
    <3>1. FramesFit /\ EventsAreShallow
      BY <2>4 DEF StackInv, Return, Running
    <3>2. QED
      BY <2>0, <2>4, <3>1, ReturnFits DEF StackInv
  <2>5. CASE NoEvent
    <3>1. /\ phase = "slice" /\ pc \in {"code", "end"} /\ pc' = "end" /\ records = <<>>
          /\ UNCHANGED <<stack, frame, func, actual, records, executingEvent>>
      BY <2>5 DEF NoEvent, AtEnd, Running, eventVars
    <3>2. FramesFit /\ EventsAreShallow
      BY <3>1 DEF StackInv
    <3>3. FramesFit'
      BY <3>1, <3>2 DEF FramesFit
    <3>4. EventsAreShallow'
      BY <3>1, <3>2 DEF EventsAreShallow
    <3>5. QED
      BY <3>1, <3>3, <3>4 DEF StackInv, ResultOnTop
  <2>6. CASE ScriptEvent
    <3> DEFINE n == queue[3]
               args == SubSeq(queue, 4, 3 + queue[3])
               s == stack \o args
               f == queue[1]
    <3>1. /\ executingEvent' = TRUE /\ n \in 0 .. MaxArgs
          /\ args \in Seq(Role) /\ Len(args) = n
      BY <2>0, <2>6, TakeKeepsWhole DEF ScriptEvent
    <3>2. /\ phase = "slice" /\ pc \in {"code", "end"} /\ records = <<>> /\ f \in Function
          /\ StartFunction(f, n, s, "end")
      BY <2>6 DEF ScriptEvent, AtEnd, Running
    <3> HIDE DEF n, args, f
    <3>3. s \in Seq(Role) /\ Len(s) = Len(stack) + n
      <4>1. stack \in Seq(Role)
        BY <2>0 DEF StackTypes
      <4>2. stack \o args \in Seq(Role) /\ Len(stack \o args) = Len(stack) + Len(args)
        BY ONLY <3>1, <4>1, Joined
      <4>3. QED
        BY <3>1, <4>2
    <3> HIDE DEF s
    <3>4. Len(records) = 0 /\ Len(records) < MaxDepth
      BY <3>2, ConstantTypes
    <3>5. FramesFit /\ phase # "over" /\ pc # "result"
      BY <3>2 DEF StackInv
    <3>6. /\ FramesFit' /\ pc' = "code" /\ Len(records') = Len(records) + 1
          /\ records'[Len(records) + 1].pc = "end"
      BY <2>0, <3>1, <3>2, <3>3, <3>4, <3>5, StartFits
    <3>7. EventsAreShallow'
      <4>1. Len(records') = 1 /\ records'[1].pc = "end"
        BY <3>4, <3>6
      <4>2. QED
        BY <3>1, <4>1 DEF EventsAreShallow
    <3>8. QED
      BY <3>6, <3>7 DEF StackInv, ResultOnTop
  <2>7. CASE NativeEvent
    <3>1. /\ phase = "slice" /\ pc \in {"code", "end"} /\ pc' = "end" /\ records = <<>>
          /\ stack' = stack \/ phase' = "over"
          /\ UNCHANGED <<frame, func, actual, records>>
      BY <2>7 DEF NativeEvent, AtEnd, Running
    <3>2. FramesFit
      BY <3>1 DEF StackInv
    <3>3. phase' # "over" => FramesFit'
      BY <3>1, <3>2 DEF FramesFit
    <3>4. EventsAreShallow'
      BY <3>1 DEF EventsAreShallow
    <3>5. QED
      BY <3>1, <3>3, <3>4 DEF StackInv, ResultOnTop
  <2>8. CASE NextSlice
    BY <2>00, <2>8 DEF NextSlice, eventVars
  <2>9. CASE Terminate
    <3>1. phase' = "over" /\ UNCHANGED <<records, pc, executingEvent>>
      BY <2>9 DEF Terminate, eventVars
    <3>2. QED
      BY <3>1 DEF StackInv, EventsAreShallow
  <2>10. CASE StartExecution
    <3>1. MainLocals \in Nat /\ Len(stack') = MainLocals
      BY <2>10, CopiesAre, ConstantTypes DEF StartExecution
    <3>2. FrameSize(func', actual') = MainLocals
      BY <2>10, <3>1 DEF StartExecution, FrameSize, LocalOffset, Extra, Main
    <3>3. records' = <<>> /\ Len(records') = 0 /\ pc' = "code" /\ frame' = 0
          /\ executingEvent' = FALSE
      BY <2>10 DEF StartExecution
    <3>4. FramesFit'
      BY <3>1, <3>2, <3>3 DEF FramesFit
    <3>5. QED
      BY <3>3, <3>4 DEF StackInv, ResultOnTop, EventsAreShallow
  <2>11. CASE Listen
    BY <2>00, <2>11 DEF Listen, Running, eventVars
  <2>12. ASSUME UNCHANGED stackVars, UNCHANGED phase, UNCHANGED executingEvent
         PROVE  StackInv'
    <3>1. FramesFit => FramesFit'
      BY <2>12 DEF FramesFit, stackVars
    <3>2. QED
      BY <2>12, <3>1 DEF StackInv, ResultOnTop, EventsAreShallow, stackVars
  <2>13. CASE Close
    BY <2>12, <2>13 DEF Close, eventVars
  <2>14. ASSUME NEW f \in Function \cup {Native}, NEW n \in 0 .. MaxArgs,
                SocketEvent(f, n) \/ Answer(f, n)
         PROVE  StackInv'
    BY <2>12, <2>14 DEF SocketEvent, Answer
  <2>15. CASE UNCHANGED vars
    BY <2>12, <2>15 DEF vars, eventVars
  <2>16. QED
    BY <2>1, <2>2, <2>3, <2>4, <2>5, <2>6, <2>7, <2>8, <2>9, <2>10, <2>11, <2>13,
       <2>14, <2>15 DEF Next
<1>3. QED
  BY <1>1, <1>2, TypesHold, PTL DEF Spec

(* If the functions of events call no script functions, everything on the stack
   belongs to a frame, whatever the functions' sizes, the arguments passed, the
   depth of calls and the events between them. *)
THEOREM StackAccounted ==
  ASSUME ~ HandlersCall
  PROVE  Spec => []StackIsAccounted
<1>1. TypeInv /\ StackInv => StackIsAccounted
  <2> SUFFICES ASSUME StackTypes, FramesFit, phase # "over" PROVE StackIsAccounted
    BY DEF TypeInv, StackInv, StackIsAccounted
  <2> DEFINE k == Len(records)
             Level(i) == IF i = k
                         THEN [func |-> func, frame |-> frame, params |-> actual]
                         ELSE records[i + 1]
             Top(i) == IF i = k
                       THEN Len(stack) - (IF pc = "result" THEN 1 ELSE 0)
                       ELSE Level(i + 1).frame
  <2>1. k \in Nat
    BY AnySize
  <2>2. ASSUME NEW i \in 0 .. k
        PROVE  Top(i) = Level(i).frame + FrameSize(Level(i).func, Level(i).params)
    <3>1. CASE i = k
      <4> DEFINE z == FrameSize(func, actual)
                 one == IF pc = "result" THEN 1 ELSE 0
      <4>1. /\ Level(i).frame = frame /\ Level(i).func = func /\ Level(i).params = actual
            /\ Top(i) = Len(stack) - one
        BY <3>1
      <4>2. Len(stack) = frame + z + one
        BY DEF FramesFit
      <4>3. frame \in Nat /\ z \in Nat /\ one \in Nat /\ Len(stack) \in Nat
        BY AnySize
      <4> HIDE DEF z, one
      <4>4. Len(stack) - one = frame + z
        BY <4>2, <4>3
      <4> HIDE DEF Top, Level, k
      <4>5. QED
        BY <4>1, <4>4 DEF z
    <3>2. CASE i # k
      <4>1. i + 1 \in 1 .. k /\ (i + 1 = k \/ i + 1 # k)
        BY <2>1, <2>2, <3>2
      <4>2. (IF i + 1 = k THEN frame ELSE records[i + 1 + 1].frame)
              = records[i + 1].frame
                + FrameSize(records[i + 1].func, records[i + 1].params)
        BY <4>1 DEF FramesFit
      <4>3. Level(i) = records[i + 1] /\ Top(i) = Level(i + 1).frame
        BY <3>2
      <4>4. Level(i + 1).frame = IF i + 1 = k THEN frame ELSE records[i + 1 + 1].frame
        OBVIOUS
      <4>5. QED
        BY <4>2, <4>3, <4>4
    <3>3. QED
      BY <3>1, <3>2
  <2>3. QED
    BY <2>2 DEF StackIsAccounted
<1>2. QED
  BY <1>1, TypesHold, StackHolds, PTL

(* Then the code behind a call finds the call's own result on the stack. *)
THEOREM ResultIsOnTop ==
  ASSUME ~ HandlersCall
  PROVE  Spec => []ResultOnTop
<1>1. StackInv => ResultOnTop
  BY DEF StackInv, ResultOnTop
<1>2. QED
  BY <1>1, StackHolds, PTL

(* The variables keep their types; the frame is part of the stack while the
   program runs. *)
THEOREM UnitTypeCorrect ==
  ASSUME ~ HandlersCall
  PROVE  Spec => []TypeOK
<1>1. TypeInv /\ StackInv => TypeOK
  <2> SUFFICES ASSUME TypeInv, StackInv PROVE TypeOK
    OBVIOUS
  <2>1. StackTypes /\ ListenTypes
    BY DEF TypeInv
  <2>2. phase # "over" => frame \in 0 .. Len(stack)
    <3> SUFFICES ASSUME phase # "over" PROVE frame \in 0 .. Len(stack)
      OBVIOUS
    <3> DEFINE z == FrameSize(func, actual)
               one == IF pc = "result" THEN 1 ELSE 0
    <3>1. Len(stack) = frame + z + one
      BY DEF StackInv, FramesFit
    <3>2. frame \in Nat /\ z \in Nat /\ one \in Nat /\ Len(stack) \in Nat
      BY <2>1, AnySize
    <3> HIDE DEF z, one
    <3>3. QED
      BY <3>1, <3>2
  <2>3. QED
    BY <2>1, <2>2 DEF TypeOK, StackTypes, ListenTypes, AnyFunction
<1>2. QED
  BY <1>1, TypesHold, StackHolds, PTL

=============================================================================

--------------------------- MODULE CommanderProofs ---------------------------
(* The guarantees of the console's buffer, for every capacity, every room in the *)
(* event queue and whatever else takes it, and every way the interrupt hits      *)
(* pump().                                                                       *)
EXTENDS Commander, ListLemmas

\* What pump() relies on between two of its steps: the vector is not empty until the
\* size is stored, and the size it loaded is not more than the vector has by then.
PumpInv == /\ Taking => Len(buffer) > 0
           /\ pc = "store" => 0 < size /\ size <= Len(buffer)

Inv == TypeOK /\ NeverGrows /\ NoneStranded /\ PumpInv

\* Appending an element.
LEMMA AppendType ==
  ASSUME NEW S, NEW s \in Seq(S), NEW e \in S
  PROVE  Append(s, e) \in Seq(S) /\ Len(Append(s, e)) = Len(s) + 1
OBVIOUS

\* The last element and all but the last element of a sequence that is not empty.
LEMMA LastType ==
  ASSUME NEW S, NEW s \in Seq(S), Len(s) > 0
  PROVE  Last(s) \in S
BY DEF Last

LEMMA FrontType ==
  ASSUME NEW S, NEW s \in Seq(S), Len(s) > 0
  PROVE  Front(s) \in Seq(S)
BY DEF Front

\* erase() moves the elements down without changing their number.
LEMMA MoveDownType ==
  ASSUME NEW S, NEW s \in Seq(S), Len(s) > 0
  PROVE  /\ Append(Tail(s), Last(s)) \in Seq(S)
         /\ Len(Append(Tail(s), Last(s))) = Len(s)
<1>1. Last(s) \in S
  BY LastType
<1>2. Tail(s) \in Seq(S) /\ Len(Tail(s)) = Len(s) - 1
  OBVIOUS
<1>. QED BY <1>1, <1>2

\* A prefix of a sequence.
LEMMA PrefixType ==
  ASSUME NEW S, NEW s \in Seq(S), NEW n \in Nat, n <= Len(s)
  PROVE  SubSeq(s, 1, n) \in Seq(S) /\ Len(SubSeq(s, 1, n)) = n
OBVIOUS

\* The invariant holds at the start: the vector is empty.
LEMMA InitInv == Init => Inv
<1>. SUFFICES ASSUME Init PROVE Inv
  OBVIOUS
<1>. USE CommanderAssumption DEF Init
<1>1. TypeOK
  <2>1. hit \in BOOLEAN
    BY Zenon
  <2>. QED BY <2>1 DEF TypeOK, Chars, Control
<1>2. NeverGrows /\ NoneStranded /\ PumpInv
  BY DEF NeverGrows, NoneStranded, PumpInv, Taking
<1>. QED BY <1>1, <1>2 DEF Inv

\* The interrupt keeps it: it appends only below the capacity, and posts a call or
\* counts one that failed.
LEMMA InterruptInv ==
  ASSUME Inv, NEW c \in Chars, Interrupt(c)
  PROVE  Inv'
<1>. USE CommanderAssumption DEF Inv, Interrupt
<1>1. TypeOK'
  <2>1. CASE buffer' = Append(buffer, c) /\ got' = Append(got, c) /\ missed' \in {missed, missed + 1}
    <3>1. buffer' \in Seq(Chars) /\ got' \in Seq(Chars)
      BY <2>1, AppendType DEF TypeOK
    <3>2. hit' \in BOOLEAN
      BY Zenon DEF TypeOK
    <3>. QED BY <2>1, <3>1, <3>2 DEF TypeOK, Room
  <2>2. CASE UNCHANGED <<buffer, got, hit, missed>>
    BY <2>2 DEF TypeOK, Room
  <2>. QED BY <2>1, <2>2
<1>2. NeverGrows'
  BY DEF TypeOK, NeverGrows
<1>3. NoneStranded'
  BY DEF TypeOK, NoneStranded, Taking, Room
<1>4. PumpInv'
  BY DEF TypeOK, PumpInv, Taking
<1>. QED BY <1>1, <1>2, <1>3, <1>4

\* A call of pump() that finds a character takes the place of the call it consumed.
LEMMA DispatchInv ==
  ASSUME Inv, Dispatch
  PROVE  Inv'
<1>. USE CommanderAssumption DEF Inv, Dispatch
<1>1. TypeOK'
  BY DEF TypeOK
<1>2. NeverGrows'
  BY DEF NeverGrows
<1>3. NoneStranded'
  BY DEF TypeOK, NoneStranded, Taking
<1>4. PumpInv'
  BY DEF TypeOK, PumpInv, Taking
<1>. QED BY <1>1, <1>2, <1>3, <1>4

\* Other events keep it: they leave the console alone.
LEMMA OthersInv ==
  ASSUME Inv, OtherPosts \/ OtherRuns
  PROVE  Inv'
<1>. USE CommanderAssumption DEF Inv, OtherPosts, OtherRuns
<1>1. TypeOK'
  BY DEF TypeOK, Room
<1>2. NeverGrows' /\ NoneStranded' /\ PumpInv'
  BY DEF NeverGrows, NoneStranded, Taking, PumpInv
<1>. QED BY <1>1, <1>2

\* The steps of pump() keep it: only StoreSize shortens the vector, by one at least.
LEMMA PumpKeepsInv ==
  ASSUME Inv, Pump
  PROVE  Inv'
<1>. USE CommanderAssumption DEF Inv
<1>1. CASE TakeFront
  <2>1. Head(buffer) \in Chars
    BY <1>1 DEF TypeOK, PumpInv, Taking, TakeFront
  <2>. QED BY <1>1, <2>1 DEF TypeOK, NeverGrows, NoneStranded, PumpInv, Taking, TakeFront
<1>2. CASE MoveDown
  <2>1. buffer \in Seq(Chars) /\ Len(buffer) > 0
    BY <1>2 DEF TypeOK, PumpInv, Taking, MoveDown
  <2>2. buffer' \in Seq(Chars) /\ Len(buffer') = Len(buffer)
    BY <1>2, <2>1, MoveDownType DEF MoveDown
  <2>. QED BY <1>2, <2>2 DEF TypeOK, NeverGrows, NoneStranded, PumpInv, Taking, MoveDown
<1>3. CASE LoadSize
  <2>1. Len(buffer) \in 0..Capacity /\ Len(buffer) > 0
    BY <1>3 DEF TypeOK, NeverGrows, PumpInv, Taking, LoadSize
  <2>. QED BY <1>3, <2>1 DEF TypeOK, NeverGrows, NoneStranded, PumpInv, Taking, LoadSize
<1>4. CASE StoreSize
  <2>1. buffer \in Seq(Chars) /\ size - 1 \in Nat /\ size - 1 <= Len(buffer)
    BY <1>4 DEF TypeOK, PumpInv, StoreSize
  <2>2. buffer' \in Seq(Chars) /\ Len(buffer') = size - 1
    BY <1>4, <2>1, PrefixType DEF StoreSize
  <2>. QED BY <1>4, <2>1, <2>2 DEF TypeOK, NeverGrows, NoneStranded, PumpInv, Taking, StoreSize
<1>5. CASE Edit
  <2>1. command' \in Seq(Printable)
    <3>1. CASE nInput = Enter /\ command' = <<>>
      BY <3>1
    <3>2. CASE command # <<>> /\ command' = Front(command)
      BY <3>2, FrontType DEF TypeOK
    <3>3. CASE nInput \in Printable /\ command' = Append(command, nInput)
      BY <3>3 DEF TypeOK
    <3>4. CASE command' = command
      BY <3>4 DEF TypeOK
    <3>. QED BY <1>5, <3>1, <3>2, <3>3, <3>4 DEF Edit
  <2>2. ran' \in Seq(Seq(Printable))
    <3>1. CASE ran' = ran
      BY <3>1 DEF TypeOK
    <3>2. CASE ran' = Append(ran, command)
      BY <3>2, AppendType DEF TypeOK
    <3>. QED BY <1>5, <3>1, <3>2 DEF Edit
  <2>. QED BY <1>5, <2>1, <2>2 DEF TypeOK, NeverGrows, NoneStranded, PumpInv, Taking, Edit
<1>. QED BY <1>1, <1>2, <1>3, <1>4, <1>5 DEF Pump

\* The invariant of the console holds in every state.
THEOREM Invariance == Spec => []Inv
<1>1. Init => Inv
  BY InitInv
<1>2. Inv /\ [Next]_vars => Inv'
  <2>1. CASE UNCHANGED vars
    BY <2>1 DEF vars, Inv, TypeOK, NeverGrows, NoneStranded, PumpInv, Taking
  <2>. QED BY <2>1, InterruptInv, OthersInv, DispatchInv, PumpKeepsInv DEF Next
<1>. QED BY <1>1, <1>2, PTL DEF Spec

\* Every variable of the console stays in its range.
THEOREM TypeCorrect == Spec => []TypeOK
BY Invariance, PTL DEF Inv

\* The interrupt never makes the vector grow (commander.cpp:101-104), even in the
\* middle of an erase().
THEOREM BufferBounded == Spec => []NeverGrows
BY Invariance, PTL DEF Inv

\* Every character in the vector has a call of pump() to come, so none waits for the next
\* key, but for as many as calls failed: in the queue that all events share, whatever its
\* size.
THEOREM NoCharacterStranded == Spec => []NoneStranded
BY Invariance, PTL DEF Inv

-----------------------------------------------------------------------------
(* No character is lost, doubled or moved while no interrupt hits erase(). *)

\* What the vector, the characters taken and the ones appended have in common at each
\* place in pump(): while erase() runs, the front or the last place is not counted.
KeptInv ==
    ~hit => /\ pc \in {"idle", "front", "edit"} => taken \o buffer = got
            /\ pc = "move" => taken \o Tail(buffer) = got
            /\ pc \in {"load", "store"} => taken \o Front(buffer) = got
            /\ pc = "store" => size = Len(buffer)

\* Appending to the second of two sequences.
LEMMA AppendConcat ==
  ASSUME NEW S, NEW s \in Seq(S), NEW t \in Seq(S), NEW c \in S
  PROVE  s \o Append(t, c) = Append(s \o t, c)
OBVIOUS

\* Taking the first element of the second sequence into the first one.
LEMMA HeadMoves ==
  ASSUME NEW S, NEW s \in Seq(S), NEW t \in Seq(S), t # <<>>
  PROVE  Append(s, Head(t)) \o Tail(t) = s \o t
OBVIOUS

\* Appending behind the first element.
LEMMA TailAppend ==
  ASSUME NEW S, NEW t \in Seq(S), NEW c \in S, Len(t) > 0
  PROVE  Tail(Append(t, c)) = Append(Tail(t), c)
OBVIOUS

\* erase() leaves the tail, and one place too many.
LEMMA FrontOfMoved ==
  ASSUME NEW S, NEW t \in Seq(S), Len(t) > 0
  PROVE  Front(Append(Tail(t), Last(t))) = Tail(t)
BY DEF Front, Last

\* The interrupt keeps KeptInv: where it would not, it sets hit.
LEMMA InterruptKept ==
  ASSUME Inv, KeptInv, NEW c \in Chars, Interrupt(c)
  PROVE  KeptInv'
<1>. SUFFICES ASSUME ~hit' PROVE KeptInv'
  BY DEF KeptInv
<1>1. CASE Len(buffer) < Capacity /\ buffer' = Append(buffer, c) /\ got' = Append(got, c)
           /\ hit' = (hit \/ pc \in {"load", "store"})
  <2>1. ~hit /\ pc \notin {"load", "store"}
    BY <1>1
  <2>2. buffer \in Seq(Chars) /\ taken \in Seq(Chars) /\ pc' = pc /\ taken' = taken
    BY DEF Inv, TypeOK, Interrupt
  <2>3. ASSUME pc \in {"idle", "front", "edit"} PROVE taken' \o buffer' = got'
    <3>1. taken \o buffer = got
      BY <2>1, <2>3 DEF KeptInv
    <3>2. taken \o Append(buffer, c) = Append(taken \o buffer, c)
      BY <2>2, AppendConcat
    <3>. QED BY <1>1, <2>2, <3>1, <3>2
  <2>4. ASSUME pc = "move" PROVE taken' \o Tail(buffer') = got'
    <3>1. Len(buffer) > 0
      BY <2>4 DEF Inv, PumpInv, Taking
    <3>2. Tail(buffer) \in Seq(Chars) /\ Tail(buffer') = Append(Tail(buffer), c)
      BY <1>1, <2>2, <3>1, TailAppend
    <3>3. taken \o Tail(buffer) = got
      BY <2>1, <2>4 DEF KeptInv
    <3>4. taken \o Append(Tail(buffer), c) = Append(taken \o Tail(buffer), c)
      BY <2>2, <3>2, AppendConcat
    <3>. QED BY <1>1, <2>2, <3>2, <3>3, <3>4
  <2>. QED BY <2>1, <2>2, <2>3, <2>4 DEF KeptInv
<1>2. CASE UNCHANGED <<buffer, got, hit, missed>>
  BY <1>2 DEF KeptInv, Interrupt
<1>. QED BY <1>1, <1>2 DEF Interrupt

\* So does each step of pump().
LEMMA PumpKept ==
  ASSUME Inv, KeptInv, Pump
  PROVE  KeptInv'
<1>. SUFFICES ASSUME ~hit' PROVE KeptInv'
  BY DEF KeptInv
<1>1. ~hit
  BY DEF Pump, TakeFront, MoveDown, LoadSize, StoreSize, Edit
<1>2. buffer \in Seq(Chars) /\ taken \in Seq(Chars) /\ (Taking => Len(buffer) > 0)
  BY DEF Inv, TypeOK, PumpInv
<1>3. CASE TakeFront
  <2>1. taken' \o Tail(buffer) = taken \o buffer
    <3>1. buffer # <<>>
      BY <1>2, <1>3 DEF Taking, TakeFront
    <3>. QED BY <1>2, <1>3, <3>1, HeadMoves DEF TakeFront
  <2>. QED BY <1>1, <1>3, <2>1 DEF KeptInv, TakeFront
<1>4. CASE MoveDown
  <2>1. Front(buffer') = Tail(buffer)
    BY <1>2, <1>4, FrontOfMoved DEF Taking, MoveDown
  <2>. QED BY <1>1, <1>4, <2>1 DEF KeptInv, MoveDown
<1>5. CASE LoadSize
  BY <1>1, <1>5 DEF KeptInv, LoadSize
<1>6. CASE StoreSize
  <2>1. buffer' = Front(buffer)
    BY <1>1, <1>6 DEF KeptInv, StoreSize, Front
  <2>. QED BY <1>1, <1>6, <2>1 DEF KeptInv, StoreSize
<1>7. CASE Edit
  BY <1>1, <1>7 DEF KeptInv, Edit
<1>. QED BY <1>3, <1>4, <1>5, <1>6, <1>7 DEF Pump

\* The characters appended are the ones taken and the ones in the buffer, in their order,
\* if no interrupt came in the middle of an erase() (commander.h:204-205).
THEOREM NoCharacterLost == Spec => []InputKept
<1>1. Init => Inv /\ KeptInv
  <2>1. Init => KeptInv
    BY DEF Init, KeptInv
  <2>. QED BY <2>1, InitInv
<1>2. Inv /\ KeptInv /\ [Next]_vars => Inv' /\ KeptInv'
  <2>. SUFFICES ASSUME Inv, KeptInv, [Next]_vars PROVE Inv' /\ KeptInv'
    OBVIOUS
  <2>1. CASE UNCHANGED vars
    BY <2>1 DEF vars, Inv, TypeOK, NeverGrows, NoneStranded, PumpInv, Taking, KeptInv
  <2>2. CASE Dispatch
    BY <2>2, DispatchInv DEF KeptInv, Dispatch
  <2>3. CASE OtherPosts \/ OtherRuns
    BY <2>3, OthersInv DEF KeptInv, OtherPosts, OtherRuns
  <2>. QED BY <2>1, <2>2, <2>3, InterruptInv, InterruptKept, PumpKeepsInv, PumpKept DEF Next
<1>3. KeptInv => InputKept
  BY DEF KeptInv, InputKept
<1>. QED BY <1>1, <1>2, <1>3, PTL DEF Spec

-----------------------------------------------------------------------------
(* The command line is what was typed since the last enter, edited. *)

EditedBy(line, c) == IF c \in Printable THEN Append(line, c)
                     ELSE IF c = Backspace /\ line # <<>> THEN Front(line)
                     ELSE line

LEMMA EditedType ==
  ASSUME NEW line \in Seq(Printable), NEW c
  PROVE  EditedBy(line, c) \in Seq(Printable)
<1>1. line # <<>> => Len(line) > 0
  OBVIOUS
<1>. QED BY <1>1, FrontType DEF EditedBy

\* The lines that Edited goes through, one for each character.
LEMMA EditedChain ==
  ASSUME NEW s \in Seq(Chars)
  PROVE  \E f \in [0 .. Len(s) -> Seq(Printable)] :
            /\ f[0] = <<>> /\ Edited(s) = f[Len(s)]
            /\ \A m \in 1 .. Len(s) : f[m] = EditedBy(f[m - 1], s[m])
<1>. DEFINE n == Len(s)
            V == Seq(Printable)
            Eq(it) == it = [S \in SUBSET (1 .. n) |->
                               IF S = {} THEN <<>> ELSE EditedBy(it[S \ {Max(S)}], s[Max(S)])]
            step == [p \in V \X (1 .. n) |-> EditedBy(p[1], s[p[2]])]
            chosen == CHOOSE it : Eq(it)
<1>1. n \in Nat /\ DOMAIN s = 1 .. n /\ <<>> \in V
  OBVIOUS
<1>2. Edited(s) = chosen[1 .. n]
  <2>1. Edited(s) = (CHOOSE it : it = [S \in SUBSET (DOMAIN s) |->
                        IF S = {} THEN <<>> ELSE EditedBy(it[S \ {Max(S)}], s[Max(S)])])[DOMAIN s]
    BY DEF Edited, EditedBy, FoldLeft, MapThenFoldSet
  <2>. QED BY <1>1, <2>1
<1>3. step \in Steps(V, n)
  BY EditedType DEF Steps
<1>4. \A v \in V, m \in 1 .. n : step[<<v, m>>] = EditedBy(v, s[m])
  OBVIOUS
<1>5. \A S \in SUBSET (1 .. n) : S # {} => Max(S) \in 1 .. n
  BY <1>1, MaxIs
<1>. HIDE DEF step, V, n
<1>6. PICK g \in [SUBSET (1 .. n) -> V] : IsFold(g, V, n, <<>>, step)
  BY <1>1, <1>3, FoldExists
<1>7. Eq(g)
  <2>1. \A S \in SUBSET (1 .. n) : g[S \ {Max(S)}] \in V
    OBVIOUS
  <2>2. \A S \in SUBSET (1 .. n) :
           g[S] = IF S = {} THEN <<>> ELSE EditedBy(g[S \ {Max(S)}], s[Max(S)])
    BY <1>4, <1>5, <1>6, <2>1 DEF IsFold
  <2>. QED BY <2>2
<1>8. Eq(chosen)
  <2>. HIDE DEF Eq
  <2>. QED BY <1>7
<1>. HIDE DEF chosen
<1>9. IsFold(chosen, V, n, <<>>, step)
  <2>1. {} \in SUBSET (1 .. n)
    OBVIOUS
  <2>2. chosen[{}] = <<>>
    BY <1>8, <2>1
  <2>3. \A S \in SUBSET (1 .. n) : S # {} => chosen[S] = EditedBy(chosen[S \ {Max(S)}], s[Max(S)])
    BY <1>8
  <2>. QED BY <1>4, <1>5, <2>2, <2>3 DEF IsFold
<1>10. PICK f \in [0 .. n -> V] : IsChain(f, n, <<>>, step) /\ f[n] = chosen[1 .. n]
  BY <1>1, <1>3, <1>9, ChainOfFold
<1>11. f[0] = <<>> /\ \A m \in 1 .. n : f[m] = EditedBy(f[m - 1], s[m])
  <2>1. \A m \in 1 .. n : f[m - 1] \in V
    BY <1>1
  <2>. QED BY <1>4, <1>10, <2>1 DEF IsChain
<1>. QED BY <1>2, <1>10, <1>11 DEF V, n

\* One more character edits the line that the others gave.
LEMMA EditedAppend ==
  ASSUME NEW s \in Seq(Chars), NEW c \in Chars
  PROVE  Edited(Append(s, c)) = EditedBy(Edited(s), c)
<1>. DEFINE n == Len(s)
            t == Append(s, c)
<1>1. n \in Nat /\ t \in Seq(Chars) /\ Len(t) = n + 1 /\ t[n + 1] = c /\ \A m \in 1 .. n : t[m] = s[m]
  OBVIOUS
<1>. HIDE DEF t
<1>2. PICK f : f[0] = <<>> /\ Edited(s) = f[n] /\ \A m \in 1 .. n : f[m] = EditedBy(f[m - 1], s[m])
  BY EditedChain
<1>3. PICK g : /\ g[0] = <<>> /\ Edited(t) = g[n + 1]
               /\ \A m \in 1 .. n + 1 : g[m] = EditedBy(g[m - 1], t[m])
  BY <1>1, EditedChain
<1>4. \A m \in 1 .. n : f[m - 1] = g[m - 1] => f[m] = g[m]
  BY <1>1, <1>2, <1>3
<1>5. f[n] = g[n]
  <2>1. f[0] = g[0]
    BY <1>2, <1>3
  <2>2. \A m \in 0 .. n : f[m] = g[m]
    <3>. HIDE DEF n
    <3>1. Agree(f, g, n)
      BY <1>1, <1>4, <2>1, ChainsAgree
    <3>. QED BY <3>1 DEF Agree
  <2>. QED BY <1>1, <2>2
<1>6. Edited(t) = EditedBy(g[n], c)
  BY <1>1, <1>3
<1>. QED BY <1>2, <1>5, <1>6 DEF t

LEMMA EditedEmpty == Edited(<<>>) = <<>>
<1>1. <<>> \in Seq(Chars) /\ Len(<<>>) = 0
  OBVIOUS
<1>. QED BY <1>1, EditedChain

LEMMA SubSeqAppend ==
  ASSUME NEW S, NEW s \in Seq(S), NEW c \in S, NEW l \in 0 .. Len(s)
  PROVE  SubSeq(Append(s, c), l + 1, Len(s) + 1) = Append(SubSeq(s, l + 1, Len(s)), c)
<1>. DEFINE a == SubSeq(Append(s, c), l + 1, Len(s) + 1)
            b == Append(SubSeq(s, l + 1, Len(s)), c)
<1>1. a \in Seq(S) /\ Len(a) = Len(s) + 1 - l /\ \A i \in 1 .. Len(s) + 1 - l : a[i] = Append(s, c)[l + i]
  <2>. DEFINE t == Append(s, c)
  <2>1. t \in Seq(S) /\ Len(t) = Len(s) + 1 /\ Len(s) \in Nat
    OBVIOUS
  <2>. HIDE DEF t
  <2>2. l + 1 \in 1 .. Len(t) + 1 /\ Len(s) + 1 \in l .. Len(t)
    BY <2>1
  <2>3. \A i \in l + 1 .. Len(s) + 1 : t[i] \in S
    BY <2>1
  <2>4. /\ SubSeq(t, l + 1, Len(s) + 1) \in Seq(S)
        /\ Len(SubSeq(t, l + 1, Len(s) + 1)) = Len(s) + 1 - l
        /\ \A i \in 1 .. Len(s) + 1 - l : SubSeq(t, l + 1, Len(s) + 1)[i] = t[l + i]
    BY <2>1, <2>2, <2>3
  <2>. QED BY <2>4 DEF t
<1>2. /\ b \in Seq(S) /\ Len(b) = Len(s) + 1 - l
      /\ \A i \in 1 .. Len(s) - l : b[i] = s[l + i]
      /\ b[Len(s) + 1 - l] = c
  <2>. DEFINE r == SubSeq(s, l + 1, Len(s))
  <2>1. r \in Seq(S) /\ Len(r) = Len(s) - l /\ \A i \in 1 .. Len(s) - l : r[i] = s[l + i]
    OBVIOUS
  <2>. HIDE DEF r
  <2>2. /\ Append(r, c) \in Seq(S) /\ Len(Append(r, c)) = Len(s) + 1 - l
        /\ \A i \in 1 .. Len(s) - l : Append(r, c)[i] = s[l + i]
        /\ Append(r, c)[Len(s) + 1 - l] = c
    BY <2>1
  <2>. QED BY <2>2 DEF r
<1>3. \A i \in 1 .. Len(s) + 1 - l : a[i] = b[i]
  <2>. HIDE DEF a, b
  <2>. QED BY <1>1, <1>2
<1>4. a = b
  <2>. HIDE DEF a, b
  <2>1. \A i \in 1 .. Len(a) : a[i] = b[i]
    BY <1>1, <1>3
  <2>. QED BY <1>1, <1>2, <2>1, SeqEqual
<1>. QED BY <1>4

\* Where the last enter is, and what was typed since.
LEMMA LastEnter ==
  ASSUME NEW s \in Seq(Chars), NEW c \in Chars
  PROVE  SinceEnter(Append(s, c)) = IF c = Enter THEN <<>> ELSE Append(SinceEnter(s), c)
<1>. DEFINE n == Len(s)
            t == Append(s, c)
            I == {i \in 1 .. n : s[i] = Enter}
            J == {i \in 1 .. n + 1 : t[i] = Enter}
            last == IF I # {} THEN Max(I) ELSE 0
            now  == IF J # {} THEN Max(J) ELSE 0
<1>1. n \in Nat /\ t \in Seq(Chars) /\ Len(t) = n + 1 /\ t[n + 1] = c /\ \A m \in 1 .. n : t[m] = s[m]
  OBVIOUS
<1>2. SinceEnter(s) = SubSeq(s, last + 1, n) /\ SinceEnter(t) = SubSeq(t, now + 1, n + 1)
  BY <1>1 DEF SinceEnter, SelectLastInSeq
<1>3. last \in 0 .. n
  <2>1. I \subseteq 1 .. n /\ n \in Nat
    OBVIOUS
  <2>2. I # {} => Max(I) \in I
    <3>. HIDE DEF I, n
    <3>. QED BY <2>1, MaxIs
  <2>. QED BY <2>2
<1>4. CASE c = Enter
  <2>1. J \subseteq 1 .. n + 1 /\ n + 1 \in Nat /\ n + 1 \in J
    BY <1>1, <1>4
  <2>2. now = Max(J) /\ J # {}
    <3>. HIDE DEF J
    <3>. QED BY <2>1
  <2>. HIDE DEF J, now, n
  <2>3. Max(J) \in J /\ \A k \in J : k <= Max(J)
    BY <2>1, <2>2, MaxIs
  <2>4. Max(J) \in 1 .. n + 1 /\ n + 1 <= Max(J)
    BY <2>1, <2>3
  <2>5. now = n + 1
    BY <1>1, <2>2, <2>4
  <2>6. SubSeq(t, n + 2, n + 1) = <<>>
    BY <1>1
  <2>7. now + 1 = n + 2
    BY <1>1, <2>5
  <2>. HIDE DEF t
  <2>. QED BY <1>2, <1>4, <2>6, <2>7 DEF t
<1>5. CASE c # Enter
  <2>1. J = I
    BY <1>1, <1>5
  <2>2. now = last
    <3>. HIDE DEF I, J
    <3>. QED BY <2>1
  <2>3. SubSeq(t, last + 1, n + 1) = Append(SubSeq(s, last + 1, n), c)
    <3>. HIDE DEF last
    <3>. QED BY <1>3, SubSeqAppend
  <2>. QED BY <1>2, <1>5, <2>2, <2>3
<1>. QED BY <1>4, <1>5

LEMMA SinceEnterType ==
  ASSUME NEW s \in Seq(Chars)
  PROVE  SinceEnter(s) \in Seq(Chars)
<1>. DEFINE n == Len(s)
            I == {i \in 1 .. n : s[i] = Enter}
            last == IF I # {} THEN Max(I) ELSE 0
<1>1. I \subseteq 1 .. n /\ n \in Nat
  OBVIOUS
<1>2. I # {} => Max(I) \in I
  <2>. HIDE DEF I, n
  <2>. QED BY <1>1, MaxIs
<1>3. last \in 0 .. n
  BY <1>2
<1>4. SinceEnter(s) = SubSeq(s, last + 1, n)
  BY DEF SinceEnter, SelectLastInSeq
<1>. HIDE DEF last
<1>. QED BY <1>3, <1>4

\* Every character pump() took is in the line, except the one it is busy with.
Line(s) == Edited(SinceEnter(s))
LineInv == /\ pc \in {"idle", "front"} => command = Line(taken)
           /\ pc \in {"move", "load", "store", "edit"} =>
                 \E s \in Seq(Chars) : taken = Append(s, nInput) /\ command = Line(s)

\* One more character, which ends the line or edits it.
LEMMA LineAppend ==
  ASSUME NEW s \in Seq(Chars), NEW c \in Chars
  PROVE  Line(Append(s, c)) = IF c = Enter THEN <<>> ELSE EditedBy(Line(s), c)
BY LastEnter, SinceEnterType, EditedAppend, EditedEmpty DEF Line

LEMMA LineStep ==
  ASSUME Inv, LineInv, [Next]_vars
  PROVE  LineInv'
<1>1. CASE UNCHANGED vars
  BY <1>1 DEF vars, LineInv, Line
<1>2. ASSUME NEW c \in Chars, Interrupt(c) PROVE LineInv'
  BY <1>2 DEF Interrupt, LineInv
<1>3. CASE Dispatch \/ OtherPosts \/ OtherRuns
  BY <1>3 DEF Dispatch, OtherPosts, OtherRuns, LineInv
<1>4. CASE TakeFront
  <2>1. Head(buffer) \in Chars /\ taken \in Seq(Chars)
    BY <1>4 DEF Inv, TypeOK, PumpInv, Taking, TakeFront
  <2>2. taken' = Append(taken, nInput') /\ command' = Line(taken) /\ pc' = "move"
    BY <1>4 DEF TakeFront, LineInv
  <2>. QED BY <2>1, <2>2 DEF LineInv
<1>5. CASE MoveDown \/ LoadSize \/ StoreSize
  <2>1. /\ pc \in {"move", "load", "store"} /\ pc' \in {"load", "store", "edit"}
        /\ UNCHANGED <<taken, nInput, command>>
    BY <1>5 DEF MoveDown, LoadSize, StoreSize
  <2>. QED BY <2>1 DEF LineInv
<1>6. CASE Edit
  <2>1. PICK s \in Seq(Chars) : taken = Append(s, nInput) /\ command = Line(s)
    BY <1>6 DEF Edit, LineInv
  <2>2. nInput \in Chars /\ pc' = "idle" /\ taken' = taken
    BY <1>6 DEF Edit, Inv, TypeOK
  <2>3. Enter \notin Printable /\ Backspace \notin Printable /\ Control \notin Printable
        /\ Enter # Backspace /\ Enter # Control /\ Backspace # Control
    BY CommanderAssumption DEF Enter, Backspace, Control
  <2>4. command' = IF nInput = Enter THEN <<>> ELSE EditedBy(command, nInput)
    BY <1>6, <2>3 DEF Edit, EditedBy
  <2>5. command' = Line(taken)
    BY <2>1, <2>2, <2>4, LineAppend
  <2>. QED BY <2>2, <2>5 DEF LineInv
<1>. QED BY <1>1, <1>2, <1>3, <1>4, <1>5, <1>6 DEF Next, Pump

\* The command line is what was taken since the last enter, each backspace having removed
\* the printable character before it, if any (commander.cpp:80-195), for every text typed
\* and whatever the interrupt did to the buffer meanwhile.
THEOREM LineStaysEdited == Spec => []LineIsEdited
<1>1. Init => LineInv
  <2>1. SinceEnter(<<>>) = <<>>
    <3>1. <<>> \in Seq(Chars) /\ Len(<<>>) = 0
      OBVIOUS
    <3>2. {i \in 1 .. 0 : <<>>[i] = Enter} = {}
      OBVIOUS
    <3>. QED BY <3>1, <3>2 DEF SinceEnter, SelectLastInSeq
  <2>. QED BY <2>1, EditedEmpty DEF Init, LineInv, Line
<1>2. Inv /\ LineInv /\ [Next]_vars => LineInv'
  BY LineStep
<1>3. LineInv => LineIsEdited
  BY DEF LineInv, LineIsEdited, Line
<1>. QED BY <1>1, <1>2, <1>3, Invariance, PTL DEF Spec
==============================================================================

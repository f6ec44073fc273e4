----------------------------- MODULE ListLemmas -----------------------------
(***************************************************************************)
(* What the lists of statements are that the models build by concatenation *)
(* of shorter ones, and what is left of a list while it is being run.      *)
(*                                                                         *)
(* Induction on numbers and on sequences, for sets (SeqInduct), which the  *)
(* provers can use where a theorem about predicates is beyond them; and    *)
(* with it what a fold of the community modules computes: the recursive    *)
(* function behind FoldLeft is a chain of values, one more for each        *)
(* element (Gives), so that a longer sequence takes one step more          *)
(* (GivesNext).                                                            *)
(***************************************************************************)
EXTENDS Naturals, FiniteSetsExt, SequenceTheorems, WellFoundedInduction, TLAPS

\* A list that has the elements of s and then those of t is their concatenation.
LEMMA ConcatIs ==
  ASSUME NEW S, NEW s \in Seq(S), NEW t \in Seq(S), NEW u \in Seq(S), Len(u) = Len(s) + Len(t),
         \A i \in 1 .. Len(s) : u[i] = s[i], \A i \in 1 .. Len(t) : u[Len(s) + i] = t[i]
  PROVE  s \o t = u
<1>1. /\ s \o t \in Seq(S) /\ Len(s \o t) = Len(u) /\ Len(s) \in Nat /\ Len(t) \in Nat
      /\ \A i \in 1 .. Len(u) : (s \o t)[i] = IF i <= Len(s) THEN s[i] ELSE t[i - Len(s)]
  BY ConcatProperties, LenProperties
<1>2. ASSUME NEW i \in 1 .. Len(u)
      PROVE  (s \o t)[i] = u[i]
  <2>1. CASE i <= Len(s)
    BY <1>1, <2>1
  <2>2. CASE ~(i <= Len(s))
    <3>1. i - Len(s) \in 1 .. Len(t) /\ Len(s) + (i - Len(s)) = i
      BY <1>1, <2>2
    <3>. QED BY <1>1, <2>2, <3>1
  <2>. QED BY <2>1, <2>2
<1>. QED BY <1>1, <1>2, SeqEqual

\* What is left of a list from its k-th element on, at its end and before.
LEMMA RestOfList ==
  ASSUME NEW S, NEW c \in Seq(S), NEW k \in 1 .. Len(c)
  PROVE  LET left == SubSeq(c, k, Len(c))
         IN  /\ left \in Seq(S) /\ left # << >>
             /\ Head(left) = c[k]
             /\ Tail(left) = SubSeq(c, k + 1, Len(c))
             /\ k = Len(c) => Tail(left) = << >>
<1>1. Len(c) \in Nat /\ Len(c) \in k .. Len(c) /\ k \in Int /\ Len(c) \in Int
  BY LenProperties
<1>2. /\ Head(SubSeq(c, k, Len(c))) = c[k]
      /\ Tail(SubSeq(c, k, Len(c))) = SubSeq(c, k + 1, Len(c))
  BY <1>1, HeadTailOfSubSeq
<1>3. SubSeq(c, k, Len(c)) \in Seq(S) /\ Len(SubSeq(c, k, Len(c))) = Len(c) - k + 1
  <2>1. \A i \in k .. Len(c) : c[i] \in S
    BY <1>1, ElementOfSeq
  <2>. QED BY <1>1, <2>1, SubSeqProperties
<1>4. SubSeq(c, k, Len(c)) # << >>
  BY <1>1, <1>3, EmptySeq
<1>5. k = Len(c) => SubSeq(c, k + 1, Len(c)) = << >>
  BY <1>1, SubSeqEmpty
<1>. QED BY <1>2, <1>3, <1>4, <1>5

\* A list that is not empty is its first element and the rest.
LEMMA FirstOfList ==
  ASSUME NEW S, NEW s \in Seq(S), Len(s) # 0
  PROVE  s # << >> /\ Head(s) = s[1] /\ Tail(s) = SubSeq(s, 2, Len(s))
<1>1. s # << >> /\ Head(s) = s[1]
  OBVIOUS
<1>2. Tail(s) = SubSeq(s, 2, Len(s))
  BY <1>1, TailIsSubSeq
<1>. QED BY <1>1, <1>2

(* Concatenations of two tuples *)

LEMMA Concat1And1 ==
  ASSUME NEW a, NEW b
  PROVE  << a >> \o << b >>
         = << a, b >>
<1>. DEFINE s == << a >>
            t == << b >>
            u == << a, b >>
            S == {a, b}
<1>1. /\ s \in Seq(S) /\ t \in Seq(S) /\ u \in Seq(S) /\ Len(u) = Len(s) + Len(t)
      /\ \A z \in 1 .. Len(s) : u[z] = s[z]
      /\ \A z \in 1 .. Len(t) : u[Len(s) + z] = t[z]
  <2>1. /\ s \in Seq(S) /\ t \in Seq(S) /\ u \in Seq(S)
        /\ Len(s) = 1 /\ Len(t) = 1 /\ Len(u) = 2
    OBVIOUS
  <2>2. u[1] = a /\ u[2] = b /\ s[1] = a /\ t[1] = b
    OBVIOUS
  <2>. HIDE DEF s, t, u
  <2>. QED BY <2>1, <2>2
<1>. HIDE DEF s, t, u, S
<1>2. s \o t = u
  BY <1>1, ConcatIs
<1>. QED BY <1>2 DEF s, t, u

LEMMA Concat1And2 ==
  ASSUME NEW a, NEW b, NEW c
  PROVE  << a >> \o << b, c >>
         = << a, b, c >>
<1>. DEFINE s == << a >>
            t == << b, c >>
            u == << a, b, c >>
            S == {a, b, c}
<1>1. /\ s \in Seq(S) /\ t \in Seq(S) /\ u \in Seq(S) /\ Len(u) = Len(s) + Len(t)
      /\ \A z \in 1 .. Len(s) : u[z] = s[z]
      /\ \A z \in 1 .. Len(t) : u[Len(s) + z] = t[z]
  OBVIOUS
<1>. HIDE DEF s, t, u, S
<1>2. s \o t = u
  BY <1>1, ConcatIs
<1>. QED BY <1>2 DEF s, t, u

LEMMA Concat1And4 ==
  ASSUME NEW a, NEW b, NEW c, NEW d, NEW e
  PROVE  << a >> \o << b, c, d, e >>
         = << a, b, c, d, e >>
<1>. DEFINE s == << a >>
            t == << b, c, d, e >>
            u == << a, b, c, d, e >>
            S == {a, b, c, d, e}
<1>1. /\ s \in Seq(S) /\ t \in Seq(S) /\ u \in Seq(S) /\ Len(u) = Len(s) + Len(t)
      /\ \A z \in 1 .. Len(s) : u[z] = s[z]
      /\ \A z \in 1 .. Len(t) : u[Len(s) + z] = t[z]
  OBVIOUS
<1>. HIDE DEF s, t, u, S
<1>2. s \o t = u
  BY <1>1, ConcatIs
<1>. QED BY <1>2 DEF s, t, u

LEMMA Concat2And1 ==
  ASSUME NEW a, NEW b, NEW c
  PROVE  << a, b >> \o << c >>
         = << a, b, c >>
<1>. DEFINE s == << a, b >>
            t == << c >>
            u == << a, b, c >>
            S == {a, b, c}
<1>1. /\ s \in Seq(S) /\ t \in Seq(S) /\ u \in Seq(S) /\ Len(u) = Len(s) + Len(t)
      /\ \A z \in 1 .. Len(s) : u[z] = s[z]
      /\ \A z \in 1 .. Len(t) : u[Len(s) + z] = t[z]
  OBVIOUS
<1>. HIDE DEF s, t, u, S
<1>2. s \o t = u
  BY <1>1, ConcatIs
<1>. QED BY <1>2 DEF s, t, u

LEMMA Concat2And2 ==
  ASSUME NEW a, NEW b, NEW c, NEW d
  PROVE  << a, b >> \o << c, d >>
         = << a, b, c, d >>
<1>. DEFINE s == << a, b >>
            t == << c, d >>
            u == << a, b, c, d >>
            S == {a, b, c, d}
<1>1. /\ s \in Seq(S) /\ t \in Seq(S) /\ u \in Seq(S) /\ Len(u) = Len(s) + Len(t)
      /\ \A z \in 1 .. Len(s) : u[z] = s[z]
      /\ \A z \in 1 .. Len(t) : u[Len(s) + z] = t[z]
  OBVIOUS
<1>. HIDE DEF s, t, u, S
<1>2. s \o t = u
  BY <1>1, ConcatIs
<1>. QED BY <1>2 DEF s, t, u

LEMMA Concat3And1 ==
  ASSUME NEW a, NEW b, NEW c, NEW d
  PROVE  << a, b, c >> \o << d >>
         = << a, b, c, d >>
<1>. DEFINE s == << a, b, c >>
            t == << d >>
            u == << a, b, c, d >>
            S == {a, b, c, d}
<1>1. /\ s \in Seq(S) /\ t \in Seq(S) /\ u \in Seq(S) /\ Len(u) = Len(s) + Len(t)
      /\ \A z \in 1 .. Len(s) : u[z] = s[z]
      /\ \A z \in 1 .. Len(t) : u[Len(s) + z] = t[z]
  OBVIOUS
<1>. HIDE DEF s, t, u, S
<1>2. s \o t = u
  BY <1>1, ConcatIs
<1>. QED BY <1>2 DEF s, t, u

LEMMA Concat3And4 ==
  ASSUME NEW a, NEW b, NEW c, NEW d, NEW e, NEW f, NEW g
  PROVE  << a, b, c >> \o << d, e, f, g >>
         = << a, b, c, d, e, f, g >>
<1>. DEFINE s == << a, b, c >>
            t == << d, e, f, g >>
            u == << a, b, c, d, e, f, g >>
            S == {a, b, c, d, e, f, g}
<1>1. /\ s \in Seq(S) /\ t \in Seq(S) /\ u \in Seq(S) /\ Len(u) = Len(s) + Len(t)
      /\ \A z \in 1 .. Len(s) : u[z] = s[z]
      /\ \A z \in 1 .. Len(t) : u[Len(s) + z] = t[z]
  OBVIOUS
<1>. HIDE DEF s, t, u, S
<1>2. s \o t = u
  BY <1>1, ConcatIs
<1>. QED BY <1>2 DEF s, t, u

LEMMA Concat4And1 ==
  ASSUME NEW a, NEW b, NEW c, NEW d, NEW e
  PROVE  << a, b, c, d >> \o << e >>
         = << a, b, c, d, e >>
<1>. DEFINE s == << a, b, c, d >>
            t == << e >>
            u == << a, b, c, d, e >>
            S == {a, b, c, d, e}
<1>1. /\ s \in Seq(S) /\ t \in Seq(S) /\ u \in Seq(S) /\ Len(u) = Len(s) + Len(t)
      /\ \A z \in 1 .. Len(s) : u[z] = s[z]
      /\ \A z \in 1 .. Len(t) : u[Len(s) + z] = t[z]
  OBVIOUS
<1>. HIDE DEF s, t, u, S
<1>2. s \o t = u
  BY <1>1, ConcatIs
<1>. QED BY <1>2 DEF s, t, u

LEMMA Concat4And2 ==
  ASSUME NEW a, NEW b, NEW c, NEW d, NEW e, NEW f
  PROVE  << a, b, c, d >> \o << e, f >>
         = << a, b, c, d, e, f >>
<1>. DEFINE s == << a, b, c, d >>
            t == << e, f >>
            u == << a, b, c, d, e, f >>
            S == {a, b, c, d, e, f}
<1>1. /\ s \in Seq(S) /\ t \in Seq(S) /\ u \in Seq(S) /\ Len(u) = Len(s) + Len(t)
      /\ \A z \in 1 .. Len(s) : u[z] = s[z]
      /\ \A z \in 1 .. Len(t) : u[Len(s) + z] = t[z]
  OBVIOUS
<1>. HIDE DEF s, t, u, S
<1>2. s \o t = u
  BY <1>1, ConcatIs
<1>. QED BY <1>2 DEF s, t, u

LEMMA Concat5And1 ==
  ASSUME NEW a, NEW b, NEW c, NEW d, NEW e, NEW f
  PROVE  << a, b, c, d, e >> \o << f >>
         = << a, b, c, d, e, f >>
<1>. DEFINE s == << a, b, c, d, e >>
            t == << f >>
            u == << a, b, c, d, e, f >>
            S == {a, b, c, d, e, f}
<1>1. /\ s \in Seq(S) /\ t \in Seq(S) /\ u \in Seq(S) /\ Len(u) = Len(s) + Len(t)
      /\ \A z \in 1 .. Len(s) : u[z] = s[z]
      /\ \A z \in 1 .. Len(t) : u[Len(s) + z] = t[z]
  OBVIOUS
<1>. HIDE DEF s, t, u, S
<1>2. s \o t = u
  BY <1>1, ConcatIs
<1>. QED BY <1>2 DEF s, t, u

LEMMA Concat5And5 ==
  ASSUME NEW a, NEW b, NEW c, NEW d, NEW e, NEW f, NEW g, NEW h, NEW i, NEW j
  PROVE  << a, b, c, d, e >> \o << f, g, h, i, j >>
         = << a, b, c, d, e, f, g, h, i, j >>
<1>. DEFINE s == << a, b, c, d, e >>
            t == << f, g, h, i, j >>
            u == << a, b, c, d, e, f, g, h, i, j >>
            S == {a, b, c, d, e, f, g, h, i, j}
<1>1. /\ s \in Seq(S) /\ t \in Seq(S) /\ u \in Seq(S) /\ Len(u) = Len(s) + Len(t)
      /\ \A z \in 1 .. Len(s) : u[z] = s[z]
      /\ \A z \in 1 .. Len(t) : u[Len(s) + z] = t[z]
  OBVIOUS
<1>. HIDE DEF s, t, u, S
<1>2. s \o t = u
  BY <1>1, ConcatIs
<1>. QED BY <1>2 DEF s, t, u

LEMMA Concat6And2 ==
  ASSUME NEW a, NEW b, NEW c, NEW d, NEW e, NEW f, NEW g, NEW h
  PROVE  << a, b, c, d, e, f >> \o << g, h >>
         = << a, b, c, d, e, f, g, h >>
<1>. DEFINE s == << a, b, c, d, e, f >>
            t == << g, h >>
            u == << a, b, c, d, e, f, g, h >>
            S == {a, b, c, d, e, f, g, h}
<1>1. /\ s \in Seq(S) /\ t \in Seq(S) /\ u \in Seq(S) /\ Len(u) = Len(s) + Len(t)
      /\ \A z \in 1 .. Len(s) : u[z] = s[z]
      /\ \A z \in 1 .. Len(t) : u[Len(s) + z] = t[z]
  OBVIOUS
<1>. HIDE DEF s, t, u, S
<1>2. s \o t = u
  BY <1>1, ConcatIs
<1>. QED BY <1>2 DEF s, t, u

LEMMA Concat6And4 ==
  ASSUME NEW a, NEW b, NEW c, NEW d, NEW e, NEW f, NEW g, NEW h, NEW i, NEW j
  PROVE  << a, b, c, d, e, f >> \o << g, h, i, j >>
         = << a, b, c, d, e, f, g, h, i, j >>
<1>. DEFINE s == << a, b, c, d, e, f >>
            t == << g, h, i, j >>
            u == << a, b, c, d, e, f, g, h, i, j >>
            S == {a, b, c, d, e, f, g, h, i, j}
<1>1. /\ s \in Seq(S) /\ t \in Seq(S) /\ u \in Seq(S) /\ Len(u) = Len(s) + Len(t)
      /\ \A z \in 1 .. Len(s) : u[z] = s[z]
      /\ \A z \in 1 .. Len(t) : u[Len(s) + z] = t[z]
  OBVIOUS
<1>. HIDE DEF s, t, u, S
<1>2. s \o t = u
  BY <1>1, ConcatIs
<1>. QED BY <1>2 DEF s, t, u

LEMMA Concat7And1 ==
  ASSUME NEW a, NEW b, NEW c, NEW d, NEW e, NEW f, NEW g, NEW h
  PROVE  << a, b, c, d, e, f, g >> \o << h >>
         = << a, b, c, d, e, f, g, h >>
<1>. DEFINE s == << a, b, c, d, e, f, g >>
            t == << h >>
            u == << a, b, c, d, e, f, g, h >>
            S == {a, b, c, d, e, f, g, h}
<1>1. /\ s \in Seq(S) /\ t \in Seq(S) /\ u \in Seq(S) /\ Len(u) = Len(s) + Len(t)
      /\ \A z \in 1 .. Len(s) : u[z] = s[z]
      /\ \A z \in 1 .. Len(t) : u[Len(s) + z] = t[z]
  OBVIOUS
<1>. HIDE DEF s, t, u, S
<1>2. s \o t = u
  BY <1>1, ConcatIs
<1>. QED BY <1>2 DEF s, t, u

LEMMA Concat8And1 ==
  ASSUME NEW a, NEW b, NEW c, NEW d, NEW e, NEW f, NEW g, NEW h, NEW i
  PROVE  << a, b, c, d, e, f, g, h >> \o << i >>
         = << a, b, c, d, e, f, g, h, i >>
<1>. DEFINE s == << a, b, c, d, e, f, g, h >>
            t == << i >>
            u == << a, b, c, d, e, f, g, h, i >>
            S == {a, b, c, d, e, f, g, h, i}
<1>1. /\ s \in Seq(S) /\ t \in Seq(S) /\ u \in Seq(S) /\ Len(u) = Len(s) + Len(t)
      /\ \A z \in 1 .. Len(s) : u[z] = s[z]
      /\ \A z \in 1 .. Len(t) : u[Len(s) + z] = t[z]
  OBVIOUS
<1>. HIDE DEF s, t, u, S
<1>2. s \o t = u
  BY <1>1, ConcatIs
<1>. QED BY <1>2 DEF s, t, u

LEMMA Concat8And2 ==
  ASSUME NEW a, NEW b, NEW c, NEW d, NEW e, NEW f, NEW g, NEW h, NEW i, NEW j
  PROVE  << a, b, c, d, e, f, g, h >> \o << i, j >>
         = << a, b, c, d, e, f, g, h, i, j >>
<1>. DEFINE s == << a, b, c, d, e, f, g, h >>
            t == << i, j >>
            u == << a, b, c, d, e, f, g, h, i, j >>
            S == {a, b, c, d, e, f, g, h, i, j}
<1>1. /\ s \in Seq(S) /\ t \in Seq(S) /\ u \in Seq(S) /\ Len(u) = Len(s) + Len(t)
      /\ \A z \in 1 .. Len(s) : u[z] = s[z]
      /\ \A z \in 1 .. Len(t) : u[Len(s) + z] = t[z]
  OBVIOUS
<1>. HIDE DEF s, t, u, S
<1>2. s \o t = u
  BY <1>1, ConcatIs
<1>. QED BY <1>2 DEF s, t, u

LEMMA Concat10And1 ==
  ASSUME NEW a, NEW b, NEW c, NEW d, NEW e, NEW f, NEW g, NEW h, NEW i, NEW j, NEW k
  PROVE  << a, b, c, d, e, f, g, h, i, j >> \o << k >>
         = << a, b, c, d, e, f, g, h, i, j, k >>
<1>. DEFINE s == << a, b, c, d, e, f, g, h, i, j >>
            t == << k >>
            u == << a, b, c, d, e, f, g, h, i, j, k >>
            S == {a, b, c, d, e, f, g, h, i, j, k}
<1>1. /\ s \in Seq(S) /\ t \in Seq(S) /\ u \in Seq(S) /\ Len(u) = Len(s) + Len(t)
      /\ \A z \in 1 .. Len(s) : u[z] = s[z]
      /\ \A z \in 1 .. Len(t) : u[Len(s) + z] = t[z]
  OBVIOUS
<1>. HIDE DEF s, t, u, S
<1>2. s \o t = u
  BY <1>1, ConcatIs
<1>. QED BY <1>2 DEF s, t, u

LEMMA Concat10And2 ==
  ASSUME NEW a, NEW b, NEW c, NEW d, NEW e, NEW f, NEW g, NEW h, NEW i, NEW j, NEW k, NEW l
  PROVE  << a, b, c, d, e, f, g, h, i, j >> \o << k, l >>
         = << a, b, c, d, e, f, g, h, i, j, k, l >>
<1>. DEFINE s == << a, b, c, d, e, f, g, h, i, j >>
            t == << k, l >>
            u == << a, b, c, d, e, f, g, h, i, j, k, l >>
            S == {a, b, c, d, e, f, g, h, i, j, k, l}
<1>1. /\ s \in Seq(S) /\ t \in Seq(S) /\ u \in Seq(S) /\ Len(u) = Len(s) + Len(t)
      /\ \A z \in 1 .. Len(s) : u[z] = s[z]
      /\ \A z \in 1 .. Len(t) : u[Len(s) + z] = t[z]
  OBVIOUS
<1>. HIDE DEF s, t, u, S
<1>2. s \o t = u
  BY <1>1, ConcatIs
<1>. QED BY <1>2 DEF s, t, u

-----------------------------------------------------------------------------
(* Induction, over sets: the provers have no use for a predicate as a parameter *)

\* A set of naturals has a least element.
LEMMA Least ==
  ASSUME NEW T, T \subseteq Nat, T # {}
  PROVE  \E m \in T : \A k \in T : m <= k
<1>1. PICK m \in T : \A k \in T : ~(<<k, m>> \in OpToRel(<, Nat))
  BY WFMin, NatLessThanWellFounded
<1>2. \A k \in T : ~(k < m)
  BY <1>1 DEF OpToRel
<1>. QED BY <1>2

\* Induction up to n.
LEMMA Induct ==
  ASSUME NEW n \in Nat, NEW T, 0 \in T, \A i \in 0 .. n - 1 : i \in T => i + 1 \in T
  PROVE  \A i \in 0 .. n : i \in T
<1>. DEFINE N == {i \in 0 .. n : i \notin T}
<1>. SUFFICES ASSUME N # {} PROVE FALSE
  OBVIOUS
<1>1. PICK m \in N : \A k \in N : m <= k
  <2>1. N \subseteq Nat
    OBVIOUS
  <2>. HIDE DEF N
  <2>. QED BY <2>1, Least
<1>2. m - 1 \in 0 .. n - 1 /\ m - 1 \notin N
  BY <1>1
<1>. QED BY <1>2

Agree(f, g, n) == \A m \in 0 .. n : f[m] = g[m]

\* Two functions that start with the same value and go on in the same way agree.
LEMMA ChainsAgree ==
  ASSUME NEW n \in Nat, NEW f, NEW g, f[0] = g[0],
         \A m \in 1 .. n : f[m - 1] = g[m - 1] => f[m] = g[m]
  PROVE  Agree(f, g, n)
<1>. DEFINE T == {m \in 0 .. n : f[m] = g[m]}
<1>1. \A i \in 0 .. n - 1 : i \in T => i + 1 \in T
  OBVIOUS
<1>2. 0 \in T
  OBVIOUS
<1>3. \A m \in 0 .. n : m \in T
  <2>. HIDE DEF T
  <2>. QED BY <1>1, <1>2, Induct
<1>. QED BY <1>3 DEF Agree

\* A set of naturals with an upper bound has a greatest element.
LEMMA Greatest ==
  ASSUME NEW n \in Nat, NEW S, S \subseteq 1 .. n, S # {}
  PROVE  \E m \in S : \A k \in S : k <= m
<1>. DEFINE T == {n - k : k \in S}
<1>1. T \subseteq Nat /\ T # {}
  <2>1. PICK k \in S : TRUE
    OBVIOUS
  <2>2. n - k \in T
    OBVIOUS
  <2>3. \A i \in S : n - i \in Nat
    OBVIOUS
  <2>. QED BY <2>2, <2>3
<1>2. PICK t \in T : \A u \in T : t <= u
  <2>. HIDE DEF T
  <2>. QED BY <1>1, Least
<1>3. PICK m \in S : t = n - m
  BY <1>2
<1>4. \A k \in S : n - m <= n - k
  BY <1>2, <1>3
<1>. QED BY <1>4

\* Max, on the sets of places of a list.
LEMMA MaxIs ==
  ASSUME NEW n \in Nat, NEW S, S \subseteq 1 .. n, S # {}
  PROVE  Max(S) \in S /\ \A k \in S : k <= Max(S)
<1>1. PICK m \in S : \A k \in S : k <= m
  BY Greatest
<1>2. \A k \in S : m >= k
  BY <1>1
<1>3. Max(S) \in S /\ \A k \in S : Max(S) >= k
  BY <1>2 DEF Max
<1>. QED BY <1>3

\* A fold over the places 1 .. n is defined from a function on the sets of places, which
\* takes the greatest place last.
Steps(V, n) == [V \X (1 .. n) -> V]
IsFold(it, V, n, base, step) ==
    /\ it[{}] = base
    /\ \A S \in SUBSET (1 .. n) :
          S # {} /\ it[S \ {Max(S)}] \in V => it[S] = step[<<it[S \ {Max(S)}], Max(S)>>]

LEMMA FoldExists ==
  ASSUME NEW V, NEW n \in Nat, NEW base \in V, NEW step \in Steps(V, n)
  PROVE  \E it \in [SUBSET (1 .. n) -> V] : IsFold(it, V, n, base, step)
<1>. DEFINE T == {j \in 0 .. n : \E it \in [SUBSET (1 .. j) -> V] : IsFold(it, V, j, base, step)}
<1>1. 0 \in T
  <2>. DEFINE it == [S \in SUBSET (1 .. 0) |-> base]
  <2>1. it \in [SUBSET (1 .. 0) -> V] /\ it[{}] = base
    OBVIOUS
  <2>2. \A S \in SUBSET (1 .. 0) : S = {}
    OBVIOUS
  <2>3. IsFold(it, V, 0, base, step)
    BY <2>1, <2>2 DEF IsFold
  <2>. QED BY <2>1, <2>3
<1>2. ASSUME NEW j \in 0 .. n - 1, j \in T PROVE j + 1 \in T
  <2>1. PICK it \in [SUBSET (1 .. j) -> V] : IsFold(it, V, j, base, step)
    BY <1>2
  <2>. DEFINE new == [S \in SUBSET (1 .. j + 1) |->
                         IF j + 1 \in S THEN step[<<it[S \ {j + 1}], j + 1>>] ELSE it[S]]
  <2>2. \A S \in SUBSET (1 .. j + 1) :
           /\ S \ {j + 1} \in SUBSET (1 .. j)
           /\ j + 1 \notin S => S \in SUBSET (1 .. j)
    OBVIOUS
  <2>3. \A S \in SUBSET (1 .. j + 1) : new[S] \in V
    <3>. TAKE S \in SUBSET (1 .. j + 1)
    <3>1. it[S \ {j + 1}] \in V /\ (j + 1 \notin S => it[S] \in V)
      BY <2>1, <2>2
    <3>2. j + 1 \in 1 .. n
      OBVIOUS
    <3>3. step[<<it[S \ {j + 1}], j + 1>>] \in V
      BY <3>1, <3>2 DEF Steps
    <3>. QED BY <3>1, <3>3
  <2>4. new \in [SUBSET (1 .. j + 1) -> V]
    BY <2>3
  <2>5. \A S \in SUBSET (1 .. j) : new[S] = it[S]
    OBVIOUS
  <2>6. IsFold(new, V, j + 1, base, step)
    <3>1. new[{}] = base
      BY <2>1, <2>5 DEF IsFold
    <3>2. ASSUME NEW S \in SUBSET (1 .. j + 1), S # {}
          PROVE  new[S] = step[<<new[S \ {Max(S)}], Max(S)>>]
      <4>1. Max(S) \in S /\ \A k \in S : k <= Max(S)
        <5>1. j + 1 \in Nat /\ S \subseteq 1 .. j + 1
          OBVIOUS
        <5>. QED BY <3>2, <5>1, MaxIs
      <4>2. CASE j + 1 \in S
        <5>1. Max(S) = j + 1
          <6>1. Max(S) \in 1 .. j + 1 /\ j + 1 <= Max(S)
            BY <4>1, <4>2
          <6>. QED BY <6>1
        <5>2. new[S \ {j + 1}] = it[S \ {j + 1}]
          BY <2>2, <2>5
        <5>3. new[S] = step[<<it[S \ {j + 1}], j + 1>>]
          BY <4>2
        <5>. HIDE DEF new
        <5>. QED BY <5>1, <5>2, <5>3
      <4>3. CASE j + 1 \notin S
        <5>1. S \in SUBSET (1 .. j) /\ S \ {Max(S)} \in SUBSET (1 .. j)
          BY <2>2, <4>3
        <5>2. new[S] = it[S] /\ new[S \ {Max(S)}] = it[S \ {Max(S)}]
          BY <2>5, <5>1
        <5>3. it[S] = step[<<it[S \ {Max(S)}], Max(S)>>]
          BY <2>1, <3>2, <5>1 DEF IsFold
        <5>. HIDE DEF new
        <5>. QED BY <5>2, <5>3
      <4>. QED BY <4>2, <4>3
    <3>. HIDE DEF new
    <3>. QED BY <3>1, <3>2 DEF IsFold
  <2>7. j + 1 \in 0 .. n
    OBVIOUS
  <2>. HIDE DEF new
  <2>. QED BY <2>4, <2>6, <2>7
<1>3. n \in T
  <2>. HIDE DEF T
  <2>1. \A i \in 0 .. n : i \in T
    BY <1>1, <1>2, Induct
  <2>. QED BY <2>1
<1>. QED BY <1>3

\* What a fold goes through: the value before the first step and after each of them.
IsChain(f, n, base, step) == f[0] = base /\ \A m \in 1 .. n : f[m] = step[<<f[m - 1], m>>]

LEMMA ChainOfFold ==
  ASSUME NEW V, NEW n \in Nat, NEW base \in V, NEW step \in Steps(V, n),
         NEW it, IsFold(it, V, n, base, step)
  PROVE  \E f \in [0 .. n -> V] : IsChain(f, n, base, step) /\ f[n] = it[1 .. n]
<1>. DEFINE f == [m \in 0 .. n |-> it[1 .. m]]
            T == {m \in 0 .. n : f[m] \in V /\ (m > 0 => f[m] = step[<<f[m - 1], m>>])}
<1>1. f[0] = base
  <2>1. 1 .. 0 = {} /\ 0 \in 0 .. n
    OBVIOUS
  <2>2. f[0] = it[{}]
    BY <2>1
  <2>. QED BY <2>2 DEF IsFold
<1>2. 0 \in T
  <2>. HIDE DEF f
  <2>. QED BY <1>1
<1>3. ASSUME NEW m \in 0 .. n - 1, m \in T PROVE m + 1 \in T
  <2>. DEFINE S == 1 .. m + 1
  <2>1. S \in SUBSET (1 .. n) /\ S # {} /\ S \ {m + 1} = 1 .. m
    OBVIOUS
  <2>2. Max(S) = m + 1
    <3>1. Max(S) \in S /\ \A k \in S : k <= Max(S)
      <4>. HIDE DEF S
      <4>. QED BY <2>1, MaxIs
    <3>2. m + 1 \in S
      OBVIOUS
    <3>. QED BY <3>1, <3>2
  <2>3. f[m] = it[1 .. m] /\ f[m + 1] = it[S] /\ f[m] \in V
    BY <1>3
  <2>. HIDE DEF S
  <2>4. it[S] = step[<<it[1 .. m], m + 1>>]
    BY <2>1, <2>2, <2>3 DEF IsFold
  <2>5. step[<<f[m], m + 1>>] \in V
    <3>1. <<f[m], m + 1>> \in V \X (1 .. n)
      BY <2>3
    <3>. HIDE DEF f
    <3>. QED BY <3>1 DEF Steps
  <2>. HIDE DEF f
  <2>6. f[m + 1] = step[<<f[m], m + 1>>]
    BY <2>3, <2>4
  <2>7. m + 1 \in 0 .. n /\ (m + 1) - 1 = m
    OBVIOUS
  <2>. QED BY <2>5, <2>6, <2>7
<1>4. \A m \in 0 .. n : m \in T
  <2>. HIDE DEF T
  <2>. QED BY <1>2, <1>3, Induct
<1>5. f \in [0 .. n -> V]
  BY <1>4
<1>6. IsChain(f, n, base, step)
  <2>. HIDE DEF f
  <2>. QED BY <1>1, <1>4 DEF IsChain
<1>7. f[n] = it[1 .. n]
  OBVIOUS
<1>. QED BY <1>5, <1>6, <1>7

\* The fold of a step over the elements of s: the function it is defined from, the value it
\* gives, and what one more element does to that value.
FoldSteps(V, E) == [V \X E -> V]
Unfolds(it, V, s, base, step) ==
    /\ it[{}] = base
    /\ \A S \in SUBSET (1 .. Len(s)) :
          S # {} /\ it[S \ {Max(S)}] \in V => it[S] = step[<<it[S \ {Max(S)}], s[Max(S)]>>]
Gives(v, V, s, base, step) ==
    \E f \in [0 .. Len(s) -> V] : /\ f[0] = base /\ f[Len(s)] = v
                                 /\ \A m \in 1 .. Len(s) : f[m] = step[<<f[m - 1], s[m]>>]

\* the step of each place
PlaceStep(V, s, step) == [p \in V \X (1 .. Len(s)) |-> step[<<p[1], s[p[2]]>>]]

LEMMA UnfoldsIs ==
  ASSUME NEW V, NEW E, NEW s \in Seq(E), NEW base \in V, NEW step \in FoldSteps(V, E)
  PROVE  /\ PlaceStep(V, s, step) \in Steps(V, Len(s))
         /\ \A it : Unfolds(it, V, s, base, step) <=> IsFold(it, V, Len(s), base, PlaceStep(V, s, step))
<1>. DEFINE n == Len(s)
            at == [p \in V \X (1 .. n) |-> step[<<p[1], s[p[2]]>>]]
<1>1. n \in Nat /\ \A m \in 1 .. n : s[m] \in E
  OBVIOUS
<1>2. at \in Steps(V, n)
  BY <1>1 DEF Steps, FoldSteps
<1>3. \A v \in V, m \in 1 .. n : at[<<v, m>>] = step[<<v, s[m]>>]
  OBVIOUS
<1>4. \A S \in SUBSET (1 .. n) : S # {} => Max(S) \in 1 .. n
  <2>. HIDE DEF n
  <2>. QED BY <1>1, MaxIs
<1>. HIDE DEF at
<1>5. ASSUME NEW it
      PROVE  Unfolds(it, V, s, base, step) <=> IsFold(it, V, n, base, at)
  <2>. HIDE DEF n
  <2>1. \A S \in SUBSET (1 .. n) : S # {} /\ it[S \ {Max(S)}] \in V =>
           at[<<it[S \ {Max(S)}], Max(S)>>] = step[<<it[S \ {Max(S)}], s[Max(S)]>>]
    BY <1>3, <1>4
  <2>. QED BY <2>1 DEF Unfolds, IsFold, n
<1>6. at = PlaceStep(V, s, step)
  BY DEF at, PlaceStep
<1>. QED BY <1>2, <1>5, <1>6

LEMMA Unfolded ==
  ASSUME NEW V, NEW E, NEW s \in Seq(E), NEW base \in V, NEW step \in FoldSteps(V, E)
  PROVE  \E it \in [SUBSET (1 .. Len(s)) -> V] : Unfolds(it, V, s, base, step)
<1>. DEFINE n == Len(s)
            at == PlaceStep(V, s, step)
<1>1. n \in Nat
  OBVIOUS
<1>2. at \in Steps(V, n) /\ \A it : Unfolds(it, V, s, base, step) <=> IsFold(it, V, n, base, at)
  BY UnfoldsIs
<1>. HIDE DEF at, n
<1>3. PICK it \in [SUBSET (1 .. n) -> V] : IsFold(it, V, n, base, at)
  BY <1>1, <1>2, FoldExists
<1>. QED BY <1>2, <1>3 DEF n

LEMMA GivenBy ==
  ASSUME NEW V, NEW E, NEW s \in Seq(E), NEW base \in V, NEW step \in FoldSteps(V, E),
         NEW it, Unfolds(it, V, s, base, step)
  PROVE  Gives(it[1 .. Len(s)], V, s, base, step)
<1>. DEFINE n == Len(s)
            at == PlaceStep(V, s, step)
<1>1. n \in Nat
  OBVIOUS
<1>2. at \in Steps(V, n) /\ IsFold(it, V, n, base, at)
  BY UnfoldsIs
<1>3. \A v \in V, m \in 1 .. n : at[<<v, m>>] = step[<<v, s[m]>>]
  BY DEF PlaceStep
<1>. HIDE DEF at
<1>4. PICK f \in [0 .. n -> V] : IsChain(f, n, base, at) /\ f[n] = it[1 .. n]
  <2>. HIDE DEF n
  <2>. QED BY <1>1, <1>2, ChainOfFold
<1>5. \A m \in 1 .. n : f[m - 1] \in V
  BY <1>1
<1>6. f[0] = base /\ \A m \in 1 .. n : f[m] = step[<<f[m - 1], s[m]>>]
  <2>. HIDE DEF n
  <2>. QED BY <1>3, <1>4, <1>5 DEF IsChain
<1>. QED BY <1>4, <1>6 DEF Gives

LEMMA GivesSome ==
  ASSUME NEW V, NEW E, NEW s \in Seq(E), NEW base \in V, NEW step \in FoldSteps(V, E)
  PROVE  \E v : Gives(v, V, s, base, step)
BY Unfolded, GivenBy

LEMMA GivesFirst ==
  ASSUME NEW V, NEW base, NEW step, NEW v, Gives(v, V, <<>>, base, step)
  PROVE  v = base
<1>1. Len(<<>>) = 0
  OBVIOUS
<1>. QED BY <1>1 DEF Gives

\* One more element.  The operators are the terms that the provers look for.
Longer(t, s, e)   == t = Append(s, e)
After(step, v, e) == step[<<v, e>>]

LEMMA GivesNext ==
  ASSUME NEW V, NEW E, NEW base, NEW step, NEW s, NEW e, NEW t, NEW v, NEW w,
         s \in Seq(E), e \in E, Longer(t, s, e),
         Gives(v, V, s, base, step), Gives(w, V, t, base, step)
  PROVE  v \in V /\ w \in V /\ w = After(step, v, e)
<1>. DEFINE n == Len(s)
<1>1. n \in Nat /\ Len(t) = n + 1 /\ t[n + 1] = e /\ \A m \in 1 .. n : t[m] = s[m]
  BY DEF Longer
<1>2. PICK f \in [0 .. n -> V] : /\ f[0] = base /\ f[n] = v
                                 /\ \A m \in 1 .. n : f[m] = step[<<f[m - 1], s[m]>>]
  BY DEF Gives
<1>3. PICK g \in [0 .. n + 1 -> V] : /\ g[0] = base /\ g[n + 1] = w
                                     /\ \A m \in 1 .. n + 1 : g[m] = step[<<g[m - 1], t[m]>>]
  <2>2. \E g \in [0 .. Len(t) -> V] : /\ g[0] = base /\ g[Len(t)] = w
                                      /\ \A m \in 1 .. Len(t) : g[m] = step[<<g[m - 1], t[m]>>]
    BY DEF Gives
  <2>3. Len(t) = n + 1
    BY <1>1
  <2>. HIDE DEF n
  <2>. QED BY <2>2, <2>3
<1>4. \A m \in 1 .. n : f[m - 1] = g[m - 1] => f[m] = g[m]
  <2>. HIDE DEF n
  <2>1. \A m \in 1 .. n : m \in 1 .. n + 1 /\ t[m] = s[m]
    BY <1>1
  <2>. QED BY <1>2, <1>3, <2>1
<1>5. Agree(f, g, n)
  <2>. HIDE DEF n
  <2>. QED BY <1>1, <1>2, <1>3, <1>4, ChainsAgree
<1>6. f[n] = g[n]
  <2>1. n \in 0 .. n
    BY <1>1
  <2>. QED BY <1>5, <2>1 DEF Agree
<1>7. g[n + 1] = step[<<g[n], e>>]
  BY <1>1, <1>3
<1>8. f[n] \in V /\ g[n + 1] \in V
  BY <1>1
<1>. QED BY <1>2, <1>3, <1>6, <1>7, <1>8 DEF After

\* What the elements but the last one gave.
LEMMA GivesBefore ==
  ASSUME NEW V, NEW E, NEW base, NEW step, NEW s, NEW e, NEW t, NEW w,
         s \in Seq(E), e \in E, Longer(t, s, e), Gives(w, V, t, base, step)
  PROVE  \E v : Gives(v, V, s, base, step)
<1>. DEFINE n == Len(s)
<1>1. n \in Nat /\ Len(t) = n + 1 /\ \A m \in 1 .. n : t[m] = s[m]
  BY DEF Longer
<1>2. PICK g \in [0 .. n + 1 -> V] : /\ g[0] = base
                                     /\ \A m \in 1 .. n + 1 : g[m] = step[<<g[m - 1], t[m]>>]
  <2>1. \E g \in [0 .. Len(t) -> V] : /\ g[0] = base /\ g[Len(t)] = w
                                      /\ \A m \in 1 .. Len(t) : g[m] = step[<<g[m - 1], t[m]>>]
    BY DEF Gives
  <2>2. Len(t) = n + 1
    BY <1>1
  <2>. HIDE DEF n
  <2>. QED BY <2>1, <2>2
<1>. DEFINE f == [m \in 0 .. n |-> g[m]]
<1>3. f \in [0 .. n -> V] /\ f[0] = base
  BY <1>1, <1>2
<1>4. \A m \in 1 .. n : f[m] = step[<<f[m - 1], s[m]>>]
  <2>1. \A m \in 1 .. n : f[m] = g[m] /\ f[m - 1] = g[m - 1] /\ m \in 1 .. n + 1 /\ t[m] = s[m]
    BY <1>1
  <2>. HIDE DEF f, n
  <2>. QED BY <1>2, <2>1
<1>5. Gives(f[n], V, s, base, step)
  <2>. HIDE DEF f
  <2>. QED BY <1>3, <1>4 DEF Gives
<1>. QED BY <1>5

\* Induction on a sequence, from its elements in their order.
LEMMA SeqInduct ==
  ASSUME NEW E, NEW T, <<>> \in T, \A s \in Seq(E), e \in E : s \in T => Append(s, e) \in T
  PROVE  Seq(E) \subseteq T
<1>. SUFFICES ASSUME NEW s \in Seq(E) PROVE s \in T
  OBVIOUS
<1>. DEFINE n == Len(s)
            U == {i \in Nat : \A t \in Seq(E) : Len(t) = i => t \in T}
<1>1. n \in Nat
  OBVIOUS
<1>2. 0 \in U
  <2>1. \A t \in Seq(E) : Len(t) = 0 => t = <<>>
    OBVIOUS
  <2>. QED BY <2>1
<1>3. ASSUME NEW i \in Nat, i \in U PROVE i + 1 \in U
  <2>1. ASSUME NEW t \in Seq(E), Len(t) = i + 1 PROVE t \in T
    <3>1. t # <<>>
      BY <2>1
    <3>2. PICK r \in Seq(E), e \in E : t = Append(r, e)
      BY <3>1, SequenceEmptyOrAppend
    <3>3. Len(r) = i
      <4>1. Len(r) \in Nat /\ Len(t) = Len(r) + 1
        BY <3>2
      <4>. QED BY <2>1, <4>1
    <3>4. r \in T
      BY <1>3, <3>3
    <3>. QED BY <3>2, <3>4
  <2>. QED BY <2>1
<1>4. \A i \in 0 .. n : i \in U
  <2>1. \A i \in 0 .. n - 1 : i \in U => i + 1 \in U
    BY <1>1, <1>3
  <2>. HIDE DEF n, U
  <2>. QED BY <1>1, <1>2, <2>1, Induct
<1>5. n \in U
  BY <1>1, <1>4
<1>. QED BY <1>5

=============================================================================

--------------------------- MODULE RecursionLemmas ---------------------------
(***************************************************************************)
(* Facts about what is computed by a recursion over a sequence, which the   *)
(* proofs of several components need: the induction they rest on, stated    *)
(* for a set of numbers rather than for a predicate, a fold from the left,  *)
(* and Only.                                                                *)
(***************************************************************************)
EXTENDS Selection, FiniteSetsExt, SequenceTheorems, WellFoundedInduction, TLAPS

-----------------------------------------------------------------------------
(* Induction                                                               *)

\* A set of numbers that has 0 and, with each number, the next has them all.
LEMMA SetInduction ==
    ASSUME NEW S, 0 \in S, \A n \in Nat : n \in S => n + 1 \in S
    PROVE  Nat \subseteq S
<1> DEFINE Bad == Nat \ S
<1> SUFFICES ASSUME Bad # {} PROVE FALSE
    OBVIOUS
<1>1. \E x \in Bad : \A y \in Bad : ~ (<<y, x>> \in OpToRel(<,Nat))
    <2> HIDE DEF Bad
    <2>1. Bad \subseteq Nat
        BY DEF Bad
    <2> QED
        BY <2>1, WFMin, NatLessThanWellFounded
<1>2. PICK x \in Bad : \A y \in Bad : ~ (y < x)
    BY <1>1 DEF OpToRel
<1>3. x # 0 /\ x - 1 \in Nat /\ x - 1 < x
    OBVIOUS
<1> QED
    BY <1>2, <1>3

\* The same up to a bound.
LEMMA UpTo ==
    ASSUME NEW n \in Nat, NEW S, 0 \in S, \A k \in 0..(n - 1) : k \in S => k + 1 \in S
    PROVE  0..n \subseteq S
<1> DEFINE T == {k \in Nat : k <= n => k \in S}
<1>1. 0 \in T /\ \A k \in Nat : k \in T => k + 1 \in T
    OBVIOUS
<1> HIDE DEF T
<1>2. Nat \subseteq T
    BY <1>1, SetInduction
<1> QED
    BY <1>2 DEF T

\* A set of numbers up to n has a greatest one.
LEMMA MaxOf ==
    ASSUME NEW n \in Nat, NEW s \in SUBSET (1..n), s # {}
    PROVE  Max(s) \in s /\ \A y \in s : y <= Max(s)
<1> DEFINE S == {k \in Nat : \A t \in SUBSET (1..k) : t # {} => \E x \in t : \A y \in t : y <= x}
<1>1. 0 \in S
    <2>1. 1..0 = {}
        OBVIOUS
    <2> QED
        BY <2>1
<1>2. ASSUME NEW k \in Nat, k \in S PROVE k + 1 \in S
    <2> SUFFICES ASSUME NEW t \in SUBSET (1..(k + 1)), t # {}
                 PROVE  \E x \in t : \A y \in t : y <= x
        OBVIOUS
    <2>1. CASE k + 1 \in t
        BY <2>1
    <2>2. CASE k + 1 \notin t
        <3>1. t \in SUBSET (1..k)
            BY <2>2
        <3> QED
            BY <3>1, <1>2
    <2> QED
        BY <2>1, <2>2
<1> HIDE DEF S
<1>3. n \in S
    BY <1>1, <1>2, SetInduction
<1>4. \E x \in s : \A y \in s : x >= y
    <2>1. \E x \in s : \A y \in s : y <= x
        BY <1>3 DEF S
    <2> QED
        BY <2>1
<1> QED
    BY <1>4 DEF Max

-----------------------------------------------------------------------------
(* Folds                                                                   *)

\* g is the function that the result of a fold of n elements is computed by: what each set
\* of positions folds to.
IsFold(g, n, base, step) ==
    \A s \in SUBSET (1..n) : g[s] = IF s = {} THEN base ELSE step[<<g[s \ {Max(s)}], Max(s)>>]

\* It exists, when one turn is a
\* function that stays in T.
LEMMA FoldExists ==
    ASSUME NEW n \in Nat, NEW T, NEW base \in T, NEW step \in [T \X (1..n) -> T]
    PROVE  \E g \in [SUBSET (1..n) -> T] : IsFold(g, n, base, step)
<1> DEFINE Solves(g, m) ==
              \A s \in SUBSET (1..m) :
                 g[s] = IF s = {} THEN base ELSE step[<<g[s \ {Max(s)}], Max(s)>>]
           S == {m \in 0..n : \E g \in [SUBSET (1..m) -> T] : Solves(g, m)}
<1>1. 0 \in S
    <2> DEFINE g == [s \in SUBSET (1..0) |-> base]
    <2>1. g \in [SUBSET (1..0) -> T] /\ Solves(g, 0)
        OBVIOUS
    <2> HIDE DEF g, Solves
    <2>2. \E f \in [SUBSET (1..0) -> T] : Solves(f, 0)
        BY <2>1
    <2>3. 0 \in 0..n
        OBVIOUS
    <2> QED
        BY <2>2, <2>3
<1>2. ASSUME NEW m \in 0..(n - 1), m \in S PROVE m + 1 \in S
    <2>1. PICK g \in [SUBSET (1..m) -> T] : Solves(g, m)
        BY <1>2
    <2> DEFINE h == [s \in SUBSET (1..(m + 1)) |->
                        IF m + 1 \in s THEN step[<<g[s \ {m + 1}], m + 1>>] ELSE g[s]]
    <2>2. h \in [SUBSET (1..(m + 1)) -> T]
        <3> SUFFICES ASSUME NEW s \in SUBSET (1..(m + 1))
                     PROVE  (IF m + 1 \in s THEN step[<<g[s \ {m + 1}], m + 1>>] ELSE g[s]) \in T
            OBVIOUS
        <3>1. CASE m + 1 \in s
            <4>1. s \ {m + 1} \in SUBSET (1..m)
                OBVIOUS
            <4>2. g[s \ {m + 1}] \in T /\ m + 1 \in 1..n
                BY <4>1
            <4> QED
                BY <3>1, <4>2
        <3>2. CASE m + 1 \notin s
            <4>1. s \in SUBSET (1..m)
                BY <3>2
            <4> QED
                BY <3>2, <4>1
        <3> QED
            BY <3>1, <3>2
    <2>3. Solves(h, m + 1)
        <3> SUFFICES ASSUME NEW s \in SUBSET (1..(m + 1))
                     PROVE  h[s] = IF s = {} THEN base
                                   ELSE step[<<h[s \ {Max(s)}], Max(s)>>]
            OBVIOUS
        <3>1. CASE m + 1 \in s
            <4>0. PICK p \in Nat : p = m + 1
                OBVIOUS
            <4>1. Max(s) \in s /\ \A y \in s : y <= Max(s)
                <5>1. s \in SUBSET (1..p) /\ s # {}
                    BY <3>1, <4>0
                <5> QED
                    BY <5>1, MaxOf
            <4>2. Max(s) = m + 1
                <5>1. Max(s) \in 1..(m + 1) /\ m + 1 <= Max(s)
                    BY <3>1, <4>1
                <5> QED
                    BY <5>1
            <4>3. s \ {m + 1} \in SUBSET (1..m) /\ s \ {m + 1} \in SUBSET (1..(m + 1))
                OBVIOUS
            <4>4. h[s \ {m + 1}] = g[s \ {m + 1}]
                BY <4>3
            <4> QED
                BY <3>1, <4>2, <4>4
        <3>2. CASE m + 1 \notin s
            <4>1. s \in SUBSET (1..m) /\ h[s] = g[s]
                BY <3>2
            <4>2. CASE s = {}
                BY <4>1, <4>2, <2>1
            <4>3. CASE s # {}
                <5>1. Max(s) \in s
                    <6>1. m \in Nat
                        OBVIOUS
                    <6> QED
                        BY <4>1, <4>3, <6>1, MaxOf
                <5>2. s \ {Max(s)} \in SUBSET (1..m) /\ s \ {Max(s)} \in SUBSET (1..(m + 1))
                    BY <4>1
                <5>3. h[s \ {Max(s)}] = g[s \ {Max(s)}]
                    BY <5>2, <3>2
                <5> QED
                    BY <4>1, <4>3, <5>3, <2>1
            <4> QED
                BY <4>2, <4>3
        <3> QED
            BY <3>1, <3>2
    <2> HIDE DEF h, Solves
    <2> QED
        BY <2>2, <2>3
<1> HIDE DEF S, Solves
<1>3. n \in S
    BY <1>1, <1>2, UpTo
<1>4. PICK g \in [SUBSET (1..n) -> T] : Solves(g, n)
    BY <1>3 DEF S
<1> QED
    BY <1>4 DEF Solves, IsFold

\* What it gives for the first k elements, k from 0 to n.
LEMMA FoldSteps ==
    ASSUME NEW n \in Nat, NEW k \in 1..n
    PROVE  /\ 1..k \in SUBSET (1..n) /\ 1..k # {} /\ 1..0 = {}
           /\ Max(1..k) = k /\ (1..k) \ {Max(1..k)} = 1..(k - 1)
<1>1. 1..k \in SUBSET (1..n) /\ k \in 1..k
    OBVIOUS
<1>2. Max(1..k) \in 1..k /\ \A y \in 1..k : y <= Max(1..k)
    BY <1>1, MaxOf
<1> QED
    BY <1>1, <1>2

\* n turns from base on: what a recursive function over 0..n solves.
IsRun(h, n, base, step) ==
    h[0] = base /\ \A k \in 1..n : h[k] = step[<<h[k - 1], k>>]

LEMMA RunExists ==
    ASSUME NEW n \in Nat, NEW T, NEW base \in T, NEW step \in [T \X (1..n) -> T]
    PROVE  \E h \in [0..n -> T] : IsRun(h, n, base, step)
<1>1. PICK g \in [SUBSET (1..n) -> T] : IsFold(g, n, base, step)
    BY FoldExists
<1>2. \A s \in SUBSET (1..n) :
         g[s] \in T /\ g[s] = IF s = {} THEN base ELSE step[<<g[s \ {Max(s)}], Max(s)>>]
    BY <1>1 DEF IsFold
<1>3. PICK h : h = [k \in 0..n |-> g[1..k]]
    OBVIOUS
<1>4. \A k \in 0..n : 1..k \in SUBSET (1..n) /\ h[k] = g[1..k]
    BY <1>3
<1>5. h \in [0..n -> T]
    BY <1>2, <1>3, <1>4
<1>6. h[0] = base
    <2>1. 0 \in 0..n /\ 1..0 = {}
        OBVIOUS
    <2> QED
        BY <1>2, <1>4, <2>1
<1>7. ASSUME NEW k \in 1..n PROVE h[k] = step[<<h[k - 1], k>>]
    <2>1. k \in 0..n /\ k - 1 \in 0..n
        OBVIOUS
    <2>2. /\ 1..k \in SUBSET (1..n) /\ 1..k # {}
          /\ Max(1..k) = k /\ (1..k) \ {Max(1..k)} = 1..(k - 1)
        BY FoldSteps
    <2>3. g[1..k] = step[<<g[1..(k - 1)], k>>]
        BY <1>2, <2>2
    <2> QED
        BY <1>4, <2>1, <2>3
<1> QED
    BY <1>5, <1>6, <1>7 DEF IsRun

-----------------------------------------------------------------------------
(* Only                                                                    *)

\* A set of sequences that has the empty one and, with each, those longer by one
\* element, has them all.
LEMMA SeqInduction ==
    ASSUME NEW X, NEW P, << >> \in P,
           \A t \in Seq(X), x \in X : t \in P => Append(t, x) \in P
    PROVE  Seq(X) \subseteq P
<1> DEFINE S == {n \in Nat : \A t \in Seq(X) : Len(t) = n => t \in P}
<1>1. 0 \in S
    <2>1. \A t \in Seq(X) : Len(t) = 0 => t = << >>
        BY EmptySeq
    <2> QED
        BY <2>1
<1>2. ASSUME NEW n \in Nat, n \in S PROVE n + 1 \in S
    <2> SUFFICES ASSUME NEW t \in Seq(X), Len(t) = n + 1 PROVE t \in P
        OBVIOUS
    <2>1. t # << >>
        OBVIOUS
    <2>2. PICK u \in Seq(X), x \in X : t = Append(u, x)
        BY <2>1, SequenceEmptyOrAppend
    <2>3. Len(t) = Len(u) + 1 /\ Len(u) \in Nat
        BY <2>2, AppendProperties, LenProperties
    <2>4. u \in P
        BY <2>3, <1>2
    <2> QED
        BY <2>2, <2>4
<1> HIDE DEF S
<1>3. Nat \subseteq S
    BY <1>1, <1>2, SetInduction
<1> QED
    BY <1>3, LenProperties DEF S

\* A sequence of elements of S is one of any larger set.
LEMMA SeqSubset ==
    ASSUME NEW S, NEW T, S \subseteq T, NEW seq \in Seq(S)
    PROVE  seq \in Seq(T)
<1>1. /\ Len(seq) \in Nat /\ seq = [i \in 1..Len(seq) |-> seq[i]]
      /\ \A i \in 1..Len(seq) : seq[i] \in S
    BY LenProperties
<1>2. seq \in [1..Len(seq) -> T]
    BY <1>1
<1> QED
    BY <1>1, <1>2, SeqDef

\* A turn of Only.
LEMMA TurnOk ==
    ASSUME NEW X, NEW S, NEW kept \in Seq(X), NEW x \in X
    PROVE  AppendIf(kept, x, S) \in Seq(X)
BY AppendProperties DEF AppendIf

\* The partial results of Only.
TurnsOf(f, seq, S) ==
    /\ f[0] = << >>
    /\ \A k \in 1..Len(seq) : f[k] = AppendIf(f[k - 1], seq[k], S)

LEMMA OnlyTurns ==
    ASSUME NEW X, NEW S, NEW seq \in Seq(X)
    PROVE  \E f \in [0..Len(seq) -> Seq(X)] : TurnsOf(f, seq, S) /\ Only(seq, S) = f[Len(seq)]
<1> DEFINE n == Len(seq)
           step == [p \in Seq(X) \X (1..n) |-> AppendIf(p[1], seq[p[2]], S)]
           Def(g) == [k \in 0..n |-> IF k = 0 THEN << >>
                                     ELSE AppendIf(g[k - 1], seq[k], S)]
           f == CHOOSE g : g = Def(g)
<1>1. n \in Nat /\ DOMAIN seq = 1..n /\ \A k \in 1..n : seq[k] \in X
    BY LenProperties
<1>2. step \in [Seq(X) \X (1..n) -> Seq(X)]
    BY <1>1, TurnOk
<1>3. << >> \in Seq(X)
    BY EmptySeq
<1>4. \E h : h = Def(h)
    <2> HIDE DEF step, n
    <2>0. PICK T, base : T = Seq(X) /\ base = << >>
        OBVIOUS
    <2>a. n \in Nat /\ base \in T /\ step \in [T \X (1..n) -> T]
        BY <1>1, <1>2, <1>3, <2>0
    <2>b. PICK h \in [0..n -> T] : IsRun(h, n, base, step)
        BY <2>a, RunExists
    <2>1. ASSUME NEW k \in 1..n PROVE h[k] = AppendIf(h[k - 1], seq[k], S)
        <3>1. k - 1 \in 0..n
            BY <2>a
        <3>2. <<h[k - 1], k>> \in Seq(X) \X (1..n)
            BY <2>0, <2>b, <3>1
        <3> QED
            BY <2>b, <3>2 DEF step, IsRun
    <2>2. ASSUME NEW k \in 0..n
          PROVE  h[k] = IF k = 0 THEN << >> ELSE AppendIf(h[k - 1], seq[k], S)
        <3>1. k # 0 => k \in 1..n
            BY <2>a
        <3> QED
            BY <2>0, <2>b, <2>1, <3>1 DEF IsRun
    <2>3. h = Def(h)
        BY <2>2
    <2> QED
        BY <2>3
<1>5. f = Def(f)
    <2> HIDE DEF Def
    <2> QED
        BY <1>4
<1>6. Only(seq, S) = f[n]
    BY DEF Only
<1> HIDE DEF f
<1>7. f[0] = << >>
    <2>1. 0 \in 0..n
        BY <1>1
    <2> QED
        BY <1>5, <2>1
<1>8. ASSUME NEW k \in 1..n PROVE f[k] = AppendIf(f[k - 1], seq[k], S)
    <2>1. k \in 0..n /\ k # 0
        BY <1>1
    <2> QED
        BY <1>5, <2>1
<1>9. \A k \in 0..n : f[k] \in Seq(X)
    <2> DEFINE D == {k \in 0..n : f[k] \in Seq(X)}
    <2>1. 0 \in D
        <3>1. 0 \in 0..n
            BY <1>1
        <3>2. f[0] \in Seq(X)
            BY <1>3, <1>7
        <3> QED
            BY <3>1, <3>2
    <2>2. ASSUME NEW k \in 0..(n - 1), k \in D PROVE k + 1 \in D
        <3>1. k + 1 \in 1..n /\ (k + 1) - 1 = k /\ k + 1 \in 0..n
            BY <1>1
        <3>2. f[k + 1] = AppendIf(f[k], seq[k + 1], S)
            BY <3>1, <1>8
        <3>3. f[k] \in Seq(X) /\ seq[k + 1] \in X
            BY <2>2, <3>1, <1>1
        <3> QED
            BY <3>1, <3>2, <3>3, TurnOk
    <2> HIDE DEF D
    <2>3. 0..n \subseteq D
        BY <1>1, <2>1, <2>2, UpTo
    <2> QED
        BY <2>3 DEF D
<1>10. f \in [0..n -> Seq(X)]
    <2>1. DOMAIN f = 0..n /\ f = [k \in DOMAIN f |-> f[k]]
        BY <1>5
    <2> QED
        BY <2>1, <1>9
<1>11. TurnsOf(f, seq, S)
    BY <1>7, <1>8 DEF TurnsOf
<1> QED
    BY <1>6, <1>10, <1>11

\* They are the only ones.
LEMMA OnlyIs ==
    ASSUME NEW X, NEW S, NEW seq \in Seq(X), NEW f, TurnsOf(f, seq, S)
    PROVE  Only(seq, S) = f[Len(seq)]
<1>1. PICK g \in [0..Len(seq) -> Seq(X)] : TurnsOf(g, seq, S) /\ Only(seq, S) = g[Len(seq)]
    BY OnlyTurns
<1> DEFINE D == {k \in 0..Len(seq) : f[k] = g[k]}
<1>2. Len(seq) \in Nat
    BY LenProperties
<1>3. 0 \in D
    BY <1>1, <1>2 DEF TurnsOf
<1>4. ASSUME NEW k \in 0..(Len(seq) - 1), k \in D PROVE k + 1 \in D
    <2>1. k + 1 \in 1..Len(seq) /\ (k + 1) - 1 = k /\ k + 1 \in 0..Len(seq)
        BY <1>2
    <2>2. f[k + 1] = AppendIf(f[k], seq[k + 1], S)
        BY <2>1 DEF TurnsOf
    <2>3. g[k + 1] = AppendIf(g[k], seq[k + 1], S)
        BY <2>1, <1>1 DEF TurnsOf
    <2> QED
        BY <1>4, <2>1, <2>2, <2>3
<1> HIDE DEF D
<1>5. 0..Len(seq) \subseteq D
    BY <1>2, <1>3, <1>4, UpTo
<1> QED
    BY <1>1, <1>2, <1>5 DEF D

\* Only of the empty sequence, and of one longer by an element.
LEMMA OnlyEmpty == ASSUME NEW S PROVE Only(<< >>, S) = << >>
<1>1. << >> \in Seq({}) /\ Len(<< >>) = 0
    BY EmptySeq
<1>2. PICK f : f = [k \in {0} |-> << >>]
    OBVIOUS
<1>3. f[0] = << >>
    BY <1>2
<1>4. PICK e, X : e = << >> /\ e \in Seq(X) /\ Len(e) = 0
    BY <1>1
<1>5. TurnsOf(f, e, S)
    BY <1>3, <1>4 DEF TurnsOf
<1>6. Only(e, S) = f[Len(e)]
    BY <1>4, <1>5, OnlyIs
<1> QED
    BY <1>3, <1>4, <1>6

LEMMA OnlyAppend ==
    ASSUME NEW X, NEW S, NEW seq \in Seq(X), NEW x \in X
    PROVE  /\ Only(seq, S) \in Seq(X)
           /\ Only(Append(seq, x), S) = AppendIf(Only(seq, S), x, S)
<1>1. PICK f \in [0..Len(seq) -> Seq(X)] : TurnsOf(f, seq, S) /\ Only(seq, S) = f[Len(seq)]
    BY OnlyTurns
<1> DEFINE n == Len(seq)
           t == Append(seq, x)
           g == [k \in 0..(n + 1) |-> IF k <= n THEN f[k] ELSE AppendIf(f[n], x, S)]
<1>2. n \in Nat
    BY LenProperties
<1>3. t \in Seq(X) /\ Len(t) = n + 1 /\ t[n + 1] = x /\ \A i \in 1..n : t[i] = seq[i]
    BY AppendProperties
<1>4. g[0] = << >>
    BY <1>1, <1>2 DEF TurnsOf
<1>5. ASSUME NEW k \in 1..Len(t) PROVE g[k] = AppendIf(g[k - 1], t[k], S)
    <2>1. CASE k \in 1..n
        <3>1. k - 1 \in 0..n /\ k \in 0..(n + 1) /\ k <= n /\ k - 1 \in 0..(n + 1) /\ k - 1 <= n
            BY <2>1, <1>2
        <3>2. g[k] = f[k] /\ g[k - 1] = f[k - 1]
            BY <3>1
        <3> QED
            BY <2>1, <3>2, <1>1, <1>3 DEF TurnsOf
    <2>2. CASE k = n + 1
        <3>1. g[n] = f[n] /\ g[n + 1] = AppendIf(f[n], x, S) /\ k - 1 = n
            BY <2>2, <1>2
        <3> QED
            BY <2>2, <3>1, <1>3
    <2>3. k \in 1..n \/ k = n + 1
        BY <1>2, <1>3
    <2> HIDE DEF g, t
    <2> QED
        BY <2>1, <2>2, <2>3
<1>6. g[n + 1] = AppendIf(f[n], x, S)
    BY <1>2
<1> HIDE DEF g, t
<1>7. Only(t, S) = g[Len(t)]
    <2>1. TurnsOf(g, t, S)
        BY <1>4, <1>5 DEF TurnsOf
    <2> QED
        BY <1>3, <2>1, OnlyIs
<1>8. n \in 0..n
    BY <1>2
<1> QED
    BY <1>1, <1>3, <1>6, <1>7, <1>8 DEF t

\* Only of a sequence of X is one of the elements of X in S.
LEMMA OnlyType ==
    ASSUME NEW X, NEW S, NEW seq \in Seq(X)
    PROVE  Only(seq, S) \in Seq(X \cap S)
<1> DEFINE P == {t \in Seq(X) : Only(t, S) \in Seq(X \cap S)}
<1>1. << >> \in P
    BY OnlyEmpty, EmptySeq
<1>2. ASSUME NEW t \in Seq(X), NEW x \in X, t \in P PROVE Append(t, x) \in P
    <2>1. Only(Append(t, x), S) = AppendIf(Only(t, S), x, S)
        BY OnlyAppend
    <2>2. Only(t, S) \in Seq(X \cap S)
        BY <1>2
    <2>3. PICK Y, kept : Y = X \cap S /\ kept = Only(t, S)
        OBVIOUS
    <2>4. AppendIf(kept, x, S) \in Seq(Y)
        BY <2>2, <2>3, AppendProperties DEF AppendIf
    <2> QED
        BY <2>1, <2>3, <2>4, AppendProperties
<1> HIDE DEF P
<1>3. Seq(X) \subseteq P
    BY <1>1, <1>2, SeqInduction
<1> QED
    BY <1>3 DEF P

\* Two sets that agree on the elements of the sequence select the same.
LEMMA OnlySame ==
    ASSUME NEW X, NEW S, NEW T, \A x \in X : x \in S <=> x \in T, NEW seq \in Seq(X)
    PROVE  Only(seq, S) = Only(seq, T)
<1> DEFINE P == {t \in Seq(X) : Only(t, S) = Only(t, T)}
<1>1. << >> \in P
    BY OnlyEmpty, EmptySeq
<1>2. ASSUME NEW t \in Seq(X), NEW x \in X, t \in P PROVE Append(t, x) \in P
    <2>1. /\ Only(Append(t, x), S) = AppendIf(Only(t, S), x, S)
          /\ Only(Append(t, x), T) = AppendIf(Only(t, T), x, T)
        BY OnlyAppend
    <2>2. AppendIf(Only(t, S), x, S) = AppendIf(Only(t, T), x, T)
        BY <1>2 DEF AppendIf
    <2> QED
        BY <2>1, <2>2, AppendProperties
<1> HIDE DEF P
<1>3. Seq(X) \subseteq P
    BY <1>1, <1>2, SeqInduction
<1> QED
    BY <1>3 DEF P

\* A set that has all the elements of the sequence, and one that has none.
LEMMA OnlyAll ==
    ASSUME NEW X, NEW S, X \subseteq S, NEW seq \in Seq(X)
    PROVE  Only(seq, S) = seq
<1> DEFINE P == {t \in Seq(X) : Only(t, S) = t}
<1>1. << >> \in P
    BY OnlyEmpty, EmptySeq
<1>2. ASSUME NEW t \in Seq(X), NEW x \in X, t \in P PROVE Append(t, x) \in P
    <2>1. Only(Append(t, x), S) = AppendIf(Only(t, S), x, S)
        BY OnlyAppend
    <2>2. AppendIf(Only(t, S), x, S) = Append(t, x)
        BY <1>2 DEF AppendIf
    <2> QED
        BY <2>1, <2>2, AppendProperties
<1> HIDE DEF P
<1>3. Seq(X) \subseteq P
    BY <1>1, <1>2, SeqInduction
<1> QED
    BY <1>3 DEF P

LEMMA OnlyNone ==
    ASSUME NEW X, NEW S, X \cap S = {}, NEW seq \in Seq(X)
    PROVE  Only(seq, S) = << >>
<1> DEFINE P == {t \in Seq(X) : Only(t, S) = << >>}
<1>1. << >> \in P
    BY OnlyEmpty, EmptySeq
<1>2. ASSUME NEW t \in Seq(X), NEW x \in X, t \in P PROVE Append(t, x) \in P
    <2>1. Only(Append(t, x), S) = AppendIf(Only(t, S), x, S)
        BY OnlyAppend
    <2>2. AppendIf(Only(t, S), x, S) = << >>
        BY <1>2 DEF AppendIf
    <2> QED
        BY <2>1, <2>2, AppendProperties
<1> HIDE DEF P
<1>3. Seq(X) \subseteq P
    BY <1>1, <1>2, SeqInduction
<1> QED
    BY <1>3 DEF P

LEMMA ConcatAppend ==
    ASSUME NEW X, NEW s \in Seq(X), NEW t \in Seq(X), NEW x \in X
    PROVE  s \o Append(t, x) = Append(s \o t, x)
<1>1. <<x>> \in Seq(X) /\ s \o t \in Seq(X)
    OBVIOUS
<1>2. Append(t, x) = t \o <<x>> /\ Append(s \o t, x) = (s \o t) \o <<x>>
    BY <1>1, AppendIsConcat
<1>3. s \o (t \o <<x>>) = (s \o t) \o <<x>>
    BY <1>1, ConcatAssociative
<1> QED
    BY <1>2, <1>3

\* Only of two sequences one after the other.
LEMMA OnlyConcat ==
    ASSUME NEW X, NEW S, NEW s \in Seq(X), NEW t \in Seq(X)
    PROVE  Only(s \o t, S) = Only(s, S) \o Only(t, S)
<1> DEFINE P == {u \in Seq(X) : Only(s \o u, S) = Only(s, S) \o Only(u, S)}
<1>1. << >> \in P
    <2>1. s \o << >> = s /\ Only(s, S) \o << >> = Only(s, S)
        BY OnlyAppend, OnlyType, ConcatEmptySeq
    <2> QED
        BY <2>1, OnlyEmpty, EmptySeq
<1>2. ASSUME NEW u \in Seq(X), NEW x \in X, u \in P PROVE Append(u, x) \in P
    <2>1. Only(Append(u, x), S) = AppendIf(Only(u, S), x, S)
        BY OnlyAppend
    <2>2. s \o Append(u, x) = Append(s \o u, x) /\ s \o u \in Seq(X)
        BY AppendIsConcat, ConcatAssociative, ConcatProperties
    <2>3. Only(s \o Append(u, x), S) = AppendIf(Only(s, S) \o Only(u, S), x, S)
        <3>1. PICK v \in Seq(X) : v = s \o u
            BY <2>2
        <3>2. Only(Append(v, x), S) = AppendIf(Only(v, S), x, S)
            BY OnlyAppend
        <3> QED
            BY <1>2, <2>2, <3>1, <3>2
    <2>4. AppendIf(Only(s, S) \o Only(u, S), x, S) = Only(s, S) \o AppendIf(Only(u, S), x, S)
        <3>1. Only(s, S) \in Seq(X \cap S) /\ Only(u, S) \in Seq(X \cap S)
            BY OnlyType
        <3>2. PICK Y, p, q : Y = X \cap S /\ p = Only(s, S) /\ q = Only(u, S)
            OBVIOUS
        <3>3. p \in Seq(X) /\ q \in Seq(X)
            BY <3>2, OnlyAppend
        <3>4. p \o Append(q, x) = Append(p \o q, x)
            <4> HIDE DEF P
            <4> QED
                BY <3>3, ConcatAppend
        <3> QED
            BY <3>2, <3>4 DEF AppendIf
    <2> QED
        BY <2>1, <2>3, <2>4, AppendProperties
<1> HIDE DEF P
<1>3. Seq(X) \subseteq P
    BY <1>1, <1>2, SeqInduction
<1> QED
    BY <1>3 DEF P

\* A turn looks at the values before its own.
LooksBack(step, n, T) ==
    /\ step \in [[0..n -> T] \X (0..n) -> T]
    /\ \A g, h \in [0..n -> T], k \in 0..n :
          (\A j \in 0..(k - 1) : g[j] = h[j]) => step[<<g, k>>] = step[<<h, k>>]

IsCourse(f, n, T, step) ==
    /\ f \in [0..n -> T]
    /\ \A k \in 0..n : f[k] = step[<<f, k>>]

\* A function each value of which is made of the values before it.
LEMMA CourseExists ==
    ASSUME NEW n \in Nat, NEW T, NEW t \in T, NEW step, LooksBack(step, n, T)
    PROVE  \E f : IsCourse(f, n, T, step)
<1> DEFINE S == {m \in 0..n : \E f \in [0..n -> T] : \A k \in 0..m : f[k] = step[<<f, k>>]}
<1>1. ASSUME NEW f \in [0..n -> T], NEW m \in 0..n,
             \A k \in 0..(m - 1) : f[k] = step[<<f, k>>]
      PROVE  \E g \in [0..n -> T] : \A k \in 0..m : g[k] = step[<<g, k>>]
    <2>1. PICK y \in T : y = step[<<f, m>>]
        BY DEF LooksBack
    <2>2. PICK g \in [0..n -> T] : g[m] = y /\ \A k \in 0..n : k # m => g[k] = f[k]
        <3>1. /\ [f EXCEPT ![m] = y] \in [0..n -> T]
              /\ [f EXCEPT ![m] = y][m] = y
              /\ \A k \in 0..n : k # m => [f EXCEPT ![m] = y][k] = f[k]
            OBVIOUS
        <3> QED
            BY <3>1
    <2>3. ASSUME NEW k \in 0..m PROVE g[k] = step[<<g, k>>]
        <3>1. k \in 0..n /\ \A j \in 0..(k - 1) : j \in 0..n /\ j # m
            OBVIOUS
        <3>2. \A j \in 0..(k - 1) : f[j] = g[j]
            BY <2>2, <3>1
        <3>3. step[<<f, k>>] = step[<<g, k>>]
            BY <3>1, <3>2 DEF LooksBack
        <3>4. CASE k = m
            BY <2>1, <2>2, <3>3, <3>4
        <3>5. CASE k # m
            <4>1. k \in 0..(m - 1)
                BY <3>5
            <4> QED
                BY <1>1, <2>2, <3>1, <3>3, <3>5, <4>1
        <3> QED
            BY <3>4, <3>5
    <2> QED
        BY <2>3
<1>2. 0 \in S
    <2>1. PICK f \in [0..n -> T] : f = [k \in 0..n |-> t]
        OBVIOUS
    <2>2. \A k \in 0..(0 - 1) : f[k] = step[<<f, k>>]
        OBVIOUS
    <2>4. 0 \in 0..n
        OBVIOUS
    <2>3. \E g \in [0..n -> T] : \A k \in 0..0 : g[k] = step[<<g, k>>]
        BY ONLY <1>1, <2>2, <2>4, f \in [0..n -> T]
    <2> QED
        BY <2>3, <2>4
<1>3. ASSUME NEW m \in 0..(n - 1), m \in S PROVE m + 1 \in S
    <2>1. PICK l \in 0..n : l = m + 1 /\ l - 1 = m
        OBVIOUS
    <2>2. PICK f \in [0..n -> T] : \A k \in 0..m : f[k] = step[<<f, k>>]
        BY <1>3
    <2>3. \A k \in 0..(l - 1) : f[k] = step[<<f, k>>]
        BY <2>1, <2>2
    <2>4. \E g \in [0..n -> T] : \A k \in 0..l : g[k] = step[<<g, k>>]
        BY ONLY <1>1, <2>3, l \in 0..n, f \in [0..n -> T]
    <2> QED
        BY <2>1, <2>4
<1>4. 0..n \subseteq S
    <2> HIDE DEF S
    <2> QED
        BY <1>2, <1>3, UpTo
<1>5. n \in 0..n
    OBVIOUS
<1>6. n \in S
    BY ONLY <1>4, <1>5
<1>7. PICK f \in [0..n -> T] : \A k \in 0..n : f[k] = step[<<f, k>>]
    BY <1>6
<1> QED
    BY <1>7 DEF IsCourse
=============================================================================

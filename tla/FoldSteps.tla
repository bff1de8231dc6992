----------------------------- MODULE FoldSteps -----------------------------
(***************************************************************************)
(* What FoldLeft makes of a sequence, for any operator: nothing of the     *)
(* empty one, and one step more of one element more.  An operator is given *)
(* by an INSTANCE, since the provers cannot instantiate a lemma about one; *)
(* so that an instance stays small, the module takes only the modules that *)
(* Fold needs, and induction, which a module with an instance proves, as a *)
(* hypothesis.                                                             *)
(***************************************************************************)
EXTENDS Folds, Integers, Sequences

CONSTANTS Op(_, _), Base

Greatest(T) == CHOOSE x \in T : \A y \in T : x >= y

\* FoldLeft of SequencesExt.
Fold(s) ==
    MapThenFoldSet(LAMBDA x, y : Op(y, x), Base, LAMBDA i : s[i],
                   LAMBDA T : Greatest(T), DOMAIN s)

\* Induction over the natural numbers, which every instance discharges.
Induction ==
    \A S : (0 \in S /\ \A n \in Nat : n \in S => n + 1 \in S) => \A n \in Nat : n \in S

\* The function by which FoldLeft takes in the first m elements of e.
Folds(e, m, h) ==
    h = [T \in SUBSET (1 .. m) |->
            IF T = {} THEN Base
            ELSE Op(h[T \ {Greatest(T)}], e[Greatest(T)])]

\* The greatest index is the last.
LEMMA MaxIs ==
    ASSUME NEW m \in Nat, NEW T \in SUBSET (1 .. m + 1), m + 1 \in T
    PROVE  Greatest(T) = m + 1
<1>1. \A y \in T : m + 1 >= y
  OBVIOUS
<1>2. \A x \in T : (\A y \in T : x >= y) => x = m + 1
  <2> TAKE x \in T
  <2> HAVE \A y \in T : x >= y
  <2>1. x >= m + 1 /\ x \in 1 .. m + 1
    OBVIOUS
  <2> QED BY <2>1
<1> QED BY <1>1, <1>2 DEF Greatest

\* There is one, built one element at a time.
LEMMA FoldsExist ==
    ASSUME Induction, NEW e
    PROVE  \A m \in Nat : \E h : Folds(e, m, h)
<1> DEFINE S == {m \in Nat : \E h : Folds(e, m, h)}
<1>1. 0 \in S
  <2> DEFINE h == [T \in {{}} |-> Base]
  <2>1. SUBSET (1 .. 0) = {{}}
    OBVIOUS
  <2>2. Folds(e, 0, h)
    BY <2>1 DEF Folds
  <2> QED BY <2>2
<1>2. ASSUME NEW m \in Nat, m \in S PROVE m + 1 \in S
  <2>1. PICK g : Folds(e, m, g)
    BY <1>2
  <2> DEFINE h == [T \in SUBSET (1 .. m + 1) |->
                      IF m + 1 \in T THEN Op(g[T \ {m + 1}], e[m + 1]) ELSE g[T]]
  <2>2. ASSUME NEW T \in SUBSET (1 .. m + 1)
        PROVE  h[T] = IF T = {} THEN Base
                      ELSE Op(h[T \ {Greatest(T)}], e[Greatest(T)])
    <3>1. CASE m + 1 \in T
      <4>1. Greatest(T) = m + 1
        BY <3>1, MaxIs
      <4>2. h[T] = Op(g[T \ {m + 1}], e[m + 1]) /\ T # {}
        BY <3>1
      <4>3. h[T \ {m + 1}] = g[T \ {m + 1}]
        OBVIOUS
      <4> QED BY <4>1, <4>2, <4>3
    <3>2. CASE m + 1 \notin T
      <4>1. T \in SUBSET (1 .. m) /\ h[T] = g[T]
        BY <3>2
      <4> DEFINE x == Greatest(T)
      <4>2. h[T \ {x}] = g[T \ {x}]
        BY <3>2
      <4>3. g[T] = IF T = {} THEN Base ELSE Op(g[T \ {x}], e[x])
        BY <2>1, <4>1 DEF Folds
      <4> QED BY <4>1, <4>2, <4>3
    <3> QED BY <3>1, <3>2
  <2>3. h = [T \in SUBSET (1 .. m + 1) |-> h[T]]
    OBVIOUS
  <2> HIDE DEF h
  <2>4. Folds(e, m + 1, h)
    BY <2>2, <2>3 DEF Folds
  <2> QED BY <2>4
<1> HIDE DEF S
<1>3. \A m \in Nat : m \in S
  BY <1>1, <1>2, Induction DEF Induction
<1> QED BY <1>3 DEF S

\* It is what FoldLeft computes.
LEMMA FoldIs ==
    ASSUME Induction, NEW S, NEW e \in Seq(S)
    PROVE  \E h : Folds(e, Len(e), h) /\ Fold(e) = h[1 .. Len(e)]
<1> DEFINE h == CHOOSE g : Folds(e, Len(e), g)
<1>1. Folds(e, Len(e), h)
  BY FoldsExist
<1>2. DOMAIN e = 1 .. Len(e)
  OBVIOUS
<1>3. Fold(e) = h[1 .. Len(e)]
  BY <1>2 DEF Fold, MapThenFoldSet, Folds, Greatest
<1> QED BY <1>1, <1>3

\* It is taken one element at a time.
LEMMA StepByStep ==
    ASSUME NEW e, NEW m \in Nat, NEW h, Folds(e, m, h)
    PROVE  /\ h[1 .. 0] = Base
           /\ \A k \in Nat : k + 1 <= m => h[1 .. k + 1] = Op(h[1 .. k], e[k + 1])
<1>1. h[1 .. 0] = Base
  <2>1. 1 .. 0 = {} /\ {} \in SUBSET (1 .. m)
    OBVIOUS
  <2> QED BY <2>1 DEF Folds
<1>2. ASSUME NEW k \in Nat, k + 1 <= m
      PROVE  h[1 .. k + 1] = Op(h[1 .. k], e[k + 1])
  <2> DEFINE T == 1 .. k + 1
  <2>1. T \in SUBSET (1 .. m) /\ T # {} /\ T \ {k + 1} = 1 .. k /\ k + 1 \in T
    BY <1>2
  <2>2. Greatest(T) = k + 1
    BY <2>1, MaxIs
  <2> HIDE DEF T
  <2>3. h[T] = Op(h[T \ {Greatest(T)}], e[Greatest(T)])
    BY <2>1 DEF Folds
  <2> QED BY <2>1, <2>2, <2>3 DEF T
<1> QED BY <1>1, <1>2

\* One more element is one more step.
LEMMA FoldMore ==
    ASSUME Induction, NEW S, NEW s \in Seq(S), NEW e \in S
    PROVE  Fold(Append(s, e)) = Op(Fold(s), e)
<1> DEFINE t == Append(s, e)
           n == Len(s)
<1>1. /\ t \in Seq(S) /\ Len(t) = n + 1 /\ n \in Nat /\ t[n + 1] = e
      /\ \A k \in 1 .. n : t[k] = s[k]
  OBVIOUS
<1> HIDE DEF t
<1>2. PICK f : Folds(s, n, f) /\ Fold(s) = f[1 .. n]
  BY FoldIs
<1>3. PICK g : Folds(t, n + 1, g) /\ Fold(t) = g[1 .. n + 1]
  BY <1>1, FoldIs
<1>4. /\ f[1 .. 0] = Base
      /\ \A k \in Nat : k + 1 <= n => f[1 .. k + 1] = Op(f[1 .. k], s[k + 1])
  BY <1>1, <1>2, StepByStep
<1>5. /\ g[1 .. 0] = Base
      /\ \A k \in Nat : k + 1 <= n + 1 => g[1 .. k + 1] = Op(g[1 .. k], t[k + 1])
  <2>1. n + 1 \in Nat
    BY <1>1
  <2> QED BY <1>3, <2>1, StepByStep
<1> DEFINE R == {k \in Nat : k <= n => f[1 .. k] = g[1 .. k]}
<1>6. 0 \in R
  BY <1>4, <1>5
<1>7. ASSUME NEW k \in Nat, k \in R PROVE k + 1 \in R
  <2> SUFFICES ASSUME k + 1 <= n PROVE f[1 .. k + 1] = g[1 .. k + 1]
    OBVIOUS
  <2>1. k <= n /\ k + 1 \in 1 .. n /\ k + 1 <= n + 1
    BY <1>1
  <2>2. f[1 .. k] = g[1 .. k] /\ t[k + 1] = s[k + 1]
    BY <1>1, <1>7, <2>1
  <2>3. f[1 .. k + 1] = Op(f[1 .. k], s[k + 1])
    BY <1>4
  <2>4. g[1 .. k + 1] = Op(g[1 .. k], t[k + 1])
    BY <1>5, <2>1
  <2> QED BY <2>2, <2>3, <2>4
<1>8. \A k \in Nat : k \in R
  <2> HIDE DEF R
  <2> QED BY <1>6, <1>7, Induction DEF Induction
<1>9. f[1 .. n] = g[1 .. n]
  BY <1>1, <1>8
<1>10. g[1 .. n + 1] = Op(g[1 .. n], e)
  BY <1>1, <1>5
<1> QED BY <1>2, <1>3, <1>9, <1>10 DEF t

\* No element is no step.
LEMMA FoldNone == Induction => Fold(<<>>) = Base
<1> HAVE Induction
<1>1. <<>> \in Seq({}) /\ Len(<<>>) = 0
  OBVIOUS
<1>2. PICK h : Folds(<<>>, 0, h) /\ Fold(<<>>) = h[1 .. 0]
  BY <1>1, FoldIs
<1> QED BY <1>2, StepByStep

\* What every step keeps, the fold has.
LEMMA FoldIn ==
    ASSUME Induction, NEW S, NEW A, Base \in A, \A a \in A, e \in S : Op(a, e) \in A
    PROVE  \A s \in Seq(S) : Fold(s) \in A
<1> DEFINE R == {n \in Nat : \A s \in Seq(S) : Len(s) = n => Fold(s) \in A}
<1>1. 0 \in R
  <2> SUFFICES ASSUME NEW s \in Seq(S), Len(s) = 0 PROVE Fold(s) \in A
    OBVIOUS
  <2>1. s = <<>>
    OBVIOUS
  <2> QED BY <2>1, FoldNone
<1>2. ASSUME NEW n \in Nat, n \in R PROVE n + 1 \in R
  <2> SUFFICES ASSUME NEW s \in Seq(S), Len(s) = n + 1 PROVE Fold(s) \in A
    OBVIOUS
  <2> DEFINE t == SubSeq(s, 1, n)
  <2>1. /\ t \in Seq(S) /\ Len(t) = n /\ s[n + 1] \in S
        /\ s = Append(t, s[n + 1])
    OBVIOUS
  <2>2. Fold(t) \in A
    BY <1>2, <2>1
  <2> HIDE DEF t
  <2>3. Fold(Append(t, s[n + 1])) = Op(Fold(t), s[n + 1])
    BY <2>1, FoldMore
  <2> QED BY <2>1, <2>2, <2>3
<1> HIDE DEF R
<1>3. \A n \in Nat : n \in R
  BY <1>1, <1>2, Induction DEF Induction
<1> QED BY <1>3 DEF R
=============================================================================

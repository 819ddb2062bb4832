------------------------ MODULE DispatchEngineProofs ------------------------
(***************************************************************************)
(* Proofs about DispatchEngine, for answers and configurations of any      *)
(* size.  The segmentation is made of folds: an operator of the library    *)
(* that is a recursive function is shown to have a value, then what it has *)
(* after each word is shown by induction (SetInduction of DataFacts).      *)
(***************************************************************************)
EXTENDS DispatchEngine, DataFacts, SequenceTheorems, FiniteSetTheorems

-----------------------------------------------------------------------------
(* Cancellation *)

(* A part that is on its way when the context is cancelled was checked      *)
(* before: from any other place the loop meets the cancellation first.      *)
LateInv ==
    /\ \E S : posted \in Seq(S)
    /\ before \in Nat
    /\ cancelled =>
         /\ Len(posted) <= before + 1
         /\ pc \in {"segment", "send"} => Len(posted) = before

\* What appending to a sequence gives.
LEMMA AppendFacts ==
    ASSUME NEW S, NEW s \in Seq(S), NEW x
    PROVE  /\ Append(s, x) \in Seq(S \cup {x})
           /\ Len(Append(s, x)) = Len(s) + 1
           /\ Len(s) \in Nat
  <1>1. s \in Seq(S \cup {x})
    OBVIOUS
  <1> QED
    BY <1>1

\* Every step keeps the invariant.
LEMMA LateInvNext == LateInv /\ [Next]_vars => LateInv'
  <1> SUFFICES ASSUME LateInv, [Next]_vars PROVE LateInv'
    OBVIOUS
  <1>1. PICK S : posted \in Seq(S)
    BY DEF LateInv
  <1>2. Len(posted) \in Nat
    BY <1>1
  <1>3. CASE Segment \/ Check \/ Waited \/ Returned \/ UNCHANGED vars
    <2>1. UNCHANGED <<posted, before, cancelled>>
      BY <1>3 DEF Segment, Check, Waited, Returned, vars
    <2>2. cancelled /\ pc' \in {"segment", "send"} => pc = pc'
      BY <1>3 DEF Segment, Check, Waited, Returned, vars
    <2> QED
      BY <2>1, <2>2 DEF LateInv
  <1>4. CASE Sent \/ SendFails
    <2>1. /\ pc = "send" /\ pc' \notin {"segment", "send"}
          /\ UNCHANGED <<before, cancelled>>
      BY <1>4 DEF Sent, SendFails
    <2>2. \/ UNCHANGED posted
          \/ posted' = Append(posted, parts[Len(posted) + 1])
      BY <1>4 DEF Sent, SendFails
    <2>3. \E T : posted' \in Seq(T)
      <3>1. CASE UNCHANGED posted
        BY <1>1, <3>1
      <3>2. CASE posted' = Append(posted, parts[Len(posted) + 1])
        <4>1. posted' \in Seq(S \cup {parts[Len(posted) + 1]})
          BY <1>1, <3>2, AppendFacts
        <4> QED
          BY <4>1
      <3> QED
        BY <2>2, <3>1, <3>2
    <2>4. Len(posted') \in {Len(posted), Len(posted) + 1}
      BY <1>1, <2>2, AppendFacts
    <2> QED
      BY <1>2, <2>1, <2>3, <2>4 DEF LateInv
  <1>5. CASE CancelContext
    BY <1>1, <1>2, <1>5 DEF CancelContext, LateInv
  <1> QED
    BY <1>3, <1>4, <1>5 DEF Next

(* Once the pipeline's context is cancelled, at most the part that had     *)
(* passed the check of Dispatch still reaches the contact.                 *)
THEOREM AtMostOnePartLateHolds == Spec => []AtMostOnePartLate
  <1>1. Init => LateInv
    <2> SUFFICES ASSUME Init PROVE LateInv
      OBVIOUS
    <2>1. posted = <<>> /\ before = 0 /\ cancelled = FALSE
      BY DEF Init
    <2>2. posted \in Seq({})
      BY <2>1
    <2> QED
      BY <2>1, <2>2 DEF LateInv
  <1>2. LateInv /\ [Next]_vars => LateInv'
    BY LateInvNext
  <1>3. LateInv => AtMostOnePartLate
    BY DEF LateInv, AtMostOnePartLate
  <1> QED
    BY <1>1, <1>2, <1>3, PTL DEF Spec

-----------------------------------------------------------------------------
(* Folds *)

\* The last position of a set of positions.
LEMMA MaxFacts ==
    ASSUME NEW n \in Nat, NEW T \in SUBSET (1 .. n), T # {}
    PROVE  /\ Max(T) \in T
           /\ \A j \in T : j <= Max(T)
  <1>1. T \in SUBSET Nat /\ \A i \in T : i <= n
    OBVIOUS
  <1>2. \E i \in T : \A j \in T : j <= i
    BY <1>1, GreatestExists
  <1>3. \E i \in T : \A j \in T : i >= j
    BY <1>1, <1>2
  <1>. QED BY <1>1, <1>3 DEF Max

\* Its value, for a member that no other exceeds.
LEMMA MaxIs ==
    ASSUME NEW n \in Nat, NEW T \in SUBSET (1 .. n), NEW m \in T, \A j \in T : j <= m
    PROVE  Max(T) = m
  <1>1. T # {}
    OBVIOUS
  <1>2. Max(T) \in T /\ m <= Max(T)
    BY <1>1, MaxFacts
  <1>3. PICK x \in T : x = Max(T)
    BY <1>2
  <1>4. x <= m /\ m <= x /\ x \in 1 .. n /\ m \in 1 .. n
    BY <1>2, <1>3
  <1>. QED BY <1>3, <1>4

\* A fold from the left over n positions: base, and G of a position and the fold so far.
Iterates(g, base, G, n) ==
    g = [T \in SUBSET (1 .. n) |->
            IF T = {} THEN base ELSE G[<<Max(T), g[T \ {Max(T)}]>>]]

\* A fold over the positions is defined: there is a function that satisfies the recursion.
LEMMA FoldExists ==
    ASSUME NEW n \in Nat, NEW V, NEW base \in V, NEW G \in [(1 .. n) \X V -> V]
    PROVE  \E g \in [SUBSET (1 .. n) -> V] : Iterates(g, base, G, n)
  <1> DEFINE P(m) == \E g \in [SUBSET (1 .. m) -> V] : Iterates(g, base, G, m)
             M == {m \in Nat : m <= n => P(m)}
  <1>1. 0 \in M
    <2> DEFINE g == [T \in SUBSET (1 .. 0) |-> base]
    <2>1. SUBSET (1 .. 0) = {{}}
      OBVIOUS
    <2>2. g \in [SUBSET (1 .. 0) -> V] /\ Iterates(g, base, G, 0)
      BY <2>1 DEF Iterates
    <2> HIDE DEF g
    <2>3. P(0)
      BY <2>2
    <2> HIDE DEF P
    <2>. QED BY <2>3
  <1>2. ASSUME NEW m \in M
        PROVE  m + 1 \in M
    <2> HIDE DEF P
    <2> SUFFICES ASSUME m + 1 <= n PROVE P(m + 1)
      OBVIOUS
    <2>0. m \in Nat /\ P(m)
      OBVIOUS
    <2> USE DEF P
    <2>1. PICK g \in [SUBSET (1 .. m) -> V] : Iterates(g, base, G, m)
      BY <2>0
    <2> HIDE DEF P, M
    <2> DEFINE k == m + 1
               f == [T \in SUBSET (1 .. k) |->
                        IF k \in T THEN G[<<k, g[T \ {k}]>>] ELSE g[T]]
    <2>2. k \in 1 .. n /\ k \in Nat /\ m \in Nat /\ 1 .. m \subseteq 1 .. k /\ k \notin 1 .. m
      BY <2>0
    <2>3. \A T \in SUBSET (1 .. k) : /\ T \ {k} \in SUBSET (1 .. m)
                                     /\ k \notin T => T \in SUBSET (1 .. m)
      BY <2>0
    <2>4. f \in [SUBSET (1 .. k) -> V]
      BY <2>2, <2>3
    <2>5. \A T \in SUBSET (1 .. m) : T \in SUBSET (1 .. k) /\ f[T] = g[T]
      BY <2>2
    <2>6. ASSUME NEW T \in SUBSET (1 .. k)
          PROVE  f[T] = IF T = {} THEN base ELSE G[<<Max(T), f[T \ {Max(T)}]>>]
      <3>1. CASE k \in T
        <4>1. \A j \in T : j <= k
          BY <2>2
        <4>2. Max(T) = k
          BY <2>2, <3>1, <4>1, MaxIs
        <4>3. f[T \ {k}] = g[T \ {k}]
          BY <2>3, <2>5
        <4> HIDE DEF k
        <4>. QED BY <3>1, <4>2, <4>3
      <3>2. CASE k \notin T
        <4>1. T \in SUBSET (1 .. m) /\ f[T] = g[T]
          BY <2>3, <3>2
        <4>2. g[T] = IF T = {} THEN base ELSE G[<<Max(T), g[T \ {Max(T)}]>>]
          BY <2>1, <4>1 DEF Iterates
        <4>3. f[T \ {Max(T)}] = g[T \ {Max(T)}]
          BY <2>5, <4>1
        <4> HIDE DEF f, k
        <4>. QED BY <4>1, <4>2, <4>3
      <3>. QED BY <3>1, <3>2
    <2> HIDE DEF f, k
    <2>7. f = [T \in SUBSET (1 .. k) |-> f[T]]
      BY <2>4
    <2>8. Iterates(f, base, G, k)
      BY <2>6, <2>7 DEF Iterates
    <2>9. \E x \in [SUBSET (1 .. k) -> V] : Iterates(x, base, G, k)
      BY <2>4, <2>8
    <2>. QED BY <2>9 DEF k, P
  <1>3. n \in M
    <2> HIDE DEF P
    <2>1. M \in SUBSET Nat
      OBVIOUS
    <2> HIDE DEF M
    <2>. QED BY <1>1, <1>2, <2>1, SetInduction
  <1>4. P(n)
    <2> HIDE DEF P
    <2>. QED BY <1>3
  <1>. QED BY <1>4

\* What the folds of a prefix are: one step after that of the prefix before.
LEMMA FirstOnes ==
    ASSUME NEW n \in Nat, NEW i \in 1 .. n
    PROVE  /\ 1 .. i \in SUBSET (1 .. n) /\ 1 .. i # {}
           /\ Max(1 .. i) = i
           /\ (1 .. i) \ {i} = 1 .. i - 1
  <1>1. i \in 1 .. i /\ \A j \in 1 .. i : j <= i
    OBVIOUS
  <1>2. 1 .. i \in SUBSET (1 .. n)
    OBVIOUS
  <1>3. Max(1 .. i) = i
    BY <1>1, <1>2, MaxIs
  <1>. QED BY <1>1, <1>2, <1>3

-----------------------------------------------------------------------------
(* Runes *)

\* The runes of a part, word by word.
RuneSteps(text, part, h) ==
    /\ h[0] = Len(part) - 1
    /\ \A i \in 1 .. Len(part) : h[i] = h[i - 1] + text[part[i]]

\* Runes adds up the words of a part one after the other.
LEMMA RunesByWord ==
    ASSUME NEW text \in Seq(Nat), NEW part \in Seq(DOMAIN text)
    PROVE  \E h \in [0 .. Len(part) -> Int] :
              RuneSteps(text, part, h) /\ Runes(text, part) = h[Len(part)]
  <1> DEFINE n == Len(part)
             G == [x \in (1 .. n) \X Int |-> x[2] + text[part[x[1]]]]
             P(g) == g = [s \in SUBSET DOMAIN part |->
                             IF s = {} THEN Len(part) - 1
                             ELSE g[s \ {Max(s)}] + text[part[Max(s)]]]
             f == CHOOSE g : P(g)
  <1>1. n \in Nat /\ DOMAIN part = 1 .. n /\ \A i \in 1 .. n : text[part[i]] \in Int
    OBVIOUS
  <1>2. G \in [(1 .. n) \X Int -> Int] /\ Len(part) - 1 \in Int
    BY <1>1
  <1>3. PICK g \in [SUBSET (1 .. n) -> Int] : Iterates(g, Len(part) - 1, G, n)
    <2> HIDE DEF G, n
    <2>. QED BY <1>1, <1>2, FoldExists
  <1>4. ASSUME NEW s \in SUBSET (1 .. n), s # {}
        PROVE  G[<<Max(s), g[s \ {Max(s)}]>>] = g[s \ {Max(s)}] + text[part[Max(s)]]
    <2>1. Max(s) \in 1 .. n
      BY <1>1, <1>4, MaxFacts
    <2>2. g[s \ {Max(s)}] \in Int
      OBVIOUS
    <2>. QED BY <2>1, <2>2
  <1> HIDE DEF G
  <1>5. P(g)
    <2>1. g = [s \in SUBSET (1 .. n) |->
                  IF s = {} THEN Len(part) - 1 ELSE G[<<Max(s), g[s \ {Max(s)}]>>]]
      BY <1>3 DEF Iterates
    <2> HIDE DEF n
    <2>. QED BY <1>1, <1>4, <2>1
  <1>6. P(f)
    <2> HIDE DEF P
    <2>. QED BY <1>5
  <1>7. Runes(text, part) = f[DOMAIN part]
    BY DEF Runes, FoldLeft, MapThenFoldSet
  <1> HIDE DEF f
  <1>8. /\ f[{}] = n - 1
        /\ \A i \in 1 .. n : f[1 .. i] = f[1 .. i - 1] + text[part[i]]
    <2>1. {} \in SUBSET (1 .. n)
      OBVIOUS
    <2>2. \A i \in 1 .. n : /\ 1 .. i \in SUBSET (1 .. n) /\ 1 .. i # {}
                            /\ Max(1 .. i) = i /\ (1 .. i) \ {i} = 1 .. i - 1
      BY <1>1, FirstOnes
    <2> HIDE DEF n
    <2>3. f = [s \in SUBSET (1 .. n) |->
                  IF s = {} THEN Len(part) - 1 ELSE f[s \ {Max(s)}] + text[part[Max(s)]]]
      BY <1>1, <1>6
    <2>4. f[{}] = Len(part) - 1
      BY <2>1, <2>3
    <2>5. ASSUME NEW i \in 1 .. n
          PROVE  f[1 .. i] = f[1 .. i - 1] + text[part[i]]
      <3>1. /\ 1 .. i \in SUBSET (1 .. n) /\ 1 .. i # {}
            /\ Max(1 .. i) = i /\ (1 .. i) \ {i} = 1 .. i - 1
        BY <2>2
      <3>2. f[1 .. i] = f[(1 .. i) \ {Max(1 .. i)}] + text[part[Max(1 .. i)]]
        BY <2>3, <3>1
      <3>. QED BY <3>1, <3>2
    <2>. QED BY <2>4, <2>5 DEF n
  <1> DEFINE h == [i \in 0 .. n |-> f[1 .. i]]
             M == {i \in Nat : i <= n => f[1 .. i] \in Int}
  <1> HIDE DEF P
  <1>9. M = Nat
    <2>1. 0 \in M
      <3>1. 1 .. 0 = {}
        OBVIOUS
      <3>. QED BY <1>1, <1>8, <3>1
    <2>2. ASSUME NEW i \in M
          PROVE  i + 1 \in M
      <3>1. CASE i + 1 <= n
        <4>1. i \in Nat /\ i + 1 \in 1 .. n /\ i <= n /\ (i + 1) - 1 = i
          BY <1>1, <3>1
        <4>2. f[1 .. i + 1] = f[1 .. i] + text[part[i + 1]]
          BY <1>8, <4>1
        <4>3. f[1 .. i] \in Int /\ text[part[i + 1]] \in Int
          BY <1>1, <4>1
        <4>. QED BY <4>1, <4>2, <4>3, SMTT(30)
      <3>. QED BY <3>1
    <2>3. M \in SUBSET Nat
      OBVIOUS
    <2> HIDE DEF M
    <2>. QED BY <2>1, <2>2, <2>3, SetInduction
  <1>10. h \in [0 .. n -> Int]
    <2>1. \A i \in 0 .. n : i \in M /\ i <= n
      BY <1>1, <1>9
    <2>. QED BY <2>1
  <1>11. RuneSteps(text, part, h)
    <2>1. 0 \in 0 .. n /\ 1 .. 0 = {}
      BY <1>1
    <2>2. h[0] = n - 1
      BY <2>1, <1>8
    <2>3. ASSUME NEW i \in 1 .. n
          PROVE  h[i] = h[i - 1] + text[part[i]]
      <3>1. i \in 0 .. n /\ i - 1 \in 0 .. n
        BY <1>1
      <3>. QED BY <3>1, <1>8
    <2>. QED BY <2>2, <2>3 DEF RuneSteps
  <1>12. Runes(text, part) = h[n]
    BY <1>1, <1>7
  <1>. QED BY <1>10, <1>11, <1>12

\* The runes of the first words of an answer, each with a space after it.
Sums(text, R) ==
    /\ R \in [0 .. Len(text) -> Nat] /\ R[0] = 0
    /\ \A i \in 1 .. Len(text) : R[i] = R[i - 1] + text[i] + 1

\* Every answer has these sums.
LEMMA SumsExist ==
    ASSUME NEW text \in Seq(Nat)
    PROVE  \E R : Sums(text, R)
  <1> DEFINE n == Len(text)
             all == [k \in 1 .. n |-> k]
  <1>1. /\ n \in Nat /\ DOMAIN text = 1 .. n /\ all \in Seq(DOMAIN text) /\ Len(all) = n
        /\ \A i \in 1 .. n : all[i] = i /\ text[i] \in Nat
    OBVIOUS
  <1> HIDE DEF all, n
  <1>2. PICK h \in [0 .. n -> Int] : RuneSteps(text, all, h)
    BY <1>1, RunesByWord
  <1> DEFINE R == [i \in 0 .. n |-> h[i] - (n - 1) + i]
             M == {i \in Nat : i <= n => R[i] \in Nat}
  <1>3. R[0] = 0 /\ \A i \in 1 .. n : R[i] = R[i - 1] + text[i] + 1
    <2>1. h[0] = n - 1 /\ \A i \in 1 .. n : h[i] = h[i - 1] + text[i]
      BY <1>1, <1>2 DEF RuneSteps
    <2>2. \A i \in 0 .. n : h[i] \in Int
      OBVIOUS
    <2>3. R[0] = 0
      BY <1>1, <2>1
    <2>4. ASSUME NEW i \in 1 .. n
          PROVE  R[i] = R[i - 1] + text[i] + 1
      <3>1. i \in 0 .. n /\ i - 1 \in 0 .. n /\ text[i] \in Nat
        BY <1>1
      <3>2. PICK x \in Int, y \in Int, t \in Nat : x = h[i - 1] /\ y = h[i] /\ t = text[i]
        BY <2>2, <3>1
      <3>3. y = x + t
        BY <2>1, <3>2
      <3>4. R[i] = y - (n - 1) + i /\ R[i - 1] = x - (n - 1) + (i - 1)
        BY <3>1, <3>2
      <3>5. R[i] = R[i - 1] + t + 1
        BY <1>1, <3>3, <3>4
      <3>. QED BY <3>2, <3>5
    <2>. QED BY <2>3, <2>4
  <1> HIDE DEF R
  <1>4. M = Nat
    <2>1. 0 \in M
      BY <1>3
    <2>2. ASSUME NEW i \in M
          PROVE  i + 1 \in M
      <3>1. CASE i + 1 <= n
        <4>1. i \in Nat /\ i + 1 \in 1 .. n /\ i <= n /\ (i + 1) - 1 = i
          BY <1>1, <3>1
        <4>2. R[i + 1] = R[i] + text[i + 1] + 1 /\ text[i + 1] \in Nat /\ R[i] \in Nat
          BY <1>1, <1>3, <4>1
        <4>. QED BY <4>1, <4>2
      <3>. QED BY <3>1
    <2>3. M \in SUBSET Nat
      OBVIOUS
    <2> HIDE DEF M
    <2>. QED BY <2>1, <2>2, <2>3, SetInduction
  <1>5. R \in [0 .. n -> Nat]
    <2>1. \A i \in 0 .. n : R[i] \in Nat
      BY <1>1, <1>4
    <2>. QED BY <2>1 DEF R
  <1>6. Sums(text, R)
    BY <1>3, <1>5 DEF Sums, n
  <1>. QED BY <1>6

\* They grow.
LEMMA SumsGrow ==
    ASSUME NEW text \in Seq(Nat), NEW R, Sums(text, R),
           NEW a \in 0 .. Len(text), NEW b \in 0 .. Len(text), a <= b
    PROVE  R[a] <= R[b] /\ R[a] \in Nat /\ R[b] \in Nat
  <1> DEFINE n == Len(text)
             M == {i \in Nat : a <= i /\ i <= n => R[a] <= R[i]}
  <1>1. n \in Nat /\ a \in Nat /\ b \in Nat /\ b <= n /\ a <= n
    OBVIOUS
  <1>2. \A i \in 0 .. n : R[i] \in Nat
    BY DEF Sums
  <1>3. M = Nat
    <2>1. 0 \in M
      <3>1. a <= 0 => a = 0
        BY <1>1
      <3>. QED BY <1>1, <1>2, <3>1
    <2>2. ASSUME NEW i \in M
          PROVE  i + 1 \in M
      <3>1. CASE a <= i + 1 /\ i + 1 <= n
        <4>1. i \in Nat /\ i + 1 \in 1 .. n /\ i <= n /\ (i + 1) - 1 = i
          BY <1>1, <3>1
        <4>2. R[i + 1] = R[i] + text[i + 1] + 1 /\ text[i + 1] \in Nat
          BY <1>1, <4>1 DEF Sums
        <4>3. R[i] \in Nat /\ R[i + 1] \in Nat
          BY <1>1, <1>2, <4>1
        <4>4. CASE a = i + 1
          BY <4>1, <4>3, <4>4
        <4>5. CASE a <= i
          BY <4>1, <4>2, <4>3, <4>5, <1>1, <1>2
        <4>. QED BY <1>1, <3>1, <4>1, <4>4, <4>5
      <3>. QED BY <3>1
    <2>3. M \in SUBSET Nat
      OBVIOUS
    <2> HIDE DEF M
    <2>. QED BY <2>1, <2>2, <2>3, SetInduction
  <1>. QED BY <1>1, <1>2, <1>3

\* The words from position a + 1 to b.
Piece(a, b) == [k \in 1 .. b - a |-> a + k]

\* It is a sequence of positions.
LEMMA PieceFacts ==
    ASSUME NEW n \in Nat, NEW a \in 0 .. n, NEW b \in 0 .. n, a <= b
    PROVE  /\ Piece(a, b) \in Seq(1 .. n) /\ Piece(a, b) \in Seq(Nat)
           /\ Len(Piece(a, b)) = b - a
           /\ \A k \in 1 .. b - a : Piece(a, b)[k] = a + k
  <1>1. b - a \in Nat /\ \A k \in 1 .. b - a : a + k \in 1 .. n /\ a + k \in Nat
    OBVIOUS
  <1>2. Piece(a, b) \in [1 .. b - a -> 1 .. n] /\ Piece(a, b) \in [1 .. b - a -> Nat]
    BY <1>1 DEF Piece
  <1>. QED BY <1>1, <1>2 DEF Piece

\* The runes of a part are the difference of the sums, without the last space.
LEMMA RunesOfPiece ==
    ASSUME NEW text \in Seq(Nat), NEW R, Sums(text, R),
           NEW a \in 0 .. Len(text), NEW b \in 0 .. Len(text), a <= b
    PROVE  Runes(text, Piece(a, b)) = R[b] - R[a] - 1
  <1> DEFINE n == Len(text)
             p == Piece(a, b)
             d == b - a
  <1>1. /\ n \in Nat /\ DOMAIN text = 1 .. n /\ a \in Nat /\ b \in Nat /\ d \in Nat
        /\ b <= n /\ a <= n /\ a + d = b
        /\ \A i \in 1 .. n : text[i] \in Nat
    OBVIOUS
  <1>2. p \in Seq(1 .. n) /\ Len(p) = d /\ \A k \in 1 .. d : p[k] = a + k
    BY <1>1, PieceFacts
  <1> HIDE DEF p, n, d
  <1>3. PICK h \in [0 .. Len(p) -> Int] : RuneSteps(text, p, h) /\ Runes(text, p) = h[Len(p)]
    BY <1>1, <1>2, RunesByWord
  <1>4. h[0] = d - 1 /\ \A k \in 1 .. d : h[k] = h[k - 1] + text[a + k]
    BY <1>2, <1>3 DEF RuneSteps
  <1>5. \A i \in 0 .. n : R[i] \in Nat
    BY DEF Sums, n
  <1>6. \A i \in 1 .. n : R[i] = R[i - 1] + text[i] + 1
    BY DEF Sums, n
  <1> DEFINE M == {k \in Nat : k <= d => h[k] = R[a + k] - R[a] - 1 + (d - k)}
  <1>7. M = Nat
    <2>1. 0 \in M
      <3>1. a + 0 = a /\ a \in 0 .. n
        BY <1>1
      <3>. QED BY <1>1, <1>4, <1>5, <3>1
    <2>2. ASSUME NEW k \in M
          PROVE  k + 1 \in M
      <3>1. CASE k + 1 <= d
        <4>1. /\ k \in Nat /\ k + 1 \in 1 .. d /\ k <= d /\ (k + 1) - 1 = k
              /\ a + (k + 1) \in 1 .. n /\ a + (k + 1) - 1 = a + k /\ a + k \in 0 .. n
              /\ a + (k + 1) \in 0 .. n
          BY <1>1, <3>1
        <4>2. h[k + 1] = h[k] + text[a + (k + 1)]
          BY <1>4, <4>1
        <4>3. R[a + (k + 1)] = R[a + k] + text[a + (k + 1)] + 1
          BY <1>6, <4>1
        <4>4. h[k] = R[a + k] - R[a] - 1 + (d - k)
          BY <4>1
        <4>5. /\ R[a + k] \in Nat /\ R[a + (k + 1)] \in Nat /\ R[a] \in Nat
              /\ text[a + (k + 1)] \in Nat
          BY <1>1, <1>5, <4>1
        <4>6. h[k + 1] = R[a + (k + 1)] - R[a] - 1 + (d - (k + 1))
          <5>1. PICK x \in Nat, y \in Nat, z \in Nat, t \in Nat :
                   x = R[a] /\ y = R[a + k] /\ z = R[a + (k + 1)] /\ t = text[a + (k + 1)]
            BY <4>5
          <5>2. z = y + t + 1 /\ h[k] = y - x - 1 + (d - k) /\ h[k + 1] = h[k] + t
            BY <4>2, <4>3, <4>4, <5>1
          <5>3. h[k + 1] = z - x - 1 + (d - (k + 1))
            BY <1>1, <4>1, <5>2
          <5>. QED BY <5>1, <5>3
        <4>. QED BY <4>1, <4>6
      <3>. QED BY <3>1
    <2>3. M \in SUBSET Nat
      OBVIOUS
    <2> HIDE DEF M
    <2>. QED BY <2>1, <2>2, <2>3, SetInduction
  <1>8. h[d] = R[b] - R[a] - 1 + (d - d)
    <2>1. d \in M
      <3> HIDE DEF M
      <3>. QED BY <1>1, <1>7
    <2>2. d <= d /\ a + d = b
      BY <1>1
    <2>3. h[d] = R[a + d] - R[a] - 1 + (d - d)
      BY <2>1, <2>2
    <2>. QED BY <2>2, <2>3
  <1>9. R[b] \in Nat /\ R[a] \in Nat
    BY <1>1, <1>5
  <1>. QED BY <1>1, <1>2, <1>3, <1>8, <1>9 DEF p

-----------------------------------------------------------------------------
(* Pack *)

\* One word more: what the fold of Pack does.
PackOne(text, limit, ps, k) ==
    IF ps # <<>> /\ Runes(text, Last(ps)) + 1 + text[k] <= limit
    THEN Front(ps) \o << Append(Last(ps), k) >>
    ELSE Append(ps, <<k>>)

\* The last element of a sequence, and what is before it.
LEMMA LastFacts ==
    ASSUME NEW S, NEW s \in Seq(S), s # <<>>
    PROVE  /\ Last(s) \in S /\ Last(s) = s[Len(s)]
           /\ Front(s) \in Seq(S) /\ Len(s) \in Nat \ {0} /\ Len(Front(s)) = Len(s) - 1
           /\ \A i \in 1 .. Len(s) - 1 : Front(s)[i] = s[i]
  <1>1. Len(s) \in Nat /\ Len(s) # 0 /\ Len(s) \in 1 .. Len(s)
    OBVIOUS
  <1>2. Last(s) \in S /\ Last(s) = s[Len(s)]
    BY <1>1 DEF Last
  <1>3. /\ SubSeq(s, 1, Len(s) - 1) \in Seq(S)
        /\ Len(SubSeq(s, 1, Len(s) - 1)) = Len(s) - 1
        /\ \A i \in 1 .. Len(s) - 1 : SubSeq(s, 1, Len(s) - 1)[i] = s[i]
    <2> DEFINE m == Len(s) - 1
    <2>0. m \in Nat /\ \A i \in 1 .. m : i \in 1 .. Len(s)
      BY <1>1
    <2>1. /\ m \in Int /\ 1 \in Int /\ \A i \in 1 .. m : s[i] \in S
          /\ m = (IF 1 <= m THEN m - 1 + 1 ELSE 0) /\ m = m - 1 + 1
      <3>1. \A i \in 1 .. m : s[i] \in S
        BY <2>0
      <3> HIDE DEF m
      <3>. QED BY <2>0, <3>1
    <2> HIDE DEF m
    <2>2. /\ SubSeq(s, 1, m) \in Seq(S)
          /\ Len(SubSeq(s, 1, m)) = IF 1 <= m THEN m - 1 + 1 ELSE 0
          /\ \A i \in 1 .. m - 1 + 1 : SubSeq(s, 1, m)[i] = s[1 + i - 1]
      BY <2>1, SubSeqProperties
    <2>3. \A i \in 1 .. m : SubSeq(s, 1, m)[i] = s[i]
      BY <2>1, <2>2
    <2>. QED BY <2>1, <2>2, <2>3 DEF m
  <1>. QED BY <1>1, <1>2, <1>3 DEF Front

\* The last one is replaced.
LEMMA ReplaceLast ==
    ASSUME NEW S, NEW s \in Seq(S), s # <<>>, NEW e \in S
    PROVE  /\ Front(s) \o <<e>> \in Seq(S) /\ Len(Front(s) \o <<e>>) = Len(s)
           /\ \A i \in 1 .. Len(s) - 1 : (Front(s) \o <<e>>)[i] = s[i]
           /\ (Front(s) \o <<e>>)[Len(s)] = e
  <1> DEFINE f == Front(s)
  <1>1. /\ f \in Seq(S) /\ Len(s) \in Nat \ {0} /\ Len(f) = Len(s) - 1
        /\ \A i \in 1 .. Len(s) - 1 : f[i] = s[i]
    BY LastFacts
  <1>2. <<e>> \in Seq(S) /\ Len(<<e>>) = 1 /\ <<e>>[1] = e
    OBVIOUS
  <1> HIDE DEF f
  <1>3. /\ f \o <<e>> \in Seq(S) /\ Len(f \o <<e>>) = Len(s)
        /\ \A i \in 1 .. Len(s) - 1 : (f \o <<e>>)[i] = s[i]
        /\ (f \o <<e>>)[Len(s)] = e
    BY <1>1, <1>2
  <1>. QED BY <1>3 DEF f

\* The parts that Pack has after each word.
PackSteps(text, limit, h) ==
    /\ h[0] = <<>>
    /\ \A i \in 1 .. Len(text) : h[i] = PackOne(text, limit, h[i - 1], i)

\* Pack goes through the answer in these steps.
LEMMA PackByWord ==
    ASSUME NEW text \in Seq(Nat), NEW limit
    PROVE  \E h : PackSteps(text, limit, h) /\ Pack(text, limit) = h[Len(text)]
  <1> DEFINE n == Len(text)
             V == Seq(Seq(Nat))
             all == [k \in DOMAIN text |-> k]
             G == [x \in (1 .. n) \X V |-> PackOne(text, limit, x[2], x[1])]
             P(g) == g = [s \in SUBSET DOMAIN all |->
                             IF s = {} THEN <<>>
                             ELSE PackOne(text, limit, g[s \ {Max(s)}], all[Max(s)])]
             f == CHOOSE g : P(g)
  <1>1. /\ n \in Nat /\ DOMAIN text = 1 .. n /\ DOMAIN all = 1 .. n
        /\ \A i \in 1 .. n : all[i] = i /\ i \in Nat
    OBVIOUS
  <1>2. <<>> \in V /\ \A ps \in V, k \in 1 .. n : PackOne(text, limit, ps, k) \in V
    <2>1. <<>> \in V
      OBVIOUS
    <2>2. ASSUME NEW ps \in V, NEW k \in 1 .. n
          PROVE  PackOne(text, limit, ps, k) \in V
      <3>1. k \in Nat /\ <<k>> \in Seq(Nat) /\ Append(ps, <<k>>) \in V
        BY <1>1
      <3>2. ASSUME ps # <<>>
            PROVE  Front(ps) \o << Append(Last(ps), k) >> \in V
        <4>1. Last(ps) \in Seq(Nat)
          BY <3>2, LastFacts
        <4>2. Append(Last(ps), k) \in Seq(Nat)
          BY <3>1, <4>1
        <4>. QED BY <3>2, <4>2, ReplaceLast
      <3> HIDE DEF V
      <3>. QED BY <3>1, <3>2 DEF PackOne
    <2>. QED BY <2>1, <2>2
  <1> HIDE DEF V
  <1>3. G \in [(1 .. n) \X V -> V]
    BY <1>2
  <1>4. PICK g \in [SUBSET (1 .. n) -> V] : Iterates(g, <<>>, G, n)
    <2> HIDE DEF G, n
    <2>. QED BY <1>1, <1>2, <1>3, FoldExists
  <1>5. ASSUME NEW s \in SUBSET (1 .. n), s # {}
        PROVE  G[<<Max(s), g[s \ {Max(s)}]>>]
                  = PackOne(text, limit, g[s \ {Max(s)}], all[Max(s)])
    <2>1. Max(s) \in 1 .. n
      BY <1>1, <1>5, MaxFacts
    <2>2. g[s \ {Max(s)}] \in V
      OBVIOUS
    <2>3. all[Max(s)] = Max(s)
      BY <1>1, <2>1
    <2>. QED BY <2>1, <2>2, <2>3
  <1> HIDE DEF G, all
  <1>6. P(g)
    <2>1. g = [s \in SUBSET (1 .. n) |->
                  IF s = {} THEN <<>> ELSE G[<<Max(s), g[s \ {Max(s)}]>>]]
      BY <1>4 DEF Iterates
    <2> HIDE DEF n
    <2>. QED BY <1>1, <1>5, <2>1
  <1>7. P(f)
    <2> HIDE DEF P
    <2>. QED BY <1>6
  <1>8. Pack(text, limit) = f[DOMAIN all]
    BY DEF Pack, FoldLeft, MapThenFoldSet, PackOne, all
  <1> HIDE DEF f
  <1> DEFINE h == [i \in 0 .. n |-> f[1 .. i]]
  <1>9. /\ f[{}] = <<>>
        /\ \A i \in 1 .. n : f[1 .. i] = PackOne(text, limit, f[1 .. i - 1], i)
    <2>1. {} \in SUBSET (1 .. n)
      OBVIOUS
    <2>2. \A i \in 1 .. n : /\ 1 .. i \in SUBSET (1 .. n) /\ 1 .. i # {}
                            /\ Max(1 .. i) = i /\ (1 .. i) \ {i} = 1 .. i - 1
      BY <1>1, FirstOnes
    <2> HIDE DEF n
    <2>3. f = [s \in SUBSET (1 .. n) |->
                  IF s = {} THEN <<>> ELSE PackOne(text, limit, f[s \ {Max(s)}], all[Max(s)])]
      BY <1>1, <1>7
    <2>4. f[{}] = <<>>
      BY <2>1, <2>3
    <2>5. ASSUME NEW i \in 1 .. n
          PROVE  f[1 .. i] = PackOne(text, limit, f[1 .. i - 1], i)
      <3>1. /\ 1 .. i \in SUBSET (1 .. n) /\ 1 .. i # {}
            /\ Max(1 .. i) = i /\ (1 .. i) \ {i} = 1 .. i - 1
        BY <2>2
      <3>2. f[1 .. i] = PackOne(text, limit, f[(1 .. i) \ {Max(1 .. i)}], all[Max(1 .. i)])
        BY <2>3, <3>1
      <3>. QED BY <1>1, <3>1, <3>2
    <2>. QED BY <2>4, <2>5
  <1> HIDE DEF P
  <1>10. PackSteps(text, limit, h)
    <2>1. 0 \in 0 .. n /\ 1 .. 0 = {}
      BY <1>1
    <2>2. h[0] = <<>>
      BY <2>1, <1>9
    <2>3. ASSUME NEW i \in 1 .. n
          PROVE  h[i] = PackOne(text, limit, h[i - 1], i)
      <3>1. i \in 0 .. n /\ i - 1 \in 0 .. n
        BY <1>1
      <3>. QED BY <3>1, <1>9
    <2>. QED BY <2>2, <2>3 DEF PackSteps
  <1>11. Pack(text, limit) = h[n]
    BY <1>1, <1>8
  <1>. QED BY <1>10, <1>11

-----------------------------------------------------------------------------
(* MergeShort *)

\* One part more: what the fold of MergeShort does.
MergeOne(text, limit, minSize, ps, p) ==
    IF /\ ps # <<>> /\ Runes(text, p) < minSize
       /\ Runes(text, Last(ps)) + 1 + Runes(text, p) <= limit
    THEN Front(ps) \o << Last(ps) \o p >>
    ELSE Append(ps, p)

\* The parts that MergeShort has after each part of raw.
MergeSteps(text, limit, minSize, raw, h) ==
    /\ h[0] = <<>>
    /\ \A i \in 1 .. Len(raw) : h[i] = MergeOne(text, limit, minSize, h[i - 1], raw[i])

\* MergeShort goes through its parts in these steps.
LEMMA MergeByPart ==
    ASSUME NEW text, NEW limit, NEW minSize, NEW raw \in Seq(Seq(Nat)), minSize # 0,
           Len(raw) > 1
    PROVE  \E h : /\ MergeSteps(text, limit, minSize, raw, h)
                  /\ MergeShort(text, limit, minSize, raw) = h[Len(raw)]
  <1> DEFINE n == Len(raw)
             V == Seq(Seq(Nat))
             G == [x \in (1 .. n) \X V |-> MergeOne(text, limit, minSize, x[2], raw[x[1]])]
             P(g) == g = [s \in SUBSET DOMAIN raw |->
                             IF s = {} THEN <<>>
                             ELSE MergeOne(text, limit, minSize, g[s \ {Max(s)}], raw[Max(s)])]
             f == CHOOSE g : P(g)
  <1>0. ~(minSize = 0 \/ Len(raw) <= 1)
    OBVIOUS
  <1>1. /\ n \in Nat /\ DOMAIN raw = 1 .. n /\ \A i \in 1 .. n : raw[i] \in Seq(Nat)
    OBVIOUS
  <1>2. <<>> \in V /\ \A ps \in V, k \in 1 .. n : MergeOne(text, limit, minSize, ps, raw[k]) \in V
    <2>1. <<>> \in V
      OBVIOUS
    <2>2. ASSUME NEW ps \in V, NEW k \in 1 .. n
          PROVE  MergeOne(text, limit, minSize, ps, raw[k]) \in V
      <3>1. raw[k] \in Seq(Nat) /\ Append(ps, raw[k]) \in V
        BY <1>1
      <3>2. ASSUME ps # <<>>
            PROVE  Front(ps) \o << Last(ps) \o raw[k] >> \in V
        <4>1. Last(ps) \in Seq(Nat)
          BY <3>2, LastFacts
        <4>2. Last(ps) \o raw[k] \in Seq(Nat)
          BY <3>1, <4>1
        <4>. QED BY <3>2, <4>2, ReplaceLast
      <3> HIDE DEF V
      <3>. QED BY <3>1, <3>2 DEF MergeOne
    <2>. QED BY <2>1, <2>2
  <1> HIDE DEF V
  <1>3. G \in [(1 .. n) \X V -> V]
    BY <1>2
  <1>4. PICK g \in [SUBSET (1 .. n) -> V] : Iterates(g, <<>>, G, n)
    <2> HIDE DEF G, n
    <2>. QED BY <1>1, <1>2, <1>3, FoldExists
  <1>5. ASSUME NEW s \in SUBSET (1 .. n), s # {}
        PROVE  G[<<Max(s), g[s \ {Max(s)}]>>]
                  = MergeOne(text, limit, minSize, g[s \ {Max(s)}], raw[Max(s)])
    <2>1. Max(s) \in 1 .. n
      BY <1>1, <1>5, MaxFacts
    <2>2. g[s \ {Max(s)}] \in V
      OBVIOUS
    <2>. QED BY <2>1, <2>2
  <1> HIDE DEF G
  <1>6. P(g)
    <2>1. g = [s \in SUBSET (1 .. n) |->
                  IF s = {} THEN <<>> ELSE G[<<Max(s), g[s \ {Max(s)}]>>]]
      BY <1>4 DEF Iterates
    <2> HIDE DEF n
    <2>. QED BY <1>1, <1>5, <2>1
  <1>7. P(f)
    <2> HIDE DEF P
    <2>. QED BY <1>6
  <1>8. MergeShort(text, limit, minSize, raw) = f[DOMAIN raw]
    BY <1>0 DEF MergeShort, FoldLeft, MapThenFoldSet, MergeOne
  <1> HIDE DEF f
  <1> DEFINE h == [i \in 0 .. n |-> f[1 .. i]]
  <1>9. /\ f[{}] = <<>>
        /\ \A i \in 1 .. n : f[1 .. i] = MergeOne(text, limit, minSize, f[1 .. i - 1], raw[i])
    <2>1. {} \in SUBSET (1 .. n)
      OBVIOUS
    <2>2. \A i \in 1 .. n : /\ 1 .. i \in SUBSET (1 .. n) /\ 1 .. i # {}
                            /\ Max(1 .. i) = i /\ (1 .. i) \ {i} = 1 .. i - 1
      BY <1>1, FirstOnes
    <2> HIDE DEF n
    <2>3. f = [s \in SUBSET (1 .. n) |->
                  IF s = {} THEN <<>>
                  ELSE MergeOne(text, limit, minSize, f[s \ {Max(s)}], raw[Max(s)])]
      BY <1>1, <1>7
    <2>4. f[{}] = <<>>
      BY <2>1, <2>3
    <2>5. ASSUME NEW i \in 1 .. n
          PROVE  f[1 .. i] = MergeOne(text, limit, minSize, f[1 .. i - 1], raw[i])
      <3>1. /\ 1 .. i \in SUBSET (1 .. n) /\ 1 .. i # {}
            /\ Max(1 .. i) = i /\ (1 .. i) \ {i} = 1 .. i - 1
        BY <2>2
      <3>2. f[1 .. i] = MergeOne(text, limit, minSize,
                                 f[(1 .. i) \ {Max(1 .. i)}], raw[Max(1 .. i)])
        BY <2>3, <3>1
      <3>. QED BY <1>1, <3>1, <3>2
    <2>. QED BY <2>4, <2>5
  <1> HIDE DEF P
  <1>10. MergeSteps(text, limit, minSize, raw, h)
    <2>1. 0 \in 0 .. n /\ 1 .. 0 = {}
      BY <1>1
    <2>2. h[0] = <<>>
      BY <2>1, <1>9
    <2>3. ASSUME NEW i \in 1 .. n
          PROVE  h[i] = MergeOne(text, limit, minSize, h[i - 1], raw[i])
      <3>1. i \in 0 .. n /\ i - 1 \in 0 .. n
        BY <1>1
      <3>. QED BY <3>1, <1>9
    <2>. QED BY <2>2, <2>3 DEF MergeSteps
  <1>11. MergeShort(text, limit, minSize, raw) = h[n]
    BY <1>1, <1>8
  <1>. QED BY <1>10, <1>11

-----------------------------------------------------------------------------
(* Parts that follow one another *)

\* The parts ps are the first m words; the i-th part ends with word e[i].
Tiles(ps, e, m) ==
    /\ ps \in Seq(Seq(Nat)) /\ m \in Nat
    /\ e \in [0 .. Len(ps) -> 0 .. m] /\ e[0] = 0 /\ e[Len(ps)] = m
    /\ \A i \in 1 .. Len(ps) : e[i - 1] <= e[i] /\ ps[i] = Piece(e[i - 1], e[i])

\* Two pieces that follow one another are one.
LEMMA PieceJoins ==
    ASSUME NEW n \in Nat, NEW a \in 0 .. n, NEW b \in 0 .. n, NEW c \in 0 .. n, a <= b, b <= c
    PROVE  Piece(a, b) \o Piece(b, c) = Piece(a, c)
  <1> DEFINE p == Piece(a, b)
             q == Piece(b, c)
             r == Piece(a, c)
  <1>0. a \in Nat /\ b \in Nat /\ c \in Nat /\ a <= c
    OBVIOUS
  <1>1. /\ p \in Seq(Nat) /\ Len(p) = b - a /\ \A k \in 1 .. b - a : p[k] = a + k
        /\ q \in Seq(Nat) /\ Len(q) = c - b /\ \A k \in 1 .. c - b : q[k] = b + k
        /\ r \in Seq(Nat) /\ Len(r) = c - a /\ \A k \in 1 .. c - a : r[k] = a + k
    BY <1>0, PieceFacts
  <1> HIDE DEF p, q, r
  <1>2. p \o q \in Seq(Nat) /\ Len(p \o q) = c - a
    BY <1>0, <1>1
  <1>3. ASSUME NEW k \in 1 .. c - a
        PROVE  (p \o q)[k] = r[k]
    <2>1. (p \o q)[k] = IF k <= b - a THEN p[k] ELSE q[k - (b - a)]
      <3>1. p \in Seq(Nat) /\ q \in Seq(Nat) /\ Len(p) = b - a /\ Len(q) = c - b
        BY <1>1
      <3>2. k \in 1 .. Len(p) + Len(q)
        BY ONLY <1>0, <3>1
      <3>3. (p \o q)[k] = IF k <= Len(p) THEN p[k] ELSE q[k - Len(p)]
        BY ONLY <3>1, <3>2, ConcatProperties
      <3>. QED BY ONLY <3>1, <3>3
    <2>2. CASE k <= b - a
      BY <1>0, <1>1, <2>1, <2>2
    <2>3. CASE ~(k <= b - a)
      <3>1. k - (b - a) \in 1 .. c - b /\ b + (k - (b - a)) = a + k
        BY <1>0, <2>3
      <3>. QED BY <1>1, <2>1, <2>3, <3>1
    <2>. QED BY <2>2, <2>3
  <1>4. p \o q = r
    BY <1>1, <1>2, <1>3, SeqEqual
  <1>. QED BY <1>4 DEF p, q, r

\* A piece of one word.
LEMMA PieceOfOne ==
    ASSUME NEW k \in Nat \ {0}
    PROVE  Piece(k - 1, k) = <<k>>
  <1>1. k - (k - 1) = 1 /\ \A i \in 1 .. 1 : (k - 1) + i = k
    OBVIOUS
  <1>2. Piece(k - 1, k) = [i \in 1 .. 1 |-> k]
    BY <1>1 DEF Piece
  <1>. QED BY <1>2

\* A part more.
LEMMA TilesMore ==
    ASSUME NEW ps, NEW e, NEW m, Tiles(ps, e, m), NEW c \in Nat, m <= c
    PROVE  /\ Len(ps) \in Nat /\ Len(Append(ps, Piece(m, c))) = Len(ps) + 1
           /\ \E f : /\ Tiles(Append(ps, Piece(m, c)), f, c)
                     /\ f[Len(ps)] = m
  <1> DEFINE n == Len(ps)
             p == Piece(m, c)
             q == Append(ps, p)
             f == [i \in 0 .. n + 1 |-> IF i <= n THEN e[i] ELSE c]
  <1>0. /\ ps \in Seq(Seq(Nat)) /\ m \in Nat
        /\ e \in [0 .. n -> 0 .. m] /\ e[0] = 0 /\ e[n] = m
        /\ \A i \in 1 .. n : e[i - 1] <= e[i] /\ ps[i] = Piece(e[i - 1], e[i])
    BY Zenon DEF Tiles
  <1>1. /\ ps \in Seq(Seq(Nat)) /\ n \in Nat /\ m \in Nat
        /\ \A i \in 0 .. n : e[i] \in 0 .. m
        /\ e[0] = 0 /\ e[n] = m
        /\ \A i \in 1 .. n : e[i - 1] <= e[i] /\ ps[i] = Piece(e[i - 1], e[i])
    <2>1. n \in Nat
      BY <1>0
    <2> HIDE DEF n
    <2>. QED BY <1>0, <2>1
  <1>2. p \in Seq(Nat)
    <2>1. m \in 0 .. c /\ c \in 0 .. c
      BY <1>1
    <2>. QED BY <2>1, PieceFacts
  <1> HIDE DEF p
  <1>3. /\ q \in Seq(Seq(Nat)) /\ Len(q) = n + 1 /\ q[n + 1] = p
        /\ \A i \in 1 .. n : q[i] = ps[i]
    BY <1>1, <1>2
  <1> HIDE DEF n, q
  <1>4. /\ \A i \in 0 .. n : f[i] = e[i] /\ f[i] \in 0 .. c
        /\ f[n + 1] = c /\ f \in [0 .. n + 1 -> 0 .. c]
    <2>1. \A i \in 0 .. n : i \in 0 .. n + 1 /\ i <= n /\ e[i] \in 0 .. c
      BY <1>1
    <2>2. n + 1 \in 0 .. n + 1 /\ ~(n + 1 <= n) /\ c \in 0 .. c
      BY <1>1
    <2>3. \A i \in 0 .. n + 1 : i <= n => i \in 0 .. n
      BY <1>1
    <2>. QED BY <2>1, <2>2, <2>3
  <1> HIDE DEF f
  <1>5. ASSUME NEW i \in 1 .. n + 1
        PROVE  f[i - 1] <= f[i] /\ q[i] = Piece(f[i - 1], f[i])
    <2>1. CASE i = n + 1
      <3>1. i - 1 = n /\ n \in 0 .. n
        BY <1>1, <2>1
      <3>2. f[i - 1] = m /\ f[i] = c
        BY <1>1, <1>4, <2>1, <3>1
      <3>. QED BY <1>3, <2>1, <3>2 DEF p
    <2>2. CASE i # n + 1
      <3>1. i \in 1 .. n /\ i \in 0 .. n /\ i - 1 \in 0 .. n
        BY <1>1, <2>2
      <3>. QED BY <1>1, <1>3, <1>4, <3>1
    <2>. QED BY <2>1, <2>2
  <1>6. f[0] = 0 /\ f[n] = m
    BY <1>1, <1>4
  <1>7. Tiles(q, f, c)
    BY <1>3, <1>4, <1>5, <1>6 DEF Tiles
  <1>. QED BY <1>1, <1>3, <1>6, <1>7 DEF n, q, p

\* The last part with those of p.
LastWith(ps, p) == Front(ps) \o << Last(ps) \o p >>

\* The last part becomes longer.
LEMMA TilesLonger ==
    ASSUME NEW ps, NEW e, NEW m, Tiles(ps, e, m), NEW c \in Nat, m <= c, ps # <<>>
    PROVE  /\ Len(ps) \in Nat \ {0} /\ e[Len(ps) - 1] \in 0 .. m
           /\ Last(ps) = Piece(e[Len(ps) - 1], m)
           /\ Len(LastWith(ps, Piece(m, c))) = Len(ps)
           /\ \E f : /\ Tiles(LastWith(ps, Piece(m, c)), f, c)
                     /\ f[Len(ps) - 1] = e[Len(ps) - 1]
  <1> DEFINE n == Len(ps)
             a == e[n - 1]
             p == Last(ps) \o Piece(m, c)
             q == Front(ps) \o << p >>
             f == [e EXCEPT ![n] = c]
  <1>1. /\ ps \in Seq(Seq(Nat)) /\ n \in Nat \ {0} /\ m \in Nat
        /\ e \in [0 .. n -> 0 .. m] /\ e[0] = 0 /\ e[n] = m
        /\ \A i \in 1 .. n : e[i - 1] <= e[i] /\ ps[i] = Piece(e[i - 1], e[i])
    BY DEF Tiles
  <1>2. a \in 0 .. m /\ a <= m /\ n \in 1 .. n /\ n - 1 \in 0 .. n /\ n \in 0 .. n
    <2>1. n \in 1 .. n /\ n - 1 \in 0 .. n /\ n \in 0 .. n
      BY <1>1
    <2>2. a \in 0 .. m
      BY <1>1, <2>1
    <2> HIDE DEF a
    <2>. QED BY <1>1, <2>1, <2>2
  <1>3. Last(ps) = Piece(a, m)
    BY <1>1, <1>2 DEF Last
  <1>4. p = Piece(a, c) /\ p \in Seq(Nat)
    <2> HIDE DEF a, n
    <2>1. a \in 0 .. c /\ m \in 0 .. c /\ c \in 0 .. c /\ a <= c /\ a <= m
      BY <1>1, <1>2
    <2>2. Piece(a, m) \o Piece(m, c) = Piece(a, c)
      BY ONLY <2>1, c \in Nat, m <= c, PieceJoins
    <2>3. Piece(a, c) \in Seq(Nat)
      BY <2>1, PieceFacts
    <2>. QED BY <1>3, <2>2, <2>3
  <1> HIDE DEF p
  <1>5. /\ q \in Seq(Seq(Nat)) /\ Len(q) = n /\ q[n] = p
        /\ \A i \in 1 .. n - 1 : q[i] = ps[i]
    BY <1>1, <1>4, ReplaceLast, SMTT(30)
  <1> HIDE DEF q, n
  <1>6. /\ f \in [0 .. n -> 0 .. c] /\ f[n] = c /\ \A i \in 0 .. n : i # n => f[i] = e[i]
    <2>1. \A i \in 0 .. n : e[i] \in 0 .. c
      BY <1>1
    <2>. QED BY <1>1, <1>2, <2>1
  <1> HIDE DEF f
  <1>7. f[0] = 0 /\ f[n - 1] = a
    BY <1>1, <1>2, <1>6
  <1>8. ASSUME NEW i \in 1 .. n
        PROVE  f[i - 1] <= f[i] /\ q[i] = Piece(f[i - 1], f[i])
    <2>1. CASE i = n
      <3>1. f[i - 1] = a /\ f[i] = c /\ a <= c
        BY <1>1, <1>2, <1>6, <1>7, <2>1
      <3>. QED BY <1>4, <1>5, <2>1, <3>1
    <2>2. CASE i # n
      <3>1. i \in 1 .. n - 1 /\ i \in 0 .. n /\ i - 1 \in 0 .. n /\ i - 1 # n
        BY <1>1, <2>2
      <3>. QED BY <1>1, <1>5, <1>6, <2>2, <3>1
    <2>. QED BY <2>1, <2>2
  <1>9. Tiles(q, f, c)
    BY <1>5, <1>6, <1>7, <1>8 DEF Tiles
  <1>. QED BY <1>1, <1>2, <1>3, <1>5, <1>7, <1>9 DEF n, a, q, p, LastWith

\* The parts one after the other are the first m words, in order.
LEMMA TilesFlatten ==
    ASSUME NEW ps, NEW e, NEW m, Tiles(ps, e, m)
    PROVE  FlattenSeq(ps) = [k \in 1 .. m |-> k]
  <1> DEFINE n == Len(ps)
             P(g) == g = [i \in 1 .. n |-> IF i = 1 THEN ps[i] ELSE g[i - 1] \o ps[i]]
             f == CHOOSE g : P(g)
             all == [i \in 1 .. n |-> Piece(0, e[i])]
  <1>0. /\ ps \in Seq(Seq(Nat)) /\ m \in Nat
        /\ e \in [0 .. n -> 0 .. m] /\ e[0] = 0 /\ e[n] = m
        /\ \A i \in 1 .. n : e[i - 1] <= e[i] /\ ps[i] = Piece(e[i - 1], e[i])
    BY Zenon DEF Tiles
  <1>1. /\ ps \in Seq(Seq(Nat)) /\ n \in Nat /\ m \in Nat
        /\ \A i \in 0 .. n : e[i] \in 0 .. m
        /\ e[0] = 0 /\ e[n] = m
        /\ \A i \in 1 .. n : e[i - 1] <= e[i] /\ ps[i] = Piece(e[i - 1], e[i])
    <2>1. n \in Nat
      BY <1>0
    <2> HIDE DEF n
    <2>. QED BY <1>0, <2>1
  <1>2. Piece(0, m) = [k \in 1 .. m |-> k]
    BY <1>1 DEF Piece
  <1>3. CASE n = 0
    <2>1. m = 0 /\ ps = <<>> /\ FlattenSeq(ps) = ps
      BY <1>1, <1>3 DEF FlattenSeq
    <2>2. [k \in 1 .. 0 |-> k] = <<>>
      OBVIOUS
    <2>. QED BY <2>1, <2>2
  <1>4. CASE n # 0
    <2>1. FlattenSeq(ps) = f[n]
      BY <1>4 DEF FlattenSeq
    <2> HIDE DEF n
    <2>2. \A i \in 2 .. n : Piece(0, e[i - 1]) \o ps[i] = Piece(0, e[i])
      <3>1. TAKE i \in 2 .. n
      <3>2. i \in 1 .. n /\ i \in 0 .. n /\ i - 1 \in 0 .. n /\ 0 \in 0 .. m
        BY <1>1
      <3>3. e[i - 1] \in 0 .. m /\ e[i] \in 0 .. m /\ 0 <= e[i - 1] /\ e[i - 1] <= e[i]
        BY <1>1, <3>2
      <3>4. e[i - 1] \in Nat /\ e[i] \in Nat
        BY <1>1, <3>3
      <3>5. Piece(0, e[i - 1]) \o Piece(e[i - 1], e[i]) = Piece(0, e[i])
        BY <1>1, <3>2, <3>3, PieceJoins
      <3>6. ps[i] = Piece(e[i - 1], e[i])
        BY <1>1, <3>2
      <3>. QED BY <3>5, <3>6
    <2>3. P(all)
      <3>1. ASSUME NEW i \in 1 .. n
            PROVE  all[i] = IF i = 1 THEN ps[i] ELSE all[i - 1] \o ps[i]
        <4>1. CASE i = 1
          BY <1>1, <4>1
        <4>2. CASE i # 1
          <5>1. i \in 2 .. n /\ i - 1 \in 1 .. n
            BY <1>1, <4>2
          <5>. QED BY <2>2, <4>2, <5>1
        <4>. QED BY <4>1, <4>2
      <3>2. all = [i \in 1 .. n |-> all[i]]
        OBVIOUS
      <3> HIDE DEF all
      <3>. QED BY <3>1, <3>2
    <2>4. P(f)
      <3> HIDE DEF P
      <3>. QED BY <2>3
    <2> HIDE DEF f
    <2> DEFINE M == {i \in Nat : i + 1 <= n => f[i + 1] = Piece(0, e[i + 1])}
    <2>5. M = Nat
      <3>1. 0 \in M
        <4>1. 1 \in 1 .. n /\ 0 + 1 = 1 /\ 1 - 1 = 0
          BY <1>1, <1>4
        <4>2. f[1] = ps[1]
          BY <2>4, <4>1
        <4>. QED BY <1>1, <4>1, <4>2
      <3>2. ASSUME NEW i \in M
            PROVE  i + 1 \in M
        <4>0. i \in Nat /\ i + 1 \in Nat
          OBVIOUS
        <4>1. CASE (i + 1) + 1 <= n
          <5>1. PICK j \in 2 .. n : j = (i + 1) + 1
            BY <1>1, <4>0, <4>1
          <5>2. j \in 1 .. n /\ j # 1 /\ j - 1 = i + 1 /\ i + 1 <= n
            BY <1>1, <4>0, <5>1
          <5>3. f[j] = f[j - 1] \o ps[j]
            BY <2>4, <5>2
          <5>4. f[i + 1] = Piece(0, e[i + 1])
            BY <5>2
          <5>5. f[j] = Piece(0, e[j])
            BY <2>2, <5>2, <5>3, <5>4
          <5>. QED BY <4>0, <5>1, <5>5
        <4>. QED BY <4>0, <4>1
      <3>3. M \in SUBSET Nat
        OBVIOUS
      <3> HIDE DEF M
      <3>. QED BY <3>1, <3>2, <3>3, SetInduction
    <2>6. n - 1 \in M /\ (n - 1) + 1 = n /\ n <= n
      <3> HIDE DEF M
      <3>. QED BY <1>1, <1>4, <2>5
    <2>7. f[n] = Piece(0, e[n])
      BY <2>6
    <2>. QED BY <1>1, <1>2, <2>1, <2>7 DEF n
  <1>. QED BY <1>3, <1>4

\* No part at all.
LEMMA NoTiles == \E e : Tiles(<<>>, e, 0)
  <1> DEFINE e == [i \in 0 .. 0 |-> 0]
  <1>1. /\ e \in [0 .. 0 -> 0 .. 0] /\ e[0] = 0
        /\ <<>> \in Seq(Seq(Nat)) /\ Len(<<>>) = 0 /\ 1 .. 0 = {}
    OBVIOUS
  <1> HIDE DEF e
  <1>2. Tiles(<<>>, e, 0)
    BY <1>1 DEF Tiles
  <1>. QED BY <1>2

\* The answer as one part.
LEMMA OneTile ==
    ASSUME NEW n \in Nat
    PROVE  /\ Len(<< [k \in 1 .. n |-> k] >>) = 1
           /\ \E e : Tiles(<< [k \in 1 .. n |-> k] >>, e, n)
  <1>1. PICK e : Tiles(<<>>, e, 0)
    BY NoTiles
  <1>2. \E f : Tiles(Append(<<>>, Piece(0, n)), f, n)
    <2>1. 0 <= n
      OBVIOUS
    <2>. QED BY <1>1, <2>1, TilesMore, Zenon
  <1>3. Piece(0, n) = [k \in 1 .. n |-> k]
    BY DEF Piece
  <1>4. Append(<<>>, Piece(0, n)) = << Piece(0, n) >>
    OBVIOUS
  <1>. QED BY <1>2, <1>3, <1>4

-----------------------------------------------------------------------------
(* What Pack does *)

\* The parts q with word k, where the parts ps of the words up to m were.
Grown(R, limit, ps, e, m, k, q, f) ==
    IF ps # <<>> /\ R[k] - R[e[Len(ps) - 1]] - 1 <= limit
    THEN Len(q) = Len(ps) /\ f[Len(ps) - 1] = e[Len(ps) - 1]
    ELSE Len(q) = Len(ps) + 1 /\ f[Len(ps)] = m

\* One word more: it joins the last part exactly if the part then fits.
LEMMA PackStep ==
    ASSUME NEW text \in Seq(Nat), NEW limit \in Int, NEW R, Sums(text, R),
           NEW k \in 1 .. Len(text), NEW m \in Nat, k = m + 1,
           NEW ps, NEW e, Tiles(ps, e, m)
    PROVE  /\ Len(ps) \in Nat
           /\ ps # <<>> => Len(ps) # 0 /\ e[Len(ps) - 1] \in 0 .. m
           /\ ps = <<>> => Len(ps) = 0
           /\ \E f : /\ Tiles(PackOne(text, limit, ps, k), f, k)
                     /\ Grown(R, limit, ps, e, m, k, PackOne(text, limit, ps, k), f)
  <1> DEFINE n == Len(text)
             q == PackOne(text, limit, ps, k)
             b == e[Len(ps) - 1]
             long == Front(ps) \o << Append(Last(ps), k) >>
             more == Append(ps, <<k>>)
  <1>0. Len(ps) \in Nat /\ (ps = <<>> <=> Len(ps) = 0) /\ ps \in Seq(Seq(Nat))
    <2>1. ps \in Seq(Seq(Nat))
      BY DEF Tiles
    <2>. QED BY <2>1
  <1>1. n \in Nat /\ k \in Nat \ {0} /\ m \in Nat /\ m <= k /\ k \in 1 .. n
        /\ m \in 0 .. n /\ k \in 0 .. n /\ k - 1 = m
    OBVIOUS
  <1>2. Piece(m, k) = <<k>>
    BY <1>1, PieceOfOne
  <1>3. Len(more) = Len(ps) + 1 /\ \E f : Tiles(more, f, k) /\ f[Len(ps)] = m
    BY <1>1, <1>2, TilesMore, SMTT(30)
  <1>4. ASSUME ps # <<>>
        PROVE  /\ Len(ps) # 0 /\ b \in 0 .. m /\ Len(long) = Len(ps)
               /\ \E f : Tiles(long, f, k) /\ f[Len(ps) - 1] = b
               /\ Runes(text, Last(ps)) + 1 + text[k] = R[k] - R[b] - 1
    <2> DEFINE j == LastWith(ps, Piece(m, k))
    <2>1. /\ Len(j) = Len(ps) /\ b \in 0 .. m /\ Last(ps) = Piece(b, m)
          /\ \E f : Tiles(j, f, k) /\ f[Len(ps) - 1] = b
      <3>1. /\ Len(LastWith(ps, Piece(m, k))) = Len(ps)
            /\ e[Len(ps) - 1] \in 0 .. m /\ Last(ps) = Piece(e[Len(ps) - 1], m)
            /\ \E f : /\ Tiles(LastWith(ps, Piece(m, k)), f, k)
                      /\ f[Len(ps) - 1] = e[Len(ps) - 1]
        <4>1. k \in Nat /\ m <= k
          BY <1>1
        <4> HIDE DEF n, q, b, long, more, j
        <4>2. ps # <<>> /\ Tiles(ps, e, m)
          BY <1>4
        <4>. QED BY <4>1, <4>2, TilesLonger
      <3>. QED BY <3>1
    <2>2. Last(ps) \in Seq(Nat)
      BY <1>0, <1>4, LastFacts
    <2>3. Last(ps) \o <<k>> = Append(Last(ps), k)
      BY <1>1, <2>2
    <2>4. j = long
      BY <1>2, <2>3 DEF LastWith
    <2>5. Runes(text, Last(ps)) = R[m] - R[b] - 1
      <3>1. b \in 0 .. n /\ b <= m
        BY <1>1, <2>1
      <3> HIDE DEF b
      <3>. QED BY <1>1, <2>1, <3>1, RunesOfPiece
    <2>6. R[k] = R[m] + text[k] + 1
      BY <1>1 DEF Sums
    <2>7. R[m] \in Nat /\ R[b] \in Nat /\ text[k] \in Nat
      <3>1. b \in 0 .. n
        BY <1>1, <2>1
      <3>2. \A i \in 0 .. n : R[i] \in Nat
        BY DEF Sums
      <3> HIDE DEF b
      <3>3. text[k] \in Nat
        BY <1>1
      <3> HIDE DEF n
      <3>. QED BY <1>1, <3>1, <3>2, <3>3
    <2>8. Runes(text, Last(ps)) + 1 + text[k] = R[k] - R[b] - 1
      <3>1. PICK x \in Nat, y \in Nat, t \in Nat : x = R[m] /\ y = R[b] /\ t = text[k]
        BY <2>7
      <3> HIDE DEF b
      <3>2. PICK r \in Int, z \in Int : r = Runes(text, Last(ps)) /\ z = R[k]
        BY <2>5, <2>6, <3>1
      <3>3. r = x - y - 1 /\ z = x + t + 1
        BY <2>5, <2>6, <3>1, <3>2
      <3>4. r + 1 + t = z - y - 1
        BY <3>3
      <3>. QED BY <3>1, <3>2, <3>4
    <2> HIDE DEF j, long, b
    <2>. QED BY <1>0, <1>4, <2>1, <2>4, <2>8
  <1> HIDE DEF long, more, b
  <1>5. CASE ps # <<>> /\ R[k] - R[b] - 1 <= limit
    <2>1. q = long
      BY <1>4, <1>5 DEF PackOne, long
    <2> HIDE DEF q
    <2>2. \E f : Tiles(q, f, k) /\ Len(q) = Len(ps) /\ f[Len(ps) - 1] = b
      BY <1>4, <1>5, <2>1
    <2>. QED BY <1>0, <1>4, <1>5, <2>2 DEF q, b, Grown
  <1>6. CASE ~(ps # <<>> /\ R[k] - R[b] - 1 <= limit)
    <2>1. q = more
      BY <1>4, <1>6 DEF PackOne, more
    <2> HIDE DEF q
    <2>2. \E f : Tiles(q, f, k) /\ Len(q) = Len(ps) + 1 /\ f[Len(ps)] = m
      BY <1>3, <2>1
    <2>. QED BY <1>0, <1>4, <1>6, <2>2 DEF q, b, Grown
  <1>. QED BY <1>5, <1>6

\* Another way to cut the answer: how many parts it has begun before word i + 1.
Begun(cuts, i) == Cardinality(cuts \cap (1 .. i - 1)) + 1

\* Pack has no more parts than that, and if it has as many then its last one begins no earlier.
Ahead(cuts, ps, e, i) ==
    /\ Len(ps) <= Begun(cuts, i)
    /\ Len(ps) = Begun(cuts, i) => \A c \in cuts \cap (1 .. i - 1) : c <= e[Len(ps) - 1]

\* The number grows with the cuts.
LEMMA BegunGrows ==
    ASSUME NEW n \in Nat, NEW cuts \in SUBSET (1 .. n), NEW i \in Nat
    PROVE  /\ Begun(cuts, i) \in Nat /\ 1 <= Begun(cuts, i)
           /\ i \in cuts => Begun(cuts, i + 1) = Begun(cuts, i) + 1
           /\ i \notin cuts => /\ Begun(cuts, i + 1) = Begun(cuts, i)
                               /\ cuts \cap (1 .. i) = cuts \cap (1 .. i - 1)
  <1> DEFINE past == cuts \cap (1 .. i - 1)
  <1>1. IsFiniteSet(cuts)
    <2>1. IsFiniteSet(1 .. n)
      BY FS_Interval
    <2>. QED BY <2>1, FS_Subset
  <1>2. IsFiniteSet(past)
    BY <1>1, FS_Subset
  <1>3. Cardinality(past) \in Nat
    BY <1>2, FS_CardinalityType
  <1>4. /\ Begun(cuts, i) = Cardinality(past) + 1
        /\ Begun(cuts, i + 1) = Cardinality(cuts \cap (1 .. i)) + 1
    <2>1. (i + 1) - 1 = i
      OBVIOUS
    <2>. QED BY <2>1 DEF Begun
  <1>7. 1 <= Cardinality(past) + 1 /\ Cardinality(past) + 1 \in Nat
    BY <1>3
  <1>5. CASE i \in cuts
    <2>1. cuts \cap (1 .. i) = past \cup {i} /\ i \notin past
      BY <1>5
    <2>2. Cardinality(past \cup {i}) = Cardinality(past) + 1
      BY <1>2, <2>1, FS_AddElement
    <2>. QED BY <1>3, <1>4, <1>7, <1>5, <2>1, <2>2
  <1>6. CASE i \notin cuts
    <2>1. cuts \cap (1 .. i) = past
      <3>1. \A c \in cuts : c \in Int /\ c # i
        BY <1>6
      <3>. QED BY <3>1
    <2>. QED BY <1>3, <1>4, <1>7, <1>6, <2>1
  <1>. QED BY <1>5, <1>6

\* The next word fits into the last part if the other way does not begin one with it.
LEMMA OtherFits ==
    ASSUME NEW text \in Seq(Nat), NEW limit \in Int, NEW R, Sums(text, R),
           NEW cuts \in SUBSET (1 .. Len(text) - 1), Fits(text, limit, cuts),
           NEW i \in 1 .. Len(text) - 1, i \notin cuts,
           NEW b \in 0 .. i, \A c \in cuts \cap (1 .. i - 1) : c <= b
    PROVE  R[i + 1] - R[b] - 1 <= limit
  <1> DEFINE n == Len(text)
             A == {0} \cup (cuts \cap (1 .. i - 1))
             D == {c \in cuts : c > i} \cup {n}
  <1>1. /\ n \in Nat /\ i \in Nat /\ i + 1 <= n /\ b \in Nat /\ b <= i
        /\ \A c \in cuts : c \in Nat /\ c # i /\ c < n
    OBVIOUS
  <1>2. PICK a \in A : \A x \in A : x <= a
    <2>1. A \in SUBSET Nat /\ A # {} /\ \A x \in A : x <= i
      BY <1>1
    <2> HIDE DEF A
    <2>. QED BY <1>1, <2>1, GreatestExists
  <1>3. PICK d \in D : \A x \in D : d <= x
    <2>1. D \in SUBSET Nat /\ D # {}
      BY <1>1
    <2> HIDE DEF D
    <2>. QED BY <2>1, LeastExists
  <1>4. /\ a \in Nat /\ d \in Nat /\ a <= i - 1 /\ i + 1 <= d /\ d <= n /\ a <= b
        /\ a \in cuts \cup {0, n} /\ d \in cuts \cup {0, n}
    BY <1>1
  <1>5. \A c \in cuts : ~(a < c /\ c < d)
    <2>1. TAKE c \in cuts
    <2>2. CASE c > i
      BY <1>1, <1>3, <1>4, <2>2
    <2>3. CASE c < i
      <3>1. c \in A
        BY <1>1, <2>3
      <3>. QED BY <1>1, <1>2, <1>4, <3>1
    <2>. QED BY <1>1, <2>2, <2>3
  <1>6. Runes(text, Piece(a, d)) <= limit
    <2>1. a < d /\ d > a + 1
      BY <1>1, <1>4
    <2> HIDE DEF A, D
    <2>2. Runes(text, [k \in 1 .. d - a |-> a + k]) <= limit
      BY <1>4, <1>5, <2>1 DEF Fits
    <2>. QED BY <2>2 DEF Piece
  <1> HIDE DEF A, D
  <1>7. a \in 0 .. n /\ d \in 0 .. n /\ a <= d /\ b \in 0 .. n /\ i + 1 \in 0 .. n
    BY <1>1, <1>4
  <1>8. Runes(text, Piece(a, d)) = R[d] - R[a] - 1
    BY <1>7, RunesOfPiece
  <1>9. /\ R[a] <= R[b] /\ R[a] \in Nat /\ R[b] \in Nat
        /\ R[i + 1] <= R[d] /\ R[i + 1] \in Nat /\ R[d] \in Nat
    BY <1>4, <1>7, SumsGrow
  <1>10. PICK u \in Nat, v \in Nat, x \in Nat, y \in Nat :
            u = R[a] /\ v = R[b] /\ x = R[i + 1] /\ y = R[d]
    BY <1>9
  <1>11. u <= v /\ x <= y /\ y - u - 1 <= limit
    BY <1>6, <1>8, <1>9, <1>10
  <1>12. x - v - 1 <= limit
    BY <1>11
  <1>. QED BY <1>10, <1>12

\* With every word Pack stays ahead.
LEMMA AheadStep ==
    ASSUME NEW text \in Seq(Nat), NEW limit \in Int, NEW R, Sums(text, R),
           NEW cuts \in SUBSET (1 .. Len(text) - 1), Fits(text, limit, cuts),
           NEW k \in 1 .. Len(text), NEW m \in Nat, k = m + 1,
           NEW ps, NEW e, Tiles(ps, e, m), Ahead(cuts, ps, e, m), m = 0 => ps = <<>>
    PROVE  \E f : LET q == PackOne(text, limit, ps, k)
                  IN  Tiles(q, f, k) /\ Ahead(cuts, q, f, k)
  <1> DEFINE q == PackOne(text, limit, ps, k)
             n == Len(ps)
             b == e[n - 1]
  <1>1. /\ n \in Nat /\ (ps # <<>> => n # 0 /\ b \in 0 .. m) /\ (ps = <<>> => n = 0)
        /\ \E f : Tiles(q, f, k) /\ Grown(R, limit, ps, e, m, k, q, f)
    <2> HIDE DEF q
    <2>. QED BY PackStep DEF q
  <1>2. PICK f : /\ Tiles(q, f, k)
                 /\ IF ps # <<>> /\ R[k] - R[b] - 1 <= limit
                    THEN Len(q) = n /\ f[n - 1] = b
                    ELSE Len(q) = n + 1 /\ f[n] = m
    BY <1>1 DEF Grown
  <1>3. /\ Begun(cuts, m) \in Nat /\ 1 <= Begun(cuts, m)
        /\ m \in cuts => Begun(cuts, k) = Begun(cuts, m) + 1
        /\ m \notin cuts => /\ Begun(cuts, k) = Begun(cuts, m)
                            /\ cuts \cap (1 .. m) = cuts \cap (1 .. m - 1)
    <2>1. Len(text) - 1 \in Nat
      OBVIOUS
    <2>. QED BY <2>1, BegunGrows
  <1>4. /\ n <= Begun(cuts, m)
        /\ n = Begun(cuts, m) => \A c \in cuts \cap (1 .. m - 1) : c <= b
    BY DEF Ahead
  <1>5. k - 1 = m /\ (n + 1) - 1 = n
    BY <1>1
  <1> HIDE DEF n, q, b
  <1>6. Ahead(cuts, q, f, k)
    <2>1. CASE ps # <<>> /\ R[k] - R[b] - 1 <= limit
      <3>1. Len(q) = n /\ f[Len(q) - 1] = b
        BY <1>2, <2>1
      <3>2. CASE m \in cuts
        <4>1. n <= Begun(cuts, k) /\ n # Begun(cuts, k)
          BY <1>1, <1>3, <1>4, <3>2
        <4>. QED BY <3>1, <4>1 DEF Ahead
      <3>3. CASE m \notin cuts
        BY <1>3, <1>4, <1>5, <3>1, <3>3 DEF Ahead
      <3>. QED BY <3>2, <3>3
    <2>2. CASE ~(ps # <<>> /\ R[k] - R[b] - 1 <= limit)
      <3>1. Len(q) = n + 1 /\ f[Len(q) - 1] = m
        BY <1>2, <1>5, <2>2
      <3>2. \A c \in cuts \cap (1 .. k - 1) : c <= f[Len(q) - 1]
        BY <1>5, <3>1
      <3>3. n + 1 <= Begun(cuts, k)
        <4>1. CASE m \in cuts
          BY <1>1, <1>3, <1>4, <4>1
        <4>2. CASE m \notin cuts /\ n # Begun(cuts, m)
          BY <1>1, <1>3, <1>4, <4>2
        <4>3. CASE m \notin cuts /\ n = Begun(cuts, m)
          <5>1. ps # <<>> /\ b \in 0 .. m /\ m # 0 /\ m \in 1 .. Len(text) - 1
            BY <1>1, <1>3, <4>3
          <5>2. \A c \in cuts \cap (1 .. m - 1) : c <= b
            BY <1>4, <4>3
          <5>3. R[m + 1] - R[b] - 1 <= limit
            BY <4>3, <5>1, <5>2, OtherFits
          <5>. QED BY <2>2, <5>1, <5>3
        <4>. QED BY <4>1, <4>2, <4>3
      <3>. QED BY <3>1, <3>2, <3>3 DEF Ahead
    <2>. QED BY <2>1, <2>2
  <1>. QED BY <1>2, <1>6 DEF q

\* Pack gives the words of the answer in order, and something of an answer that is not empty.
LEMMA PackTiles ==
    ASSUME NEW text \in Seq(Nat), NEW limit \in Int
    PROVE  /\ \E e : Tiles(Pack(text, limit), e, Len(text))
           /\ text # <<>> => Pack(text, limit) # <<>>
  <1> DEFINE n == Len(text)
  <1>1. PICK R : Sums(text, R)
    BY SumsExist
  <1>2. PICK h : PackSteps(text, limit, h) /\ Pack(text, limit) = h[n]
    BY PackByWord
  <1> DEFINE P(i) == (\E e : Tiles(h[i], e, i)) /\ (i # 0 => h[i] # <<>>)
             M == {i \in Nat : i <= n => P(i)}
  <1>3. n \in Nat /\ (text # <<>> => n # 0)
    OBVIOUS
  <1>4. 0 \in M
    <2>1. h[0] = <<>>
      BY <1>2 DEF PackSteps
    <2>2. P(0)
      BY <2>1, NoTiles
    <2> HIDE DEF P
    <2>. QED BY <2>2
  <1>5. ASSUME NEW i \in M
        PROVE  i + 1 \in M
    <2> HIDE DEF P
    <2> SUFFICES ASSUME i + 1 <= n PROVE P(i + 1)
      OBVIOUS
    <2>1. i \in Nat /\ P(i) /\ i + 1 \in 1 .. n /\ (i + 1) - 1 = i
      BY <1>3
    <2> HIDE DEF M
    <2>2. PICK e : Tiles(h[i], e, i)
      BY <2>1 DEF P
    <2>3. h[i + 1] = PackOne(text, limit, h[i], i + 1)
      BY <1>2, <2>1 DEF PackSteps
    <2>4. /\ Len(h[i]) \in Nat /\ (h[i] # <<>> => Len(h[i]) # 0)
          /\ \E f : /\ Tiles(PackOne(text, limit, h[i], i + 1), f, i + 1)
                    /\ Grown(R, limit, h[i], e, i, i + 1, PackOne(text, limit, h[i], i + 1), f)
      <3>1. PICK k \in 1 .. Len(text) : k = i + 1
        BY <2>1
      <3>2. i \in Nat
        BY <2>1
      <3>3. PICK ps : ps = h[i]
        OBVIOUS
      <3>4. Tiles(ps, e, i)
        BY <2>2, <3>3
      <3> DEFINE q == PackOne(text, limit, ps, k)
      <3> HIDE DEF q
      <3>5. Len(ps) \in Nat /\ (ps # <<>> => Len(ps) # 0)
        BY <1>1, <3>1, <3>2, <3>4, PackStep
      <3>6. \E f : Tiles(q, f, k) /\ Grown(R, limit, ps, e, i, k, q, f)
        BY <1>1, <3>1, <3>2, <3>4, PackStep DEF q
      <3>. QED BY <3>1, <3>3, <3>5, <3>6 DEF q
    <2>5. PICK f : Tiles(h[i + 1], f, i + 1) /\ Len(h[i + 1]) \in {Len(h[i]), Len(h[i]) + 1}
                   /\ (h[i] = <<>> => Len(h[i + 1]) = Len(h[i]) + 1)
      BY <2>3, <2>4 DEF Grown
    <2>6. Len(h[i + 1]) # 0
      BY <2>4, <2>5
    <2>7. h[i + 1] # <<>>
      BY <2>6
    <2>. QED BY <2>5, <2>7 DEF P
  <1>6. M = Nat
    <2>1. M \in SUBSET Nat
      OBVIOUS
    <2> HIDE DEF M
    <2>. QED BY <1>4, <1>5, <2>1, SetInduction
  <1>7. P(n)
    <2> HIDE DEF P
    <2>1. n \in M
      BY <1>3, <1>6
    <2>. QED BY <1>3, <2>1
  <1>. QED BY <1>2, <1>3, <1>7

\* No way to cut the answer has fewer parts.
LEMMA PackFewest ==
    ASSUME NEW text \in Seq(Nat), NEW limit \in Int, text # <<>>,
           NEW cuts \in SUBSET (1 .. Len(text) - 1), Fits(text, limit, cuts)
    PROVE  Len(Pack(text, limit)) <= Cardinality(cuts) + 1
  <1> DEFINE n == Len(text)
  <1>1. PICK R : Sums(text, R)
    BY SumsExist
  <1>2. PICK h : PackSteps(text, limit, h) /\ Pack(text, limit) = h[n]
    BY PackByWord
  <1> DEFINE P(i) == \E e : /\ Tiles(h[i], e, i) /\ Ahead(cuts, h[i], e, i)
                            /\ i = 0 => h[i] = <<>>
             M == {i \in Nat : i <= n => P(i)}
  <1>3. n \in Nat /\ n # 0 /\ n - 1 \in Nat
    OBVIOUS
  <1>4. 0 \in M
    <2>1. h[0] = <<>> /\ Len(<<>>) = 0
      BY <1>2 DEF PackSteps
    <2>2. PICK e : Tiles(<<>>, e, 0)
      BY NoTiles
    <2>3. Begun(cuts, 0) \in Nat /\ 1 <= Begun(cuts, 0)
      BY <1>3, BegunGrows
    <2>4. Ahead(cuts, <<>>, e, 0)
      <3>1. 0 <= Begun(cuts, 0) /\ 0 # Begun(cuts, 0)
        BY <2>3
      <3>. QED BY <2>1, <3>1 DEF Ahead
    <2>5. P(0)
      BY <2>1, <2>2, <2>4
    <2> HIDE DEF P
    <2>. QED BY <2>5
  <1>5. ASSUME NEW i \in M
        PROVE  i + 1 \in M
    <2> HIDE DEF P
    <2> SUFFICES ASSUME i + 1 <= n PROVE P(i + 1)
      OBVIOUS
    <2>1. i \in Nat /\ P(i) /\ i + 1 \in 1 .. n /\ (i + 1) - 1 = i /\ i + 1 # 0
      BY <1>3
    <2> HIDE DEF M
    <2>2. PICK e : Tiles(h[i], e, i) /\ Ahead(cuts, h[i], e, i) /\ (i = 0 => h[i] = <<>>)
      BY <2>1 DEF P
    <2>3. h[i + 1] = PackOne(text, limit, h[i], i + 1)
      BY <1>2, <2>1 DEF PackSteps
    <2>4. \E f : /\ Tiles(PackOne(text, limit, h[i], i + 1), f, i + 1)
                 /\ Ahead(cuts, PackOne(text, limit, h[i], i + 1), f, i + 1)
      BY <1>1, <2>1, <2>2, AheadStep
    <2>. QED BY <2>1, <2>3, <2>4 DEF P
  <1>6. M = Nat
    <2>1. M \in SUBSET Nat
      OBVIOUS
    <2> HIDE DEF M
    <2>. QED BY <1>4, <1>5, <2>1, SetInduction
  <1>7. P(n)
    <2> HIDE DEF P
    <2>1. n \in M
      BY <1>3, <1>6
    <2>. QED BY <1>3, <2>1
  <1>8. Len(h[n]) <= Begun(cuts, n)
    BY <1>7 DEF Ahead
  <1>9. cuts \cap (1 .. n - 1) = cuts
    OBVIOUS
  <1>. QED BY <1>2, <1>8, <1>9 DEF Begun

-----------------------------------------------------------------------------
(* What MergeShort does *)

\* MergeShort keeps the words and their order, and does not make more parts.
LEMMA MergeTiles ==
    ASSUME NEW text, NEW limit, NEW minSize, NEW raw, NEW e, NEW m, Tiles(raw, e, m)
    PROVE  /\ \E f : Tiles(MergeShort(text, limit, minSize, raw), f, m)
           /\ Len(MergeShort(text, limit, minSize, raw)) <= Len(raw)
           /\ raw # <<>> => MergeShort(text, limit, minSize, raw) # <<>>
  <1> DEFINE n == Len(raw)
  <1>1. /\ raw \in Seq(Seq(Nat)) /\ m \in Nat
        /\ e \in [0 .. n -> 0 .. m] /\ e[0] = 0 /\ e[n] = m
        /\ \A i \in 1 .. n : e[i - 1] <= e[i] /\ raw[i] = Piece(e[i - 1], e[i])
    BY Zenon DEF Tiles
  <1>2. n \in Nat
    BY <1>1
  <1>3. CASE minSize = 0 \/ n <= 1
    <2>1. MergeShort(text, limit, minSize, raw) = raw
      BY <1>3 DEF MergeShort
    <2>. QED BY <1>2, <2>1
  <1>4. CASE ~(minSize = 0 \/ n <= 1)
    <2>1. minSize # 0 /\ n > 1
      BY <1>2, <1>4
    <2>2. PICK h : /\ MergeSteps(text, limit, minSize, raw, h)
                   /\ MergeShort(text, limit, minSize, raw) = h[n]
      BY <1>1, <2>1, MergeByPart
    <2> DEFINE P(i) == /\ \E f : Tiles(h[i], f, e[i])
                       /\ Len(h[i]) \in Nat /\ Len(h[i]) <= i /\ (i # 0 => Len(h[i]) # 0)
               M == {i \in Nat : i <= n => P(i)}
    <2>3. 0 \in M
      <3>1. h[0] = <<>> /\ Len(<<>>) = 0
        BY <2>2 DEF MergeSteps
      <3>2. P(0)
        BY <1>1, <3>1, NoTiles
      <3> HIDE DEF P
      <3>. QED BY <3>2
    <2>4. ASSUME NEW i \in M
          PROVE  i + 1 \in M
      <3> HIDE DEF P
      <3> SUFFICES ASSUME i + 1 <= n PROVE P(i + 1)
        OBVIOUS
      <3>1. /\ i \in Nat /\ P(i) /\ i + 1 \in 1 .. n /\ (i + 1) - 1 = i
            /\ i \in 0 .. n /\ i + 1 \in 0 .. n
        BY <1>2
      <3> HIDE DEF M
      <3> DEFINE ps == h[i]
                 a == e[i]
                 c == e[i + 1]
                 p == Piece(a, c)
      <3>2. PICK f : Tiles(ps, f, a)
        BY <3>1 DEF P
      <3>3. Len(ps) \in Nat /\ Len(ps) <= i
        BY <3>1 DEF P
      <3>4. a <= c /\ raw[i + 1] = p /\ a \in Nat /\ c \in Nat
        <4>1. a \in 0 .. m /\ c \in 0 .. m
          BY <1>1, <3>1
        <4>2. a <= c /\ raw[i + 1] = p
          BY <1>1, <3>1, Zenon
        <4> HIDE DEF a, c, p
        <4>. QED BY <1>1, <4>1, <4>2
      <3>5. h[i + 1] = MergeOne(text, limit, minSize, ps, p)
        BY <2>2, <3>1, <3>4 DEF MergeSteps
      <3> HIDE DEF ps, a, c, p
      <3>6. CASE h[i + 1] = LastWith(ps, p) /\ ps # <<>>
        <4>1. /\ Len(ps) \in Nat \ {0} /\ Len(LastWith(ps, Piece(a, c))) = Len(ps)
              /\ \E g : Tiles(LastWith(ps, Piece(a, c)), g, c)
          BY <3>2, <3>4, <3>6, TilesLonger
        <4>2. Len(h[i + 1]) = Len(ps) /\ \E g : Tiles(h[i + 1], g, c)
          BY <3>6, <4>1 DEF p
        <4>. QED BY <3>1, <3>3, <4>1, <4>2 DEF P, c
      <3>7. CASE h[i + 1] = Append(ps, p)
        <4>1. /\ Len(Append(ps, Piece(a, c))) = Len(ps) + 1
              /\ \E g : Tiles(Append(ps, Piece(a, c)), g, c)
          BY <3>2, <3>4, TilesMore
        <4>2. Len(h[i + 1]) = Len(ps) + 1 /\ \E g : Tiles(h[i + 1], g, c)
          BY <3>7, <4>1 DEF p
        <4>. QED BY <3>1, <3>3, <4>2 DEF P, c
      <3>. QED BY <3>5, <3>6, <3>7 DEF MergeOne, LastWith
    <2>5. M = Nat
      <3>1. M \in SUBSET Nat
        OBVIOUS
      <3> HIDE DEF M
      <3>. QED BY <2>3, <2>4, <3>1, SetInduction
    <2>6. P(n)
      <3> HIDE DEF P
      <3>1. n \in M
        BY <1>2, <2>5
      <3>. QED BY <1>2, <3>1
    <2>7. (\E f : Tiles(h[n], f, m)) /\ Len(h[n]) <= n /\ h[n] # <<>>
      <3>1. Len(h[n]) # 0
        BY <2>1, <2>6, <1>2
      <3>. QED BY <1>1, <2>6, <3>1
    <2>. QED BY <2>2, <2>7
  <1>. QED BY <1>3, <1>4

-----------------------------------------------------------------------------
(* What SegmentContent does *)

\* The parts of an answer are its words in order, and there is one at least.
LEMMA SegmentTiles ==
    ASSUME NEW text \in Seq(Nat), NEW c, c.limit \in Int
    PROVE  /\ \E e : Tiles(SegmentContent(text, c), e, Len(text))
           /\ SegmentContent(text, c) # <<>>
  <1> DEFINE n == Len(text)
             ps == SegmentContent(text, c)
  <1>1. n \in Nat /\ DOMAIN text = 1 .. n
    OBVIOUS
  <1>2. CASE c.limit = 0 \/ text = <<>>
    <2>1. ps = << [k \in 1 .. n |-> k] >>
      BY <1>1, <1>2 DEF SegmentContent
    <2>2. Len(ps) = 1 /\ \E e : Tiles(ps, e, n)
      <3> HIDE DEF ps
      <3>. QED BY <1>1, <2>1, OneTile
    <2> HIDE DEF ps
    <2>3. ps # <<>>
      BY <2>1
    <2>. QED BY <2>2, <2>3 DEF ps
  <1>3. CASE ~(c.limit = 0 \/ text = <<>>)
    <2> DEFINE raw == Pack(text, c.limit)
    <2>1. ps = MergeShort(text, c.limit, c.minSize, raw)
      BY <1>3 DEF SegmentContent
    <2>2. (\E e : Tiles(raw, e, n)) /\ raw # <<>>
      BY <1>3, PackTiles
    <2> HIDE DEF raw, ps
    <2>. QED BY <2>1, <2>2, MergeTiles DEF ps
  <1>. QED BY <1>2, <1>3

\* The parts of a segmented answer are as few as can be.
LEMMA SegmentFewest ==
    ASSUME NEW text \in Seq(Nat), NEW c, c.limit \in Nat, c.limit > 0, text # <<>>,
           NEW cuts \in SUBSET (1 .. Len(text) - 1), Fits(text, c.limit, cuts)
    PROVE  Len(SegmentContent(text, c)) <= Cardinality(cuts) + 1
  <1> DEFINE raw == Pack(text, c.limit)
             ps == MergeShort(text, c.limit, c.minSize, raw)
             n == Len(text)
  <1>1. SegmentContent(text, c) = ps
    BY DEF SegmentContent
  <1>2. PICK e : Tiles(raw, e, n)
    BY PackTiles
  <1>3. Len(raw) <= Cardinality(cuts) + 1
    BY PackFewest
  <1>4. Len(ps) <= Len(raw) /\ \E f : Tiles(ps, f, n)
    <2> HIDE DEF raw
    <2>. QED BY <1>2, MergeTiles
  <1> HIDE DEF raw, ps
  <1>5. Len(raw) \in Nat /\ Len(ps) \in Nat
    <2>1. raw \in Seq(Seq(Nat)) /\ ps \in Seq(Seq(Nat))
      BY <1>2, <1>4 DEF Tiles
    <2>. QED BY <2>1
  <1>6. Cardinality(cuts) \in Nat
    <2>1. IsFiniteSet(1 .. Len(text) - 1)
      BY FS_Interval
    <2>. QED BY <2>1, FS_Subset, FS_CardinalityType
  <1>. QED BY <1>1, <1>3, <1>4, <1>5, <1>6

-----------------------------------------------------------------------------
(* The loop over the parts *)

\* The first parts are the first words, as far as the last one of them goes.
LEMMA TilesPrefix ==
    ASSUME NEW ps, NEW e, NEW m, Tiles(ps, e, m), NEW j \in 0 .. Len(ps),
           NEW q, DOMAIN q = 1 .. j, q = [i \in DOMAIN q |-> q[i]],
           \A i \in 1 .. j : q[i] = ps[i]
    PROVE  /\ m \in Nat /\ e[j] \in 0 .. m /\ (j = Len(ps) => e[j] = m)
           /\ \E f : Tiles(q, f, e[j])
  <1> DEFINE n == Len(ps)
             c == e[j]
  <1>1. /\ ps \in Seq(Seq(Nat)) /\ m \in Nat
        /\ e \in [0 .. n -> 0 .. m] /\ e[0] = 0 /\ e[n] = m
        /\ \A i \in 1 .. n : e[i - 1] <= e[i] /\ ps[i] = Piece(e[i - 1], e[i])
    BY Zenon DEF Tiles
  <1>2. n \in Nat /\ j \in Nat /\ j <= n /\ \A i \in 1 .. n : ps[i] \in Seq(Nat)
    BY <1>1
  <1>3. q \in Seq(Seq(Nat)) /\ Len(q) = j
    <2>1. \A i \in 1 .. j : q[i] \in Seq(Nat)
      BY <1>2
    <2>2. q \in [1 .. j -> Seq(Nat)]
      BY <2>1
    <2>. QED BY <1>2, <2>2
  <1> HIDE DEF n
  <1>4. \A i \in 0 .. n : e[i] \in Nat /\ e[i] \in 0 .. m
    BY <1>1
  <1> DEFINE M == {d \in Nat : d <= j => e[j - d] <= c}
  <1>5. M = Nat
    <2>1. 0 \in M
      <3>1. j - 0 = j /\ c \in Nat
        BY <1>2, <1>4
      <3>. QED BY <3>1
    <2>2. ASSUME NEW d \in M
          PROVE  d + 1 \in M
      <3>1. CASE d + 1 <= j
        <4>1. PICK i \in 1 .. n : i = j - d
          BY <1>2, <3>1
        <4>2. i - 1 = j - (d + 1) /\ i \in 0 .. n /\ i - 1 \in 0 .. n /\ d <= j
          BY <1>2, <3>1, <4>1
        <4>3. e[i - 1] <= e[i] /\ e[i] <= c
          BY <1>1, <4>1, <4>2
        <4>4. e[i - 1] <= c
          <5>1. e[i - 1] \in Nat /\ e[i] \in Nat /\ c \in Nat
            BY <1>2, <1>4, <4>2
          <5> HIDE DEF c
          <5>. QED BY <4>3, <5>1
        <4>5. d + 1 \in Nat
          OBVIOUS
        <4>. QED BY <4>2, <4>4, <4>5
      <3>. QED BY <3>1
    <2>3. M \in SUBSET Nat
      OBVIOUS
    <2> HIDE DEF M
    <2>. QED BY <2>1, <2>2, <2>3, SetInduction
  <1>6. c \in 0 .. m /\ c \in Nat
    BY <1>2, <1>4
  <1>7. \A i \in 0 .. j : e[i] \in 0 .. c
    <2>1. TAKE i \in 0 .. j
    <2>2. j - i \in Nat /\ j - i <= j /\ j - (j - i) = i /\ i \in 0 .. n
      BY <1>2
    <2>3. e[i] <= c
      <3>1. j - i \in M
        <4> HIDE DEF M
        <4>. QED BY <1>5, <2>2
      <3>. QED BY <2>2, <3>1
    <2>4. e[i] \in Nat
      BY <1>4, <2>2
    <2> HIDE DEF c
    <2>. QED BY <1>6, <2>3, <2>4
  <1> DEFINE f == [i \in 0 .. j |-> e[i]]
  <1>8. f \in [0 .. j -> 0 .. c] /\ \A i \in 0 .. j : f[i] = e[i]
    BY <1>7
  <1> HIDE DEF f, c
  <1>9. f[0] = 0 /\ f[j] = c
    <2>1. 0 \in 0 .. j /\ j \in 0 .. j
      BY <1>2
    <2>. QED BY <1>1, <1>8, <2>1 DEF c
  <1>10. \A i \in 1 .. j : f[i - 1] <= f[i] /\ q[i] = Piece(f[i - 1], f[i])
    <2>1. TAKE i \in 1 .. j
    <2>2. i \in 1 .. n /\ i \in 0 .. j /\ i - 1 \in 0 .. j
      BY <1>2
    <2>. QED BY <1>1, <1>8, <2>2
  <1>11. Tiles(q, f, c)
    BY <1>3, <1>6, <1>8, <1>9, <1>10 DEF Tiles
  <1>. QED BY <1>1, <1>6, <1>11 DEF c, n

\* What Segment leaves in parts.
Segmented == [k \in DOMAIN SegmentContent(words, cfg) |->
                 [text |-> SegmentContent(words, cfg)[k], signed |-> cfg.signed /\ k = 1]]

\* What has been posted are the first parts; the loop is not done before the last one.
OrderInv ==
    /\ words \in Answers /\ cfg \in Config
    /\ pc \in {"segment", "check", "send", "wait", "done", "error", "interrupted"}
    /\ parts = IF pc = "segment" THEN <<>> ELSE Segmented
    /\ IsList(posted) /\ DOMAIN posted \subseteq DOMAIN parts
    /\ \A k \in DOMAIN posted : posted[k] = parts[k]
    /\ pc \in {"check", "send", "wait"} => Len(posted) < Len(parts)
    /\ pc = "done" => Len(posted) = Len(parts)

\* What the inputs give.
LEMMA InputFacts ==
    ASSUME words \in Answers, cfg \in Config
    PROVE  /\ words \in Seq(Nat) /\ cfg.limit \in Nat
           /\ \E e : Tiles(SegmentContent(words, cfg), e, Len(words))
           /\ IsList(Segmented) /\ Len(Segmented) = Len(SegmentContent(words, cfg))
           /\ Len(Segmented) > 0
  <1>1. words \in Seq(Nat)
    <2>1. PICK n \in 0 .. MaxWords : words \in [1 .. n -> 1 .. MaxRunes]
      BY DEF Answers
    <2>2. n \in Nat /\ words \in [1 .. n -> Nat]
      BY <2>1, SizesAssumption
    <2>. QED BY <2>2
  <1>2. cfg.limit \in Nat /\ cfg.limit \in Int
    BY SizesAssumption DEF Config
  <1> DEFINE ps == SegmentContent(words, cfg)
  <1>3. (\E e : Tiles(ps, e, Len(words))) /\ ps # <<>>
    BY <1>1, <1>2, SegmentTiles
  <1> HIDE DEF ps
  <1>4. ps \in Seq(Seq(Nat))
    BY <1>3 DEF Tiles
  <1>5. Len(ps) \in Nat /\ Len(ps) > 0 /\ DOMAIN ps = 1 .. Len(ps)
    BY <1>3, <1>4
  <1> DEFINE s == [k \in DOMAIN ps |-> [text |-> ps[k], signed |-> cfg.signed /\ k = 1]]
  <1>6. DOMAIN s = 1 .. Len(ps) /\ s = [k \in DOMAIN s |-> s[k]]
    BY <1>5
  <1> HIDE DEF s
  <1>7. IsList(s) /\ Len(s) = Len(ps)
    BY <1>5, <1>6, FunctionIsList
  <1>8. Segmented = s
    BY DEF Segmented, s, ps
  <1>. QED BY <1>1, <1>2, <1>3, <1>5, <1>7, <1>8 DEF ps

\* It holds at the start.
LEMMA OrderInvInit == Init => OrderInv
  <1> SUFFICES ASSUME Init PROVE OrderInv
    OBVIOUS
  <1>1. /\ words \in Answers /\ cfg \in Config /\ parts = <<>> /\ posted = <<>>
        /\ pc = "segment"
    BY DEF Init
  <1>2. IsList(<<>>) /\ DOMAIN <<>> = {}
    <2>1. <<>> \in Seq({})
      OBVIOUS
    <2>2. DOMAIN <<>> = {}
      OBVIOUS
    <2>3. \A s \in Seq({}) : IsList(s)
      BY SeqIsList
    <2>. QED BY <2>1, <2>2, <2>3
  <1>. QED BY <1>1, <1>2 DEF OrderInv

\* Every step keeps it.
LEMMA OrderInvNext == OrderInv /\ [Next]_vars => OrderInv'
  <1> SUFFICES ASSUME OrderInv, [Next]_vars PROVE OrderInv'
    OBVIOUS
  <1>0. /\ words \in Answers /\ cfg \in Config
        /\ pc \in {"segment", "check", "send", "wait", "done", "error", "interrupted"}
        /\ parts = IF pc = "segment" THEN <<>> ELSE Segmented
        /\ IsList(posted) /\ DOMAIN posted \subseteq DOMAIN parts
        /\ \A k \in DOMAIN posted : posted[k] = parts[k]
        /\ pc \in {"check", "send", "wait"} => Len(posted) < Len(parts)
        /\ pc = "done" => Len(posted) = Len(parts)
    BY DEF OrderInv
  <1>1. words' = words /\ cfg' = cfg /\ Segmented' = Segmented
    BY DEF Next, Segment, Check, Sent, SendFails, Waited, CancelContext, Returned, vars, Segmented
  <1>2. IsList(Segmented) /\ Len(Segmented) > 0
    BY <1>0, InputFacts
  <1>3. CASE Segment
    <2>1. pc = "segment" /\ parts' = Segmented /\ pc' = "check" /\ posted' = posted
      BY <1>3 DEF Segment, Segmented
    <2>2. DOMAIN posted = {} /\ Len(posted) = 0
      <3>1. DOMAIN posted = {}
        BY <1>0, <2>1
      <3>2. Len(posted) \in Nat /\ DOMAIN posted = 1 .. Len(posted)
        BY <1>0 DEF IsList
      <3>. QED BY <3>1, <3>2
    <2>. QED BY <1>0, <1>1, <1>2, <2>1, <2>2 DEF OrderInv
  <1>4. CASE Check \/ Waited \/ CancelContext \/ Returned \/ UNCHANGED vars
    <2>1. /\ UNCHANGED <<parts, posted>>
          /\ \/ pc' = pc
             \/ pc \in {"check", "wait"} /\ pc' \in {"check", "send", "interrupted"}
      BY <1>4 DEF Check, Waited, CancelContext, Returned, vars
    <2>. QED BY <1>0, <1>1, <2>1 DEF OrderInv
  <1>5. CASE Sent \/ SendFails
    <2>1. /\ pc = "send" /\ parts' = parts /\ parts = Segmented
          /\ \/ posted' = posted /\ pc' = "error"
             \/ /\ posted' = Append(posted, parts[Len(posted) + 1])
                /\ \/ pc' = "error"
                   \/ pc' = "done" /\ Len(posted') = Len(parts')
                   \/ pc' \in {"wait", "check"} /\ Len(posted') # Len(parts')
      BY <1>0, <1>5 DEF Sent, SendFails
    <2>2. CASE posted' = posted /\ pc' = "error"
      BY <1>0, <1>1, <2>1, <2>2 DEF OrderInv
    <2>3. CASE /\ posted' = Append(posted, parts[Len(posted) + 1])
               /\ \/ pc' = "error"
                  \/ pc' = "done" /\ Len(posted') = Len(parts')
                  \/ pc' \in {"wait", "check"} /\ Len(posted') # Len(parts')
      <3> DEFINE n == Len(posted)
      <3>1. PICK q : q = Append(posted, parts[n + 1])
        OBVIOUS
      <3>2. Extends(posted, parts[n + 1], q)
        BY <1>0, <3>1, AppendList
      <3>3. /\ n \in Nat /\ n < Len(parts) /\ Len(parts) \in Nat
            /\ DOMAIN parts = 1 .. Len(parts)
        BY <1>0, <1>2, <2>1 DEF IsList
      <3>4. /\ IsList(q) /\ DOMAIN q = DOMAIN posted \cup {n + 1} /\ Len(q) = n + 1
            /\ \A k \in DOMAIN posted : q[k] = posted[k]
            /\ q[n + 1] = parts[n + 1]
        BY <3>2 DEF Extends
      <3> HIDE DEF n
      <3>5. n + 1 \in DOMAIN parts /\ (Len(q) # Len(parts) => Len(q) < Len(parts))
        <4>1. PICK l \in Nat : l = Len(parts)
          BY <3>3
        <4>2. n < l /\ DOMAIN parts = 1 .. l /\ Len(q) = n + 1
          BY <3>3, <3>4, <4>1
        <4>3. n + 1 \in 1 .. l /\ (n + 1 # l => n + 1 < l)
          BY <3>3, <4>2
        <4>. QED BY <4>1, <4>2, <4>3
      <3>6. DOMAIN q \subseteq DOMAIN parts /\ \A k \in DOMAIN q : q[k] = parts[k]
        BY <1>0, <3>4, <3>5
      <3>7. posted' = q
        BY <2>3, <3>1 DEF n
      <3>. QED BY <1>0, <1>1, <2>1, <2>3, <3>4, <3>5, <3>6, <3>7 DEF OrderInv
    <2>. QED BY <2>1, <2>2, <2>3
  <1>. QED BY <1>3, <1>4, <1>5 DEF Next

\* Both properties follow from it.
LEMMA OrderInvGives == OrderInv => PostedIsPrefix /\ FewestParts
  <1> SUFFICES ASSUME OrderInv PROVE PostedIsPrefix /\ FewestParts
    OBVIOUS
  <1> DEFINE ps == SegmentContent(words, cfg)
             q == Texts(posted)
             j == Len(posted)
  <1>1. /\ words \in Answers /\ cfg \in Config
        /\ parts = IF pc = "segment" THEN <<>> ELSE Segmented
        /\ IsList(posted) /\ DOMAIN posted \subseteq DOMAIN parts
        /\ \A k \in DOMAIN posted : posted[k] = parts[k]
        /\ pc = "done" => Len(posted) = Len(parts)
    BY DEF OrderInv
  <1>2. /\ words \in Seq(Nat) /\ cfg.limit \in Nat
        /\ IsList(Segmented) /\ Len(Segmented) = Len(ps)
    BY <1>1, InputFacts
  <1>3. PICK e : Tiles(ps, e, Len(words))
    BY <1>1, InputFacts
  <1>4. /\ j \in Nat /\ DOMAIN posted = 1 .. j /\ DOMAIN <<>> = {}
        /\ Len(Segmented) \in Nat /\ DOMAIN Segmented = 1 .. Len(Segmented)
        /\ Len(words) \in Nat
    <2>1. j \in Nat /\ DOMAIN posted = 1 .. j
      BY <1>1 DEF IsList
    <2>2. Len(Segmented) \in Nat /\ DOMAIN Segmented = 1 .. Len(Segmented)
      BY <1>2 DEF IsList
    <2>3. Len(words) \in Nat /\ DOMAIN <<>> = {}
      BY <1>2
    <2>. QED BY <2>1, <2>2, <2>3
  <1> HIDE DEF ps, q, j
  <1>5. j \in 0 .. Len(ps) /\ (pc = "done" => j = Len(ps))
    <2>1. CASE pc = "segment"
      <3>1. DOMAIN posted = {}
        BY <1>1, <1>4, <2>1
      <3>2. j = 0
        BY <1>4, <3>1
      <3>. QED BY <1>2, <1>4, <2>1, <3>2
    <2>2. CASE pc # "segment"
      <3>1. parts = Segmented /\ 1 .. j \subseteq 1 .. Len(ps)
        BY <1>1, <1>2, <1>4, <2>2
      <3>2. j <= Len(ps)
        <4>1. j = 0 \/ j \in 1 .. j
          BY <1>4
        <4>. QED BY <1>2, <1>4, <3>1, <4>1
      <3>3. j \in 0 .. Len(ps)
        BY <1>2, <1>4, <3>2
      <3>4. pc = "done" => j = Len(ps)
        BY <1>1, <1>2, <3>1 DEF j
      <3>. QED BY <3>3, <3>4
    <2>. QED BY <2>1, <2>2
  <1>6. /\ DOMAIN q = 1 .. j /\ q = [i \in DOMAIN q |-> q[i]]
        /\ \A i \in 1 .. j : q[i] = ps[i]
    <2>1. DOMAIN q = 1 .. j /\ q = [i \in DOMAIN q |-> q[i]]
      BY <1>4 DEF Texts, q
    <2>2. ASSUME NEW i \in 1 .. j
          PROVE  q[i] = ps[i]
      <3>1. q[i] = posted[i].text
        BY <1>4 DEF Texts, q
      <3>2. pc # "segment"
        BY <1>1, <1>4
      <3>3. posted[i] = Segmented[i] /\ i \in DOMAIN Segmented
        BY <1>1, <1>4, <3>2
      <3>4. Segmented[i].text = ps[i]
        BY <3>3 DEF Segmented, ps
      <3>. QED BY <3>1, <3>3, <3>4
    <2>. QED BY <2>1, <2>2
  <1>7. PostedIsPrefix
    <2> DEFINE sent == FlattenSeq(q)
               c == e[j]
    <2>1. /\ c \in 0 .. Len(words) /\ (j = Len(ps) => c = Len(words))
          /\ \E f : Tiles(q, f, c)
      BY <1>3, <1>5, <1>6, TilesPrefix
    <2> HIDE DEF c
    <2>2. sent = [k \in 1 .. c |-> k]
      BY <2>1, TilesFlatten
    <2>3. c \in Nat /\ c <= Len(words)
      BY <1>4, <2>1
    <2>4. Len(sent) = c
      <3>1. [k \in 1 .. c |-> k] \in [1 .. c -> Nat]
        BY <2>3
      <3> DEFINE id == [k \in 1 .. c |-> k]
      <3> HIDE DEF id
      <3>2. id \in [1 .. c -> Nat]
        BY <3>1 DEF id
      <3>3. Len(id) = c
        BY <2>3, <3>2
      <3>. QED BY <2>2, <3>3 DEF id
    <2> HIDE DEF sent
    <2>5. /\ sent = [k \in 1 .. Len(sent) |-> k] /\ Len(sent) <= Len(words)
          /\ pc = "done" => Len(sent) = Len(words)
      BY <1>5, <2>1, <2>2, <2>3, <2>4
    <2>. QED BY <2>5 DEF PostedIsPrefix, sent, q
  <1>8. FewestParts
    <2> SUFFICES ASSUME parts # <<>>, cfg.limit > 0, words # <<>>,
                        NEW cuts \in SUBSET (1 .. Len(words) - 1), Fits(words, cfg.limit, cuts)
                 PROVE  Len(parts) <= Cardinality(cuts) + 1
      BY DEF FewestParts
    <2>1. parts = Segmented
      BY <1>1
    <2>2. Len(ps) <= Cardinality(cuts) + 1
      BY <1>2, SegmentFewest DEF ps
    <2>. QED BY <1>2, <2>1, <2>2
  <1>. QED BY <1>7, <1>8

(* What the contact has received is the beginning of the answer, every     *)
(* word once and in order, and the whole answer when Dispatch returns nil. *)
THEOREM PostedIsPrefixHolds == Spec => []PostedIsPrefix
  BY OrderInvInit, OrderInvNext, OrderInvGives, PTL DEF Spec

(* Segmentation needs no more parts than any way of cutting the answer     *)
(* between words that respects the limit.                                  *)
THEOREM FewestPartsHolds == Spec => []FewestParts
  BY OrderInvInit, OrderInvNext, OrderInvGives, PTL DEF Spec
=============================================================================

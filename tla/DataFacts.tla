----------------------------- MODULE DataFacts -----------------------------
(***************************************************************************)
(* Facts about the data of several components: the bag of tasks in which   *)
(* ChatbotSession and ChatwootBridge keep the callbacks that wait,         *)
(* sequences of anything, and sets of natural numbers.                     *)
(***************************************************************************)
EXTENDS Integers, Sequences, Bags, WellFoundedInduction, TLAPS

-----------------------------------------------------------------------------
(* Bags *)

\* The operators that the components' Replace and Begin are made of.
Without(B, t) == B (-) SetToBag({t})
With(B, new) == B (+) SetToBag(new)

\* C has what B had but a copy of t, and the members of new: a task that was not there is there
\* once.
Replaced(B, t, new, C) ==
    /\ IsABag(C)
    /\ BagToSet(C) \subseteq BagToSet(B) \cup new
    /\ (BagToSet(B) \ {t}) \cup new \subseteq BagToSet(C)
    /\ B[t] = 1 => BagToSet(C) = (BagToSet(B) \ {t}) \cup new
    /\ \A u \in BagToSet(C) \ new : C[u] \leq B[u]
    /\ \A u \in new \ BagToSet(B) : C[u] = 1
    /\ B[t] = 1 /\ t \in new => C[t] = 1

\* C has what B had, and the members of new.
Added(B, new, C) ==
    /\ IsABag(C)
    /\ BagToSet(C) = BagToSet(B) \cup new
    /\ \A u \in BagToSet(B) \ new : C[u] = B[u]
    /\ \A u \in new \ BagToSet(B) : C[u] = 1

\* A bag without a copy of t: t is still in it only if there was another copy.
LEMMA RemoveOne ==
    ASSUME NEW B, IsABag(B), NEW t \in BagToSet(B)
    PROVE  /\ IsABag(Without(B, t))
           /\ BagToSet(Without(B, t)) = IF B[t] = 1 THEN BagToSet(B) \ {t} ELSE BagToSet(B)
           /\ \A u \in BagToSet(Without(B, t)) :
                 Without(B, t)[u] = IF u = t THEN B[u] - 1 ELSE B[u]
  <1> DEFINE D == [e \in DOMAIN B |-> IF e \in {t} THEN B[e] - SetToBag({t})[e] ELSE B[e]]
             S == {d \in DOMAIN D : D[d] > 0}
  <1>1. Without(B, t) = [e \in S |-> D[e]]
    BY DEF Without, (-), SetToBag
  <1>2. /\ DOMAIN D = DOMAIN B
        /\ \A e \in DOMAIN B : D[e] = IF e = t THEN B[e] - 1 ELSE B[e]
    BY DEF SetToBag
  <1>3. \A e \in DOMAIN B : B[e] \in Nat /\ B[e] > 0
    BY DEF IsABag
  <1> HIDE DEF D
  <1>4. S = IF B[t] = 1 THEN DOMAIN B \ {t} ELSE DOMAIN B
    BY <1>2, <1>3 DEF BagToSet
  <1>5. \A e \in S : D[e] \in {n \in Nat : n > 0}
    BY <1>2, <1>3
  <1>. HIDE DEF S
  <1>. QED BY <1>1, <1>2, <1>4, <1>5 DEF IsABag, BagToSet

\* A bag with one more copy of each member of a set.
LEMMA AddSet ==
    ASSUME NEW B, IsABag(B), NEW new
    PROVE  /\ IsABag(With(B, new))
           /\ BagToSet(With(B, new)) = BagToSet(B) \cup new
           /\ \A u \in BagToSet(B) \ new : With(B, new)[u] = B[u]
           /\ \A u \in new \ BagToSet(B) : With(B, new)[u] = 1
  <1> DEFINE C == With(B, new)
  <1>1. DOMAIN C = DOMAIN B \cup new
    BY DEF With, (+), SetToBag
  <1>2. \A e \in DOMAIN B \cup new :
            C[e] = (IF e \in DOMAIN B THEN B[e] ELSE 0) + (IF e \in new THEN 1 ELSE 0)
    BY DEF With, (+), SetToBag
  <1>3. C = [e \in DOMAIN C |-> C[e]]
    BY DEF With, (+), SetToBag
  <1>4. \A e \in DOMAIN B : B[e] \in Nat /\ B[e] > 0
    BY DEF IsABag
  <1>. HIDE DEF C
  <1>5. \A e \in DOMAIN C : C[e] \in {n \in Nat : n > 0}
    BY <1>1, <1>2, <1>4
  <1>6. IsABag(C)
    BY <1>3, <1>5 DEF IsABag
  <1>7. /\ \A u \in DOMAIN B \ new : C[u] = B[u]
        /\ \A u \in new \ DOMAIN B : C[u] = 1
    BY <1>1, <1>2, <1>4
  <1>. QED BY <1>1, <1>6, <1>7 DEF C, BagToSet

\* A task is taken out and others are put in.
LEMMA ReplaceOne ==
    ASSUME NEW B, IsABag(B), NEW t \in BagToSet(B), NEW new, NEW C,
           C = With(Without(B, t), new)
    PROVE  Replaced(B, t, new, C)
  <1> DEFINE W == Without(B, t)
  <1>1. C = With(W, new)
    OBVIOUS
  <1>2. /\ IsABag(W)
        /\ BagToSet(W) = IF B[t] = 1 THEN BagToSet(B) \ {t} ELSE BagToSet(B)
        /\ \A u \in BagToSet(W) : W[u] = IF u = t THEN B[u] - 1 ELSE B[u]
    BY RemoveOne
  <1> HIDE DEF W
  <1>3. /\ IsABag(With(W, new))
        /\ BagToSet(With(W, new)) = BagToSet(W) \cup new
        /\ \A u \in BagToSet(W) \ new : With(W, new)[u] = W[u]
        /\ \A u \in new \ BagToSet(W) : With(W, new)[u] = 1
    BY <1>2, AddSet
  <1>4. IsABag(C)
    BY <1>1, <1>3, Zenon
  <1>5. BagToSet(C) = BagToSet(W) \cup new
    BY <1>1, <1>3
  <1>6. \A u \in BagToSet(W) \ new : C[u] = W[u]
    BY <1>1, <1>3
  <1>7. \A u \in new \ BagToSet(W) : C[u] = 1
    BY <1>1, <1>3
  <1>8. \A u \in BagToSet(B) : B[u] \in Nat
    BY DEF IsABag, BagToSet
  <1>9. ASSUME NEW u \in BagToSet(C) \ new
        PROVE  C[u] \leq B[u]
    <2>1. u \in BagToSet(W) /\ u \in BagToSet(B)
      BY <1>2, <1>5
    <2>2. C[u] = B[u] \/ C[u] = B[u] - 1
      BY <2>1, <1>2, <1>6
    <2>. QED BY <2>1, <2>2, <1>8
  <1>10. \A u \in new \ BagToSet(B) : C[u] = 1
    BY <1>2, <1>7
  <1>11. B[t] = 1 /\ t \in new => C[t] = 1
    BY <1>2, <1>7
  <1>. QED BY <1>2, <1>4, <1>5, <1>9, <1>10, <1>11 DEF Replaced

\* Tasks are put in.
LEMMA AddTasks ==
    ASSUME NEW B, IsABag(B), NEW new, NEW C, C = With(B, new)
    PROVE  Added(B, new, C)
  <1>1. C = With(B, new)
    OBVIOUS
  <1>2. /\ IsABag(With(B, new))
        /\ BagToSet(With(B, new)) = BagToSet(B) \cup new
        /\ \A u \in BagToSet(B) \ new : With(B, new)[u] = B[u]
        /\ \A u \in new \ BagToSet(B) : With(B, new)[u] = 1
    BY AddSet
  <1>3. IsABag(C)
    BY <1>1, <1>2, Zenon
  <1>4. BagToSet(C) = BagToSet(B) \cup new
    BY <1>1, <1>2
  <1>5. \A u \in BagToSet(B) \ new : C[u] = B[u]
    BY <1>1, <1>2
  <1>6. \A u \in new \ BagToSet(B) : C[u] = 1
    BY <1>1, <1>2
  <1>. QED BY <1>3, <1>4, <1>5, <1>6 DEF Added

\* The empty bag.
LEMMA NoTasks ==
    /\ IsABag(EmptyBag)
    /\ BagToSet(EmptyBag) = {}
  BY DEF IsABag, EmptyBag, SetToBag, BagToSet

-----------------------------------------------------------------------------
(* Sequences, whatever is in them *)

IsList(s) == Len(s) \in Nat /\ DOMAIN s = 1 .. Len(s) /\ s = [i \in DOMAIN s |-> s[i]]

LEMMA ListIsSeq ==
    ASSUME NEW s, IsList(s), NEW S, \A i \in DOMAIN s : s[i] \in S
    PROVE  s \in Seq(S)
  <1>1. s \in [1 .. Len(s) -> S] /\ Len(s) \in Nat
    BY DEF IsList
  <1>. QED BY <1>1

LEMMA SeqIsList ==
    ASSUME NEW S, NEW s \in Seq(S)
    PROVE  IsList(s)
  BY DEF IsList

LEMMA FunctionIsList ==
    ASSUME NEW f, NEW n \in Nat, DOMAIN f = 1 .. n, f = [i \in DOMAIN f |-> f[i]]
    PROVE  IsList(f) /\ Len(f) = n
  <1> DEFINE S == {f[i] : i \in DOMAIN f}
  <1>1. \A i \in DOMAIN f : f[i] \in S
    OBVIOUS
  <1> HIDE DEF S
  <1>2. f \in [1 .. n -> S]
    BY <1>1
  <1>3. f \in Seq(S) /\ Len(f) = n
    BY <1>2
  <1>. QED BY <1>3, SeqIsList

\* One more.
Extends(s, e, r) ==
    /\ IsList(r) /\ DOMAIN r = DOMAIN s \cup {Len(s) + 1} /\ Len(r) = Len(s) + 1
    /\ Len(s) + 1 \notin DOMAIN s
    /\ \A i \in DOMAIN s : r[i] = s[i]
    /\ r[Len(s) + 1] = e

LEMMA AppendList ==
    ASSUME NEW s, IsList(s), NEW e
    PROVE  Extends(s, e, Append(s, e))
  <1> DEFINE S == {s[i] : i \in DOMAIN s} \cup {e}
  <1>1. \A i \in DOMAIN s : s[i] \in S
    OBVIOUS
  <1>2. e \in S
    OBVIOUS
  <1> HIDE DEF S
  <1>3. s \in Seq(S)
    BY <1>1, ListIsSeq
  <1>4. Append(s, e) \in Seq(S)
    BY <1>2, <1>3
  <1>5. IsList(Append(s, e))
    BY <1>4, SeqIsList
  <1>. QED BY <1>2, <1>3, <1>4, <1>5 DEF IsList, Extends

\* Many more.
Joins(s, r, q) ==
    /\ IsList(q) /\ DOMAIN s \subseteq DOMAIN q
    /\ \A i \in DOMAIN s : q[i] = s[i]
    /\ \A i \in DOMAIN q \ DOMAIN s : \E j \in DOMAIN r : q[i] = r[j]

LEMMA ConcatList ==
    ASSUME NEW s, IsList(s), NEW r, IsList(r)
    PROVE  Joins(s, r, s \o r)
  <1> DEFINE S == {s[i] : i \in DOMAIN s} \cup {r[i] : i \in DOMAIN r}
  <1>1. (\A i \in DOMAIN s : s[i] \in S) /\ (\A i \in DOMAIN r : r[i] \in S)
    OBVIOUS
  <1> HIDE DEF S
  <1>2. s \in Seq(S) /\ r \in Seq(S)
    BY <1>1, ListIsSeq
  <1>3. s \o r \in Seq(S)
    BY <1>2
  <1>4. IsList(s \o r)
    BY <1>3, SeqIsList
  <1>5. /\ DOMAIN (s \o r) = 1 .. Len(s) + Len(r)
        /\ \A i \in 1 .. Len(s) + Len(r) :
              (s \o r)[i] = IF i <= Len(s) THEN s[i] ELSE r[i - Len(s)]
    BY <1>2
  <1>6. DOMAIN s = 1 .. Len(s) /\ DOMAIN r = 1 .. Len(r) /\ Len(s) \in Nat /\ Len(r) \in Nat
    BY DEF IsList
  <1>7. ASSUME NEW i \in DOMAIN (s \o r) \ DOMAIN s
        PROVE  \E j \in DOMAIN r : (s \o r)[i] = r[j]
    <2>1. i - Len(s) \in DOMAIN r /\ (s \o r)[i] = r[i - Len(s)]
      BY <1>5, <1>6
    <2>. QED BY <2>1
  <1>. QED BY <1>4, <1>5, <1>6, <1>7 DEF Joins

LEMMA ConcatParts ==
    ASSUME NEW s, IsList(s), NEW r, IsList(r)
    PROVE  /\ DOMAIN (s \o r) = 1 .. Len(s) + Len(r)
           /\ \A i \in DOMAIN s : (s \o r)[i] = s[i]
           /\ \A i \in DOMAIN (s \o r) \ DOMAIN s : /\ i - Len(s) \in DOMAIN r
                                                    /\ (s \o r)[i] = r[i - Len(s)]
  <1> DEFINE S == {s[i] : i \in DOMAIN s} \cup {r[i] : i \in DOMAIN r}
  <1>1. (\A i \in DOMAIN s : s[i] \in S) /\ (\A i \in DOMAIN r : r[i] \in S)
    OBVIOUS
  <1> HIDE DEF S
  <1>2. s \in Seq(S) /\ r \in Seq(S)
    BY <1>1, ListIsSeq
  <1>3. /\ DOMAIN (s \o r) = 1 .. Len(s) + Len(r)
        /\ \A i \in 1 .. Len(s) + Len(r) :
              (s \o r)[i] = IF i <= Len(s) THEN s[i] ELSE r[i - Len(s)]
    BY <1>2
  <1>. QED BY <1>3 DEF IsList

\* The first one, and the others.
Shortens(s, r) ==
    /\ Len(s) > 0 /\ Head(s) = s[1]
    /\ IsList(r) /\ DOMAIN r = 1 .. Len(s) - 1 /\ Len(r) = Len(s) - 1
    /\ \A i \in DOMAIN r : r[i] = s[i + 1] /\ i + 1 \in DOMAIN s

LEMMA TailList ==
    ASSUME NEW s, IsList(s), s # <<>>
    PROVE  Shortens(s, Tail(s))
  <1> DEFINE S == {s[i] : i \in DOMAIN s}
  <1>1. \A i \in DOMAIN s : s[i] \in S
    OBVIOUS
  <1> HIDE DEF S
  <1>2. s \in Seq(S)
    BY <1>1, ListIsSeq
  <1>3. Tail(s) \in Seq(S) /\ Len(s) > 0 /\ Head(s) = s[1]
    BY <1>2
  <1>4. IsList(Tail(s))
    BY <1>3, SeqIsList
  <1>5. Len(Tail(s)) = Len(s) - 1 /\ \A i \in 1 .. Len(s) - 1 : Tail(s)[i] = s[i + 1]
    BY <1>2, <1>3
  <1>. QED BY <1>3, <1>4, <1>5 DEF IsList, Shortens
-----------------------------------------------------------------------------
(* Natural numbers *)

\* A non-empty set of natural numbers has a least element.
LEMMA LeastExists ==
    ASSUME NEW T \in SUBSET Nat, T # {}
    PROVE  \E j \in T : \A k \in T : j <= k
  <1> DEFINE R == OpToRel(<, Nat)
  <1>1. PICK j \in T : \A k \in T : <<k, j>> \notin R
    BY NatLessThanWellFounded, WFMin
  <1>2. \A k \in T : ~(k < j)
    BY <1>1 DEF OpToRel
  <1>3. \A k \in T : j <= k
    <2> HIDE DEF R
    <2> QED
      BY <1>1, <1>2
  <1> QED
    BY <1>3

\* A bounded one has a greatest.
LEMMA GreatestExists ==
    ASSUME NEW S \in SUBSET Nat, S # {}, NEW m \in Nat, \A i \in S : i <= m
    PROVE  \E i \in S : \A j \in S : j <= i
  <1> DEFINE Bounds == {n \in Nat : \A i \in S : i <= n}
  <1>1. m \in Bounds /\ Bounds \in SUBSET Nat
    OBVIOUS
  <1>2. PICK n \in Bounds : \A k \in Bounds : n <= k
    <2> HIDE DEF Bounds
    <2>1. Bounds # {}
      BY <1>1
    <2>. QED BY <1>1, <2>1, LeastExists
  <1>3. CASE n \in S
    BY <1>3
  <1>4. CASE n \notin S
    <2>1. n \in Nat /\ \A i \in S : i \in Nat /\ i < n
      BY <1>2, <1>4
    <2>2. n - 1 \in Nat /\ \A i \in S : i <= n - 1
      <3>1. PICK j : j \in S
        OBVIOUS
      <3>2. n > 0
        BY <2>1, <3>1
      <3>. QED BY <2>1, <3>2
    <2>3. n - 1 \in Bounds
      BY <2>2
    <2>. QED BY <1>2, <2>3
  <1>. QED BY <1>3, <1>4

\* Induction: a set of natural numbers that has 0, and the successor of each member.
LEMMA SetInduction ==
    ASSUME NEW T \in SUBSET Nat, 0 \in T, \A n \in T : n + 1 \in T
    PROVE  T = Nat
  <1> SUFFICES ASSUME T # Nat PROVE FALSE
    OBVIOUS
  <1>1. Nat \ T # {} /\ Nat \ T \in SUBSET Nat
    OBVIOUS
  <1>2. PICK j \in Nat \ T : \A k \in Nat \ T : j <= k
    BY <1>1, LeastExists
  <1>3. j # 0 /\ j - 1 \in Nat
    OBVIOUS
  <1>4. j - 1 \notin T
    BY <1>2, <1>3
  <1>. QED BY <1>2, <1>3, <1>4
=============================================================================

--------------------------- MODULE SequenceLemmas ---------------------------
(***************************************************************************)
(* Facts about sequences of any elements that the proofs about the driver  *)
(* and the servers share: parts of a sequence, its end, and FlattenSeq,    *)
(* which puts the writes of the device end to end.                         *)
(***************************************************************************)
EXTENDS SequencesExt, SequenceTheorems, WellFoundedInduction, TLAPS

(* A set of naturals has a least element: the form in which induction is   *)
(* used below.                                                             *)
LEMMA NatLeast ==
  ASSUME NEW S \in SUBSET Nat, S # {}
  PROVE  \E m \in S : \A n \in S : m <= n
<1>1. PICK m \in S : \A n \in S : <<n, m>> \notin OpToRel(<, Nat)
  BY NatLessThanWellFounded, WFMin, Zenon
<1>2. \A n \in S : ~(n < m)
  BY <1>1, Zenon DEF OpToRel
<1> QED BY <1>2

-----------------------------------------------------------------------------
(* Parts of sequences. *)

(* The bytes of an entry are its whole block, when the sizes match.        *)
LEMMA WholeSubSeq ==
  ASSUME NEW S, NEW s \in Seq(S)
  PROVE  SubSeq(s, 1, Len(s)) = s
OBVIOUS

(* The elements of a concatenation.                                        *)
LEMMA ConcatIndex ==
  ASSUME NEW S, NEW s \in Seq(S), NEW c \in Seq(S)
  PROVE  /\ s \o c \in Seq(S) /\ Len(s \o c) = Len(s) + Len(c)
         /\ \A i \in 1 .. Len(s) : (s \o c)[i] = s[i]
         /\ \A i \in 1 .. Len(c) : (s \o c)[Len(s) + i] = c[i]
<1>1. Len(s) \in Nat /\ Len(c) \in Nat
  OBVIOUS
<1>2. /\ s \o c \in Seq(S) /\ Len(s \o c) = Len(s) + Len(c)
      /\ \A i \in 1 .. Len(s) + Len(c) :
           (s \o c)[i] = IF i <= Len(s) THEN s[i] ELSE c[i - Len(s)]
  BY ConcatProperties
<1>3. ASSUME NEW i \in 1 .. Len(s) PROVE (s \o c)[i] = s[i]
  <2>1. i \in 1 .. Len(s) + Len(c) /\ i <= Len(s)
    BY <1>1
  <2> QED BY <1>2, <2>1
<1>4. ASSUME NEW i \in 1 .. Len(c) PROVE (s \o c)[Len(s) + i] = c[i]
  <2>1. /\ Len(s) + i \in 1 .. Len(s) + Len(c)
        /\ ~(Len(s) + i <= Len(s)) /\ (Len(s) + i) - Len(s) = i
    BY <1>1
  <2> QED BY <1>2, <2>1
<1> QED BY <1>2, <1>3, <1>4

(* Sequences are told by their length and their elements.                  *)
LEMMA IsAppend ==
  ASSUME NEW S, NEW w \in Seq(S), NEW x \in S, NEW v \in Seq(S),
         Len(v) = Len(w) + 1,
         \A k \in 1 .. Len(w) : v[k] = w[k],
         v[Len(w) + 1] = x
  PROVE  v = Append(w, x)
<1>1. Len(w) \in Nat
  OBVIOUS
<1>2. /\ Append(w, x) \in Seq(S) /\ Len(Append(w, x)) = Len(w) + 1
      /\ \A k \in 1 .. Len(w) : Append(w, x)[k] = w[k]
      /\ Append(w, x)[Len(w) + 1] = x
  BY AppendProperties
<1>3. \A k \in 1 .. Len(v) : k \in 1 .. Len(w) \/ k = Len(w) + 1
  BY <1>1
<1>4. \A k \in 1 .. Len(v) : v[k] = Append(w, x)[k]
  BY <1>2, <1>3
<1> QED BY <1>2, <1>4

(* Append, as its tail is. *)
LEMMA IsAppendTail ==
  ASSUME NEW S, NEW w \in Seq(S), NEW x \in S, NEW v \in Seq(S),
         Len(v) = Len(w), w # <<>>,
         \A k \in 1 .. Len(w) - 1 : v[k] = w[k+1],
         v[Len(w)] = x
  PROVE  v = Append(Tail(w), x)
<1> DEFINE t == Tail(w)
<1>1. Len(w) \in Nat \ {0}
  OBVIOUS
<1>2. /\ t \in Seq(S) /\ Len(t) = Len(w) - 1
      /\ \A k \in 1 .. Len(t) : t[k] = w[k+1]
  BY <1>1, HeadTailProperties
<1> HIDE DEF t
<1>3. Len(v) = Len(t) + 1 /\ v[Len(t) + 1] = x
  BY <1>1, <1>2
<1>4. \A k \in 1 .. Len(t) : v[k] = t[k]
  BY <1>1, <1>2
<1>5. v = Append(t, x)
  BY <1>2, <1>3, <1>4, IsAppend
<1> QED BY <1>5 DEF t

(* The bytes of a part of a sequence. *)
LEMMA SubSeqParts ==
  ASSUME NEW S, NEW s \in Seq(S), NEW m \in Nat, NEW c \in Nat, m + c <= Len(s)
  PROVE  /\ SubSeq(s, m + 1, m + c) \in Seq(S)
         /\ Len(SubSeq(s, m + 1, m + c)) = c
         /\ \A j \in 1 .. c : SubSeq(s, m + 1, m + c)[j] = s[m + j]
OBVIOUS

(* A part of one sequence is that of another. *)
LEMMA SameBytes ==
  ASSUME NEW S, NEW s \in Seq(S), NEW t \in Seq(S),
         NEW m \in Nat, NEW n \in Nat, NEW c \in Nat,
         m + c <= Len(s), n + c <= Len(t),
         \A j \in 1 .. c : t[n + j] = s[m + j]
  PROVE  SubSeq(s, m + 1, m + c) = SubSeq(t, n + 1, n + c)
<1>1. /\ SubSeq(s, m + 1, m + c) \in Seq(S)
      /\ Len(SubSeq(s, m + 1, m + c)) = c
      /\ \A j \in 1 .. c : SubSeq(s, m + 1, m + c)[j] = s[m + j]
  BY SubSeqParts
<1>2. /\ SubSeq(t, n + 1, n + c) \in Seq(S)
      /\ Len(SubSeq(t, n + 1, n + c)) = c
      /\ \A j \in 1 .. c : SubSeq(t, n + 1, n + c)[j] = t[n + j]
  BY SubSeqParts
<1> DEFINE a == SubSeq(s, m + 1, m + c)
           b == SubSeq(t, n + 1, n + c)
<1>3. a \in Seq(S) /\ b \in Seq(S) /\ Len(a) = Len(b)
  BY <1>1, <1>2
<1>4. \A j \in 1 .. Len(a) : a[j] = b[j]
  BY <1>1, <1>2
<1> HIDE DEF a, b
<1>5. a = b
  BY <1>3, <1>4
<1> QED BY <1>5 DEF a, b

(* The part that ends before it begins. *)
LEMMA EmptySubSeq ==
  ASSUME NEW S, NEW s \in Seq(S)
  PROVE  SubSeq(s, 1, 0) = <<>> /\ 0 <= Len(s)
OBVIOUS

(* Two adjacent parts of a sequence, of c and d elements. *)
LEMMA SubSeqJoin ==
  ASSUME NEW S, NEW s \in Seq(S), NEW m \in Nat, NEW c \in Nat, NEW d \in Nat,
         m + c + d <= Len(s)
  PROVE  SubSeq(s, m + 1, m + c) \o SubSeq(s, (m + c) + 1, (m + c) + d)
           = SubSeq(s, m + 1, m + (c + d))
<1> DEFINE u == SubSeq(s, m + 1, m + c)
           v == SubSeq(s, (m + c) + 1, (m + c) + d)
           w == SubSeq(s, m + 1, m + (c + d))
<1>1. /\ u \in Seq(S) /\ Len(u) = c
      /\ \A i \in 1 .. c : u[i] = s[m + i]
  <2>1. m + c <= Len(s)
    OBVIOUS
  <2> QED BY <2>1, SubSeqParts
<1>2. /\ v \in Seq(S) /\ Len(v) = d
      /\ \A i \in 1 .. d : v[i] = s[(m + c) + i]
  <2>1. m + c \in Nat /\ (m + c) + d <= Len(s)
    OBVIOUS
  <2> QED BY <2>1, SubSeqParts
<1>3. /\ w \in Seq(S) /\ Len(w) = c + d
      /\ \A i \in 1 .. c + d : w[i] = s[m + i]
  <2>1. c + d \in Nat /\ m + (c + d) <= Len(s)
    OBVIOUS
  <2> QED BY <2>1, SubSeqParts
<1> HIDE DEF u, v, w
<1>4. /\ u \o v \in Seq(S) /\ Len(u \o v) = Len(u) + Len(v)
      /\ \A i \in 1 .. Len(u) : (u \o v)[i] = u[i]
      /\ \A i \in 1 .. Len(v) : (u \o v)[Len(u) + i] = v[i]
  <2>1. u \in Seq(S) /\ v \in Seq(S)
    BY <1>1, <1>2
  <2> QED BY ONLY <2>1, ConcatIndex
<1>5. \A i \in 1 .. c + d : (u \o v)[i] = w[i]
  <2> SUFFICES ASSUME NEW i \in 1 .. c + d PROVE (u \o v)[i] = w[i]
    OBVIOUS
  <2>1. CASE i \in 1 .. c
    BY <1>1, <1>3, <1>4, <2>1
  <2>2. CASE i \notin 1 .. c
    <3>1. PICK j \in 1 .. d : c + j = i
      <4>1. i - c \in 1 .. d /\ c + (i - c) = i
        BY <2>2
      <4> QED BY <4>1
    <3>2. (u \o v)[c + j] = v[j] /\ v[j] = s[(m + c) + j]
      BY <1>1, <1>2, <1>4
    <3>3. w[i] = s[m + i] /\ m + i = (m + c) + j
      BY <1>3, <3>1
    <3> QED BY <3>1, <3>2, <3>3
  <2> QED BY <2>1, <2>2
<1>6. u \o v = w
  <2> DEFINE z == u \o v
  <2>1. z \in Seq(S) /\ Len(z) = c + d
    BY <1>1, <1>2, <1>4
  <2>2. \A i \in 1 .. c + d : z[i] = w[i]
    BY <1>5
  <2> HIDE DEF z
  <2>3. z = w
    BY <1>3, <2>1, <2>2
  <2> QED BY <2>3 DEF z
<1> QED BY <1>6 DEF u, v, w

(* The bytes of t are the last of s. *)
EndsWith(s, t) ==
  /\ Len(t) <= Len(s)
  /\ \A i \in 1 .. Len(t) : s[Len(s) - Len(t) + i] = t[i]

(* EndsWith is IsSuffix. *)
LEMMA EndsWithSuffix ==
  ASSUME NEW S, NEW s \in Seq(S), NEW t \in Seq(S), EndsWith(s, t)
  PROVE  IsSuffix(t, s)
<1>1. Len(s) \in Nat /\ Len(t) \in Nat /\ Len(t) <= Len(s)
  BY DEF EndsWith
<1>2. /\ Reverse(s) \in Seq(S) /\ Len(Reverse(s)) = Len(s)
      /\ \A i \in 1 .. Len(s) : Reverse(s)[i] = s[(Len(s) - i) + 1]
  BY DEF Reverse
<1>3. /\ Reverse(t) \in Seq(S) /\ Len(Reverse(t)) = Len(t)
      /\ \A i \in 1 .. Len(t) : Reverse(t)[i] = t[(Len(t) - i) + 1]
  BY DEF Reverse
<1> DEFINE a == Reverse(s)
           b == Reverse(t)
<1> HIDE DEF a, b
<1>4. \A i \in 1 .. Len(t) : a[i] = b[i]
  <2> SUFFICES ASSUME NEW i \in 1 .. Len(t) PROVE a[i] = b[i]
    OBVIOUS
  <2> DEFINE j == (Len(t) - i) + 1
  <2>1. j \in 1 .. Len(t) /\ Len(s) - Len(t) + j = (Len(s) - i) + 1
    BY <1>1
  <2>2. s[Len(s) - Len(t) + j] = t[j]
    BY <2>1 DEF EndsWith
  <2>3. i \in 1 .. Len(s)
    BY <1>1
  <2> QED BY <1>2, <1>3, <2>1, <2>2, <2>3 DEF a, b
<1>5. SubSeq(b, 1, Len(b)) = SubSeq(a, 1, Len(b))
  <2>1. a \in Seq(S) /\ b \in Seq(S) /\ Len(b) <= Len(a) /\ Len(b) = Len(t)
    BY <1>1, <1>2, <1>3 DEF a, b
  <2>2. Len(b) \in Nat /\ 0 \in Nat /\ 0 + Len(b) = Len(b) /\ 0 + 1 = 1
    BY <2>1
  <2>3. \A i \in 1 .. Len(b) : a[0 + i] = b[0 + i]
    BY <1>4, <2>1
  <2>4. SubSeq(b, 0 + 1, 0 + Len(b)) = SubSeq(a, 0 + 1, 0 + Len(b))
    BY <2>1, <2>2, <2>3, SameBytes
  <2> QED BY <2>2, <2>4
<1>6. Len(b) <= Len(a)
  BY <1>1, <1>2, <1>3 DEF a, b
<1> QED BY <1>5, <1>6 DEF IsSuffix, IsPrefix, a, b

-----------------------------------------------------------------------------
(* FlattenSeq. *)

(* There is a function that satisfies the recursion of Before.             *)
LEMMA TotalsExist ==
  ASSUME NEW N \in Nat, NEW size \in [0 .. N -> Nat]
  PROVE  \E t : t = [k \in 0 .. N |-> IF k = 0 THEN 0 ELSE t[k-1] + size[k-1]]
<1> DEFINE Total(n) ==
             \E t : t = [k \in 0 .. n |->
                           IF k = 0 THEN 0 ELSE t[k-1] + size[k-1]]
           bad == {n \in 0 .. N : ~Total(n)}
<1> HIDE DEF Total
<1>1. SUFFICES ASSUME bad # {} PROVE FALSE
  BY DEF Total
<1>2. PICK m \in bad : \A n \in bad : m <= n
  <2>1. bad \in SUBSET Nat
    OBVIOUS
  <2> HIDE DEF bad
  <2> QED BY <1>1, <2>1, NatLeast
<1>3. CASE m = 0
  <2>1. [k \in 0 .. 0 |-> 0]
          = [k \in 0 .. 0 |->
               IF k = 0 THEN 0 ELSE [j \in 0 .. 0 |-> 0][k-1] + size[k-1]]
    OBVIOUS
  <2> QED BY <1>2, <1>3, <2>1 DEF Total
<1>4. CASE m # 0
  <2>1. m - 1 \in 0 .. N /\ m \in 1 .. N /\ Total(m - 1)
    BY <1>2, <1>4
  <2>2. PICK t : t = [k \in 0 .. m - 1 |->
                        IF k = 0 THEN 0 ELSE t[k-1] + size[k-1]]
    BY <2>1 DEF Total
  <2> DEFINE u == [k \in 0 .. m |->
                     IF k = m THEN t[m-1] + size[m-1] ELSE t[k]]
  <2>3. \A k \in 0 .. m - 1 :
          u[k] = IF k = 0 THEN 0 ELSE t[k-1] + size[k-1]
    <3>1. \A k \in 0 .. m - 1 : u[k] = t[k]
      BY <2>1
    <3>2. \A k \in 0 .. m - 1 :
            t[k] = IF k = 0 THEN 0 ELSE t[k-1] + size[k-1]
      BY <2>2
    <3> QED BY <3>1, <3>2
  <2>4. \A k \in 0 .. m : u[k] = IF k = 0 THEN 0 ELSE u[k-1] + size[k-1]
    <3>1. TAKE k \in 0 .. m
    <3>2. CASE k = m
      BY <2>1, <3>2
    <3>3. CASE k \in 0 .. m - 1
      <4>1. u[k] = IF k = 0 THEN 0 ELSE t[k-1] + size[k-1]
        BY <2>3, <3>3
      <4>2. k # 0 => u[k-1] = t[k-1]
        BY <2>1, <3>3
      <4> HIDE DEF u
      <4> QED BY <4>1, <4>2
    <3> QED BY <2>1, <3>2, <3>3
  <2>5. u = [k \in 0 .. m |-> u[k]]
    OBVIOUS
  <2> HIDE DEF u
  <2>6. u = [k \in 0 .. m |-> IF k = 0 THEN 0 ELSE u[k-1] + size[k-1]]
    BY <2>4, <2>5
  <2> QED BY <1>2, <2>6 DEF Total
<1> QED BY <1>3, <1>4

(* There is a function that satisfies the recursion of FlattenSeq.         *)
LEMMA JoinsExist ==
  ASSUME NEW N \in Nat, NEW w
  PROVE  \E t : t = [k \in 1 .. N |-> IF k = 1 THEN w[k] ELSE t[k-1] \o w[k]]
<1> DEFINE Join(n) ==
             \E t : t = [k \in 1 .. n |->
                           IF k = 1 THEN w[k] ELSE t[k-1] \o w[k]]
           bad == {n \in 0 .. N : ~Join(n)}
<1>1. SUFFICES Join(N)
  OBVIOUS
<1> HIDE DEF Join
<1>2. SUFFICES ASSUME bad # {} PROVE FALSE
  OBVIOUS
<1>3. PICK m \in bad : \A n \in bad : m <= n
  <2>1. bad \in SUBSET Nat
    OBVIOUS
  <2> HIDE DEF bad
  <2> QED BY <1>2, <2>1, NatLeast
<1>4. CASE m = 0
  <2> DEFINE none == [k \in 1 .. 0 |-> w[k]]
  <2>1. none = [k \in 1 .. 0 |-> IF k = 1 THEN w[k] ELSE none[k-1] \o w[k]]
    OBVIOUS
  <2> HIDE DEF none
  <2> QED BY <1>3, <1>4, <2>1 DEF Join
<1>5. CASE m # 0
  <2>1. m - 1 \in 0 .. N /\ m \in 1 .. N /\ Join(m - 1)
    BY <1>3, <1>5
  <2>2. PICK t : t = [k \in 1 .. m - 1 |->
                        IF k = 1 THEN w[k] ELSE t[k-1] \o w[k]]
    BY <2>1 DEF Join
  <2> DEFINE last == IF m = 1 THEN w[m] ELSE t[m-1] \o w[m]
             u == [k \in 1 .. m |-> IF k = m THEN last ELSE t[k]]
  <2>3. \A k \in 1 .. m - 1 :
          u[k] = IF k = 1 THEN w[k] ELSE t[k-1] \o w[k]
    <3>1. \A k \in 1 .. m - 1 : u[k] = t[k]
      BY <2>1
    <3>2. \A k \in 1 .. m - 1 :
            t[k] = IF k = 1 THEN w[k] ELSE t[k-1] \o w[k]
      BY <2>2
    <3> HIDE DEF u
    <3> QED BY <3>1, <3>2
  <2>4. \A k \in 1 .. m : u[k] = IF k = 1 THEN w[k] ELSE u[k-1] \o w[k]
    <3>1. TAKE k \in 1 .. m
    <3>2. k # 1 => u[k-1] = t[k-1]
      BY <2>1
    <3>3. CASE k = m
      <4>1. u[k] = last
        BY <2>1, <3>3
      <4> HIDE DEF u
      <4> QED BY <3>2, <3>3, <4>1
    <3>4. CASE k \in 1 .. m - 1
      <4>1. u[k] = IF k = 1 THEN w[k] ELSE t[k-1] \o w[k]
        BY <2>3, <3>4
      <4> HIDE DEF u
      <4> QED BY <3>2, <4>1
    <3> QED BY <2>1, <3>3, <3>4
  <2>5. u = [k \in 1 .. m |-> u[k]]
    OBVIOUS
  <2> HIDE DEF u
  <2>6. u = [k \in 1 .. m |-> IF k = 1 THEN w[k] ELSE u[k-1] \o w[k]]
    BY <2>4, <2>5
  <2> QED BY <1>3, <2>6 DEF Join
<1> QED BY <1>4, <1>5

(* The elements of the first n sequences of w are in s, those of w[k]      *)
(* after the b[k-1] of the sequences before it.                            *)
JoinedIn(s, w, b, n) ==
  \A k \in 1 .. n : \A i \in 1 .. Len(w[k]) :
    b[k-1] + i \in 1 .. b[n] /\ s[b[k-1] + i] = w[k][i]

(* The running total of the lengths of the first n sequences.              *)
IsTotal(b, w, n) ==
  /\ b[0] = 0
  /\ \A k \in 0 .. n : b[k] \in Nat
  /\ \A k \in 1 .. n : b[k] = b[k-1] + Len(w[k])

(* So FlattenSeq joins the sequences, b being their running total.         *)
LEMMA FlattenIndex ==
  ASSUME NEW S, NEW w \in Seq(Seq(S)), NEW N, N = Len(w), NEW b, IsTotal(b, w, N)
  PROVE  /\ FlattenSeq(w) \in Seq(S)
         /\ Len(FlattenSeq(w)) = b[N]
         /\ JoinedIn(FlattenSeq(w), w, b, N)
<1> USE DEF IsTotal
<1>1. N \in Nat
  OBVIOUS
<1>2. CASE N = 0
  <2>1. FlattenSeq(w) = w /\ w = <<>>
    BY <1>2, EmptySeq DEF FlattenSeq
  <2>2. 1 .. N = {}
    BY <1>2
  <2> QED BY <1>2, <2>1, <2>2, EmptySeq DEF JoinedIn
<1>3. CASE N # 0
  <2> DEFINE F(t) == [k \in 1 .. N |->
                        IF k = 1 THEN w[k] ELSE t[k-1] \o w[k]]
             flatten == CHOOSE t : t = F(t)
  <2>1. FlattenSeq(w) = flatten[N]
    BY <1>3 DEF FlattenSeq
  <2>2. \E t : t = F(t)
    BY <1>1, JoinsExist
  <2>3. flatten = F(flatten)
    <3> HIDE DEF F
    <3> QED BY <2>2
  <2> HIDE DEF flatten
  <2>4. \A k \in 1 .. N :
          flatten[k] = IF k = 1 THEN w[k] ELSE flatten[k-1] \o w[k]
    BY <2>3
  <2> HIDE DEF F
  <2> DEFINE Joined(n) ==
               /\ flatten[n] \in Seq(S) /\ Len(flatten[n]) = b[n]
               /\ JoinedIn(flatten[n], w, b, n)
             bad == {n \in 1 .. N : ~Joined(n)}
  <2>5. ASSUME bad # {} PROVE FALSE
    <3>1. PICK m \in bad : \A n \in bad : m <= n
      <4>1. bad \in SUBSET Nat
        OBVIOUS
      <4> HIDE DEF bad
      <4> QED BY <2>5, <4>1, NatLeast
    <3>2. m \in 1 .. N /\ ~Joined(m)
      OBVIOUS
    <3> HIDE DEF Joined
    <3>3. /\ w[m] \in Seq(S) /\ m - 1 \in 0 .. N /\ m \in 0 .. N
          /\ b[m] = b[m-1] + Len(w[m])
      BY <1>1, <3>2
    <3>4. /\ b[m-1] \in Nat /\ b[m] \in Nat /\ Len(w[m]) \in Nat
      BY <3>3
    <3>5. CASE m = 1
      <4>1. flatten[m] = w[m] /\ b[m-1] = 0
        BY <2>4, <3>2, <3>5
      <4>2. b[m] = Len(w[m])
        BY <3>3, <3>4, <4>1
      <4>3. \A k \in 1 .. m : k = m
        BY <3>5
      <4>4. \A i \in 1 .. Len(w[m]) : b[m-1] + i \in 1 .. b[m] /\ b[m-1] + i = i
        BY <3>4, <4>1, <4>2
      <4> QED BY <3>2, <3>3, <4>1, <4>2, <4>3, <4>4 DEF Joined, JoinedIn
    <3>6. CASE m # 1
      <4>1. m - 1 \in 1 .. N
        BY <1>1, <3>2, <3>6
      <4>2. Joined(m - 1)
        <5>1. ~(m <= m - 1)
          BY <3>2
        <5> QED BY <3>1, <4>1, <5>1
      <4> DEFINE s == flatten[m-1]
                 c == w[m]
      <4>3. flatten[m] = s \o c
        BY <2>4, <3>2, <3>6
      <4>4. s \in Seq(S) /\ c \in Seq(S) /\ Len(s) = b[m-1]
        BY <3>3, <4>2 DEF Joined, JoinedIn
      <4>5. \A k \in 1 .. m - 1 : \A i \in 1 .. Len(w[k]) :
              b[k-1] + i \in 1 .. b[m-1] /\ s[b[k-1] + i] = w[k][i]
        BY <4>2 DEF Joined, JoinedIn
      <4>6. /\ s \o c \in Seq(S) /\ Len(s \o c) = Len(s) + Len(c)
            /\ \A i \in 1 .. Len(s) : (s \o c)[i] = s[i]
            /\ \A i \in 1 .. Len(c) : (s \o c)[Len(s) + i] = c[i]
        <5>1. s \in Seq(S) /\ c \in Seq(S)
          BY <4>4
        <5> HIDE DEF s, c
        <5> QED BY ONLY <5>1, ConcatIndex
      <4>7. ASSUME NEW k \in 1 .. m, NEW i \in 1 .. Len(w[k])
            PROVE  b[k-1] + i \in 1 .. b[m] /\ flatten[m][b[k-1] + i] = w[k][i]
        <5> HIDE DEF s
        <5>1. CASE k = m
          <6>1. b[m-1] + i \in 1 .. b[m]
            BY <3>3, <3>4, <5>1
          <6> QED BY <4>3, <4>4, <4>6, <5>1, <6>1
        <5>2. CASE k # m
          <6>1. k \in 1 .. m - 1
            BY <3>2, <5>2
          <6>2. b[k-1] + i \in 1 .. b[m-1] /\ s[b[k-1] + i] = w[k][i]
            BY <4>5, <6>1
          <6> DEFINE j == b[k-1] + i
          <6> HIDE DEF c, j
          <6>3. j \in 1 .. b[m]
            BY <3>3, <3>4, <6>2 DEF j
          <6>4. flatten[m][j] = s[j]
            BY <4>3, <4>4, <4>6, <6>2 DEF j
          <6> QED BY <6>2, <6>3, <6>4 DEF j
        <5> QED BY <5>1, <5>2
      <4>8. Joined(m)
        BY <3>3, <4>3, <4>4, <4>6, <4>7 DEF Joined, JoinedIn
      <4> QED BY <3>2, <4>8
    <3> QED BY <3>5, <3>6
  <2>6. Joined(N)
    <3>1. N \in 1 .. N
      BY <1>1, <1>3
    <3> HIDE DEF Joined
    <3> QED BY <2>5, <3>1
  <2> QED BY <2>1, <2>6
<1> QED BY <1>2, <1>3

(* Every sequence of sequences has one. *)
LEMMA RunningTotal ==
  ASSUME NEW S, NEW w \in Seq(Seq(S)), NEW N, N = Len(w)
  PROVE  \E b : IsTotal(b, w, N)
<1> DEFINE size == [k \in 0 .. N |-> IF k < N THEN Len(w[k+1]) ELSE 0]
<1>1. N \in Nat /\ \A k \in 1 .. N : Len(w[k]) \in Nat
  OBVIOUS
<1>2. size \in [0 .. N -> Nat]
  BY <1>1
<1>3. \A k \in 1 .. N : size[k-1] = Len(w[k])
  BY <1>1
<1> HIDE DEF size
<1>4. PICK b : b = [k \in 0 .. N |-> IF k = 0 THEN 0 ELSE b[k-1] + size[k-1]]
  BY <1>1, <1>2, TotalsExist
<1>5. \A k \in 0 .. N : b[k] = IF k = 0 THEN 0 ELSE b[k-1] + size[k-1]
  BY <1>4
<1>6. b[0] = 0 /\ \A k \in 1 .. N : k \in 0 .. N /\ b[k] = b[k-1] + Len(w[k])
  BY <1>1, <1>3, <1>5
<1> DEFINE bad == {k \in 0 .. N : b[k] \notin Nat}
<1>7. ASSUME bad # {} PROVE FALSE
  <2>1. PICK m \in bad : \A n \in bad : m <= n
    <3>1. bad \in SUBSET Nat
      BY <1>1
    <3> HIDE DEF bad
    <3> QED BY <1>7, <3>1, NatLeast
  <2>2. m \in 1 .. N /\ m - 1 \in 0 .. N /\ m - 1 \notin bad
    BY <1>1, <1>6, <2>1
  <2> QED BY <1>1, <1>6, <2>1, <2>2
<1> QED BY <1>6, <1>7 DEF IsTotal

(* A total that never shrinks is largest at its end. *)
LEMMA TotalsGrow ==
  ASSUME NEW N \in Nat, NEW b,
         \A k \in 0 .. N : b[k] \in Nat,
         \A k \in 1 .. N : b[k-1] <= b[k],
         NEW j \in 0 .. N
  PROVE  b[j] <= b[N]
<1> DEFINE bad == {d \in 0 .. N : ~(b[N - d] <= b[N])}
<1>1. ASSUME bad # {} PROVE FALSE
  <2>1. PICK m \in bad : \A n \in bad : m <= n
    <3>1. bad \in SUBSET Nat
      OBVIOUS
    <3> HIDE DEF bad
    <3> QED BY <1>1, <3>1, NatLeast
  <2>2. m # 0
    BY <2>1
  <2>3. m - 1 \in 0 .. N /\ m - 1 \notin bad
    BY <2>1, <2>2
  <2>4. N - m + 1 \in 1 .. N /\ N - m \in 0 .. N /\ N - m = (N - m + 1) - 1
        /\ N - (m - 1) = N - m + 1
    BY <2>1, <2>2
  <2>5. b[N - m] <= b[N - m + 1] /\ b[N - m + 1] <= b[N]
    BY <2>3, <2>4
  <2>6. b[N - m] \in Nat /\ b[N - m + 1] \in Nat /\ b[N] \in Nat
    BY <2>4
  <2> QED BY <2>1, <2>5, <2>6
<1>2. N - j \in 0 .. N /\ N - (N - j) = j
  OBVIOUS
<1> QED BY <1>1, <1>2

(* The first sequences join to less than all of them. *)
LEMMA FlattenFirst ==
  ASSUME NEW S, NEW w \in Seq(Seq(S)), NEW k \in 0 .. Len(w)
  PROVE  /\ FlattenSeq(w) \in Seq(S)
         /\ FlattenSeq(SubSeq(w, 1, k)) \in Seq(S)
         /\ Len(FlattenSeq(SubSeq(w, 1, k))) <= Len(FlattenSeq(w))
<1> DEFINE N == Len(w)
           v == SubSeq(w, 1, k)
<1>1. N \in Nat /\ k \in Nat /\ k <= N /\ N = Len(w) /\ k \in 0 .. N
  OBVIOUS
<1>2. /\ v \in Seq(Seq(S)) /\ k = Len(v)
      /\ \A i \in 1 .. k : v[i] = w[i]
  OBVIOUS
<1>3. \A i \in 1 .. N : Len(w[i]) \in Nat
  OBVIOUS
<1> HIDE DEF N, v
<1>4. PICK b : IsTotal(b, w, N)
  BY <1>1, RunningTotal
<1>5. IsTotal(b, v, k)
  <2>1. /\ \A i \in 0 .. k : i \in 0 .. N
        /\ \A i \in 1 .. k : i \in 1 .. N
    BY <1>1
  <2> QED BY <1>2, <1>4, <2>1 DEF IsTotal
<1>6. FlattenSeq(w) \in Seq(S) /\ Len(FlattenSeq(w)) = b[N]
  BY <1>1, <1>4, FlattenIndex
<1>7. FlattenSeq(v) \in Seq(S) /\ Len(FlattenSeq(v)) = b[k]
  BY <1>2, <1>5, FlattenIndex
<1>8. b[k] <= b[N]
  <2>1. \A i \in 0 .. N : b[i] \in Nat
    BY <1>4 DEF IsTotal
  <2>2. ASSUME NEW i \in 1 .. N PROVE b[i-1] <= b[i]
    <3>1. i - 1 \in 0 .. N /\ b[i] = b[i-1] + Len(w[i])
      BY <1>1, <1>4 DEF IsTotal
    <3> QED BY <1>3, <2>1, <3>1
  <2> QED BY <1>1, <2>1, <2>2, TotalsGrow
<1> QED BY <1>6, <1>7, <1>8 DEF v

(* What is appended last comes last. *)
LEMMA FlattenAppend ==
  ASSUME NEW S, NEW w \in Seq(Seq(S)), NEW x \in Seq(S)
  PROVE  /\ FlattenSeq(Append(w, x)) \in Seq(S)
         /\ EndsWith(FlattenSeq(Append(w, x)), x)
<1> DEFINE v == Append(w, x)
           N == Len(v)
           s == FlattenSeq(v)
<1>1. /\ v \in Seq(Seq(S)) /\ N \in Nat \ {0} /\ v[N] = x /\ Len(x) \in Nat
      /\ N = Len(v)
  BY AppendProperties
<1> HIDE DEF v, N
<1>2. PICK b : IsTotal(b, v, N)
  BY <1>1, RunningTotal
<1>3. s \in Seq(S) /\ Len(s) = b[N] /\ JoinedIn(s, v, b, N)
  BY <1>1, <1>2, FlattenIndex
<1> HIDE DEF s
<1>4. N \in 1 .. N /\ N \in 0 .. N /\ N - 1 \in 0 .. N
  BY <1>1
<1>5. b[N] = b[N-1] + Len(x) /\ b[N-1] \in Nat
  BY <1>1, <1>2, <1>4 DEF IsTotal
<1>6. \A i \in 1 .. Len(x) : s[b[N-1] + i] = x[i]
  BY <1>1, <1>3, <1>4 DEF JoinedIn
<1>7. Len(x) <= Len(s) /\ Len(s) - Len(x) = b[N-1]
  BY <1>1, <1>3, <1>5
<1>8. EndsWith(s, x)
  BY <1>6, <1>7 DEF EndsWith
<1> QED BY <1>3, <1>8 DEF s, v

(* x is nothing, or a part of s that begins behind position pos. *)
PartBehind(x, s, pos) ==
  \/ x = <<>>
  \/ \E n \in Nat : pos + n <= Len(s) /\ x = SubSeq(s, pos + 1, pos + n)

(* At most size elements of s, and no more than it has. *)
Beginning(s, size) == SubSeq(s, 1, Min({Len(s), size}))

(* The beginning of the rest of a sequence is a part of it. *)
LEMMA BeginningOfRest ==
  ASSUME NEW S, NEW s \in Seq(S), NEW pos \in Nat, NEW size \in Nat,
         NEW rest, rest = SubSeq(s, pos + 1, Len(s))
  PROVE  PartBehind(Beginning(rest, size), s, pos)
<1> USE DEF PartBehind, Beginning
<1> DEFINE m == Min({Len(rest), size})
<1>1. CASE pos >= Len(s)
  <2>1. rest = <<>> /\ Len(rest) = 0
    BY <1>1
  <2>2. m = 0
    <3>1. m = IF 0 <= size THEN 0 ELSE size
      BY <2>1 DEF Min
    <3> QED BY <3>1
  <2> HIDE DEF m
  <2>3. SubSeq(rest, 1, m) = <<>>
    BY <2>1, <2>2
  <2> QED BY <2>3 DEF m
<1>2. CASE pos < Len(s)
  <2> DEFINE d == Len(s) - pos
  <2>1. d \in Nat /\ pos + d = Len(s) /\ pos + d <= Len(s)
    BY <1>2
  <2> HIDE DEF d
  <2>2. rest = SubSeq(s, pos + 1, pos + d)
    BY <2>1
  <2>3. /\ rest \in Seq(S) /\ Len(rest) = d
        /\ \A i \in 1 .. d : rest[i] = s[pos + i]
    <3>1. /\ SubSeq(s, pos + 1, pos + d) \in Seq(S)
          /\ Len(SubSeq(s, pos + 1, pos + d)) = d
          /\ \A j \in 1 .. d : SubSeq(s, pos + 1, pos + d)[j] = s[pos + j]
      BY <2>1, SubSeqParts
    <3> QED BY <2>2, <3>1
  <2>4. m \in Nat /\ m <= d
    <3>1. m = IF d <= size THEN d ELSE size
      BY <2>1, <2>3 DEF Min
    <3> QED BY <2>1, <3>1
  <2> HIDE DEF m
  <2>5. SubSeq(rest, 1, m) = SubSeq(s, pos + 1, pos + m)
    <3> DEFINE u == SubSeq(rest, 1, m)
               v == SubSeq(s, pos + 1, pos + m)
    <3>1. u \in Seq(S) /\ Len(u) = m /\ \A j \in 1 .. m : u[j] = rest[j]
      BY <2>3, <2>4
    <3>2. v \in Seq(S) /\ Len(v) = m /\ \A j \in 1 .. m : v[j] = s[pos + j]
      <4>1. pos + m <= Len(s)
        BY <2>1, <2>4
      <4> QED BY <2>4, <4>1, SubSeqParts
    <3>3. \A j \in 1 .. m : rest[j] = s[pos + j]
      BY <2>1, <2>3, <2>4
    <3> HIDE DEF u, v
    <3>4. \A j \in 1 .. m : u[j] = v[j]
      BY <3>1, <3>2, <3>3
    <3>5. u \in Seq(S) /\ v \in Seq(S) /\ Len(u) = m /\ Len(v) = m
      BY <3>1, <3>2
    <3>6. u = v
      BY ONLY <3>4, <3>5
    <3> QED BY <3>6 DEF u, v
  <2>6. pos + m <= Len(s)
    BY <2>1, <2>4
  <2> QED BY <2>4, <2>5, <2>6 DEF m
<1>3. pos >= Len(s) \/ pos < Len(s)
  OBVIOUS
<1> HIDE DEF m
<1> QED BY <1>1, <1>2, <1>3
=============================================================================

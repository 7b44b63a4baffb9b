--------------------------- MODULE RamdiskProofs ---------------------------
(***************************************************************************)
(* Proofs about Ramdisk: what the kernel reads, lists and loads is what    *)
(* the host put into the image, for images of any number of files of any   *)
(* length.  What the recursive definitions of the layout compute is proved *)
(* by induction over sets of natural numbers (SetInduction), which rests   *)
(* on the fact that < is well founded.                                     *)
(***************************************************************************)
EXTENDS Ramdisk, WellFoundedInduction, TLAPS

-----------------------------------------------------------------------------
(* Induction, and what the recursive definitions define                    *)

\* A set with 0, and with the next of each of its numbers, has all numbers.
LEMMA SetInduction ==
  ASSUME NEW S, 0 \in S, \A n \in Nat : n \in S => n + 1 \in S
  PROVE  Nat \subseteq S
<1> DEFINE T == Nat \ S
           R == {ss \in Nat \X Nat : ss[1] < ss[2]}
<1> SUFFICES ASSUME T # {} PROVE FALSE
  OBVIOUS
<1>1. PICK x \in T : \A y \in T : ~ (<<y, x>> \in R)
  <2>1. IsWellFoundedOn(R, Nat)
    BY NatLessThanWellFounded, Zenon DEF OpToRel
  <2>2. T \subseteq Nat
    OBVIOUS
  <2> HIDE DEF T, R
  <2> QED BY <2>1, <2>2, WFMin
<1>2. x # 0 /\ x - 1 \in Nat /\ x \in Nat
  OBVIOUS
<1>3. x - 1 \notin T
  BY <1>1, <1>2, <<x - 1, x>> \in R
<1> QED BY <1>2, <1>3

\* The function that the definition of FlattenSeq describes exists.
LEMMA FlattenDefined ==
  ASSUME NEW q, Len(q) \in Nat \ {0}
  PROVE  \E g : /\ g = [k \in 1 .. Len(q) |-> IF k = 1 THEN q[k] ELSE g[k - 1] \o q[k]]
                /\ FlattenSeq(q) = g[Len(q)]
<1> DEFINE G(g, m) == g = [k \in 1 .. m |-> IF k = 1 THEN q[k] ELSE g[k - 1] \o q[k]]
           S == {m \in Nat : \E g : G(g, m)}
<1>1. \E g : G(g, 0)
  <2>1. G([k \in 1 .. 0 |-> 0], 0)
    OBVIOUS
  <2> QED BY <2>1
<1>2. ASSUME NEW m \in Nat, NEW g, G(g, m)
      PROVE  \E h : G(h, m + 1)
  <2> DEFINE h == [k \in 1 .. m + 1 |->
                     IF k = m + 1 THEN (IF k = 1 THEN q[k] ELSE g[k - 1] \o q[k]) ELSE g[k]]
  <2>1. ASSUME NEW k \in 1 .. m + 1
        PROVE  h[k] = IF k = 1 THEN q[k] ELSE h[k - 1] \o q[k]
    <3>1. CASE k = m + 1
      BY <3>1
    <3>2. CASE k # m + 1
      <4>1. k \in 1 .. m /\ (k # 1 => k - 1 \in 1 .. m)
        BY <3>2
      <4>2. g[k] = IF k = 1 THEN q[k] ELSE g[k - 1] \o q[k]
        BY <1>2, <4>1
      <4>3. h[k] = g[k] /\ (k # 1 => h[k - 1] = g[k - 1])
        BY <3>2, <4>1
      <4> QED BY <4>2, <4>3
    <3> QED BY <3>1, <3>2
  <2>2. G(h, m + 1)
    BY <2>1
  <2> QED BY <2>2
<1> HIDE DEF G
<1>3. Nat \subseteq S
  <2>1. 0 \in S
    BY <1>1
  <2>2. ASSUME NEW m \in Nat, m \in S
        PROVE  m + 1 \in S
    <3>1. PICK g : G(g, m)
      BY <2>2
    <3>2. \E h : G(h, m + 1)
      BY <3>1, <1>2
    <3> QED BY <3>2
  <2> HIDE DEF S
  <2> QED BY <2>1, <2>2, SetInduction
<1>4. \E g : G(g, Len(q))
  BY <1>3
<1> DEFINE f == CHOOSE g : G(g, Len(q))
<1>5. G(f, Len(q))
  BY <1>4, Zenon
<1>6. FlattenSeq(q) = f[Len(q)]
  BY Zenon DEF FlattenSeq, G
<1> HIDE DEF f
<1> QED BY <1>5, <1>6 DEF G

\* The function that the definition of offset describes exists: the first file is
\* past all headers, and the next one where the one before it ends.
LEMMA OffsetDefined ==
  ASSUME NEW fs, Len(fs) \in Nat
  PROVE  \E g : /\ g = [k \in 0 .. Len(fs) |->
                          IF k = 0 THEN MaxFiles + 1 ELSE g[k - 1] + Len(fs[k].data)]
                /\ \A j \in 1 .. Len(fs) + 1 : offset(fs, j) = g[j - 1]
<1> DEFINE G(g, m) == g = [k \in 0 .. m |->
                             IF k = 0 THEN MaxFiles + 1 ELSE g[k - 1] + Len(fs[k].data)]
           S == {m \in Nat : \E g : G(g, m)}
<1>1. \E g : G(g, 0)
  <2>1. G([k \in 0 .. 0 |-> MaxFiles + 1], 0)
    OBVIOUS
  <2> QED BY <2>1
<1>2. ASSUME NEW m \in Nat, NEW g, G(g, m)
      PROVE  \E h : G(h, m + 1)
  <2> DEFINE h == [k \in 0 .. m + 1 |-> IF k = m + 1 THEN g[m] + Len(fs[k].data) ELSE g[k]]
  <2>1. ASSUME NEW k \in 0 .. m + 1
        PROVE  h[k] = IF k = 0 THEN MaxFiles + 1 ELSE h[k - 1] + Len(fs[k].data)
    <3>1. CASE k = m + 1
      BY <3>1
    <3>2. CASE k # m + 1
      <4>1. k \in 0 .. m /\ (k # 0 => k - 1 \in 0 .. m)
        BY <3>2
      <4>2. g[k] = IF k = 0 THEN MaxFiles + 1 ELSE g[k - 1] + Len(fs[k].data)
        BY <1>2, <4>1
      <4>3. h[k] = g[k] /\ (k # 0 => h[k - 1] = g[k - 1])
        BY <3>2, <4>1
      <4> QED BY <4>2, <4>3
    <3> QED BY <3>1, <3>2
  <2>2. G(h, m + 1)
    BY <2>1
  <2> QED BY <2>2
<1> HIDE DEF G
<1>3. Nat \subseteq S
  <2>1. 0 \in S
    BY <1>1
  <2>2. ASSUME NEW m \in Nat, m \in S
        PROVE  m + 1 \in S
    <3>1. PICK g : G(g, m)
      BY <2>2
    <3>2. \E h : G(h, m + 1)
      BY <3>1, <1>2
    <3> QED BY <3>2
  <2> HIDE DEF S
  <2> QED BY <2>1, <2>2, SetInduction
<1>4. \E g : G(g, Len(fs))
  BY <1>3
<1> DEFINE f == CHOOSE g : G(g, Len(fs))
<1>5. G(f, Len(fs))
  BY <1>4, Zenon
<1>6. \A j : offset(fs, j) = f[j - 1]
  BY Zenon DEF offset, G
<1> HIDE DEF f
<1> QED BY <1>5, <1>6 DEF G

\* Offsets are natural numbers past the headers, one after the other.
LEMMA OffsetFacts ==
  ASSUME NEW fs \in Seq(HostFile)
  PROVE  /\ offset(fs, 1) = MaxFiles + 1
         /\ \A j \in 1 .. Len(fs) : offset(fs, j + 1) = offset(fs, j) + Len(fs[j].data)
         /\ \A j \in 1 .. Len(fs) + 1 : offset(fs, j) \in Nat /\ offset(fs, j) > MaxFiles
<1>1. PICK g : /\ g = [k \in 0 .. Len(fs) |->
                          IF k = 0 THEN MaxFiles + 1 ELSE g[k - 1] + Len(fs[k].data)]
               /\ \A j \in 1 .. Len(fs) + 1 : offset(fs, j) = g[j - 1]
  BY OffsetDefined
<1>2. MaxFiles \in Nat
  BY RamdiskAssumption
<1>3. \A k \in 1 .. Len(fs) : Len(fs[k].data) \in Nat
  BY DEF HostFile
<1> DEFINE n == Len(fs)
           S == {m \in Nat : m <= n => g[m] \in Nat /\ g[m] > MaxFiles}
<1>4. n \in Nat
  OBVIOUS
<1>5. g[0] = MaxFiles + 1
  BY <1>1, <1>4
<1>6. \A k \in 1 .. n : g[k] = g[k - 1] + Len(fs[k].data)
  BY <1>1, <1>4
<1>7. Nat \subseteq S
  <2>1. 0 \in S
    BY <1>5, <1>2
  <2>2. ASSUME NEW m \in Nat, m \in S
        PROVE  m + 1 \in S
    <3>1. CASE m + 1 <= n
      <4>1. m + 1 \in 1 .. n /\ m <= n
        BY <3>1, <1>4
      <4>2. g[m + 1] = g[m] + Len(fs[m + 1].data)
        BY <4>1, <1>6
      <4>3. g[m] \in Nat /\ g[m] > MaxFiles
        BY <2>2, <4>1
      <4> QED BY <4>1, <4>2, <4>3, <1>2, <1>3
    <3> QED BY <3>1, <1>4
  <2> HIDE DEF S
  <2> QED BY <2>1, <2>2, SetInduction
<1>8. \A k \in 0 .. n : g[k] \in Nat /\ g[k] > MaxFiles
  BY <1>7, <1>4
<1>9. \A j \in 1 .. n + 1 : offset(fs, j) = g[j - 1] /\ j - 1 \in 0 .. n
  BY <1>1, <1>4
<1>10. ASSUME NEW j \in 1 .. n
       PROVE  offset(fs, j + 1) = offset(fs, j) + Len(fs[j].data)
  <2>1. j + 1 \in 1 .. n + 1 /\ j \in 1 .. n + 1 /\ (j + 1) - 1 = j
    BY <1>4
  <2> QED BY <2>1, <1>9, <1>6
<1>11. offset(fs, 1) = MaxFiles + 1
  BY <1>5, <1>9, <1>4
<1> HIDE DEF n
<1>12. \A j \in 1 .. n + 1 : offset(fs, j) \in Nat /\ offset(fs, j) > MaxFiles
  BY <1>8, <1>9
<1> QED BY <1>10, <1>11, <1>12 DEF n

\* What the provers know of two sequences put together.
LEMMA ConcatFacts ==
  ASSUME NEW D, NEW s \in Seq(D), NEW t \in Seq(D)
  PROVE  /\ s \o t \in Seq(D)
         /\ Len(s \o t) = Len(s) + Len(t)
         /\ \A k \in 1 .. Len(s) : (s \o t)[k] = s[k]
         /\ \A k \in 1 .. Len(t) : (s \o t)[Len(s) + k] = t[k]
OBVIOUS

\* Sequence s holds the first m sequences of q, each after its place in at.
Holds(D, q, at, s, m) ==
  /\ s \in Seq(D)
  /\ Len(s) = at[m + 1]
  /\ \A j \in 1 .. m : \A k \in 1 .. Len(q[j]) :
       at[j] + k \in 1 .. at[m + 1] /\ s[at[j] + k] = q[j][k]

\* The places at which n sequences of q begin when they are put together.
Places(D, q, n, at) ==
  /\ Len(q) = n /\ (n = 0 => q = << >>)
  /\ \A j \in 1 .. n : q[j] \in Seq(D)
  /\ \A j \in 1 .. n + 1 : at[j] \in Nat
  /\ at[1] = 0
  /\ \A j \in 1 .. n : at[j + 1] = at[j] + Len(q[j])

\* One more sequence is held after it was put at the end.
LEMMA HoldsNext ==
  ASSUME NEW D, NEW q, NEW n \in Nat, NEW at, Places(D, q, n, at),
         NEW m \in Nat, m < n, NEW s, Holds(D, q, at, s, m)
  PROVE  Holds(D, q, at, s \o q[m + 1], m + 1)
<1>1. PICK r \in 1 .. n : r = m + 1
  OBVIOUS
<1>2. PICK t : t = q[r]
  OBVIOUS
<1>3. t \in Seq(D) /\ s \in Seq(D)
  BY <1>2 DEF Places, Holds
<1>4. PICK u : u = s \o t
  OBVIOUS
<1>5. PICK a \in Nat, b \in Nat : a = at[r] /\ b = at[r + 1] /\ b = a + Len(t)
  BY <1>1, <1>2, r \in 1 .. n + 1, r + 1 \in 1 .. n + 1 DEF Places
<1>6. Len(s) = a
  BY <1>1, <1>5 DEF Holds
<1>7. u \in Seq(D) /\ Len(u) = b
  <2>1. s \o t \in Seq(D) /\ Len(s \o t) = Len(s) + Len(t)
    BY <1>3, ConcatFacts
  <2> QED BY <2>1, <1>4, <1>5, <1>6, Zenon
<1>8. ASSUME NEW j \in 1 .. r, NEW k \in 1 .. Len(q[j])
      PROVE  at[j] + k \in 1 .. b /\ u[at[j] + k] = q[j][k]
  <2>1. CASE j = r
    <3>1. k \in 1 .. Len(t) /\ Len(t) \in Nat
      BY <2>1, <1>2, <1>3
    <3>2. u[a + k] = t[k]
      <4>1. \A x \in 1 .. Len(t) : (s \o t)[Len(s) + x] = t[x]
        BY <1>3, ConcatFacts
      <4> QED BY <3>1, <4>1, <1>4, <1>6, Zenon
    <3>3. a + k \in 1 .. b
      <4>1. PICK y \in Nat : y = Len(t)
        BY <3>1
      <4>2. PICK x \in 1 .. y : x = k
        BY <3>1, <4>1
      <4>3. b = a + y
        BY <1>5, <4>1
      <4>4. a + x \in 1 .. b
        BY <4>3
      <4> QED BY <4>2, <4>4
    <3> QED BY <2>1, <3>2, <3>3, <1>2, <1>5
  <2>2. CASE j # r
    <3>1. j \in 1 .. m
      BY <2>2, <1>1
    <3>2. at[j] + k \in 1 .. a /\ s[at[j] + k] = q[j][k]
      <4>1. at[m + 1] = a
        BY <1>1, <1>5
      <4>2. \A i \in 1 .. m : \A x \in 1 .. Len(q[i]) :
              at[i] + x \in 1 .. at[m + 1] /\ s[at[i] + x] = q[i][x]
        BY Zenon DEF Holds
      <4> QED BY <3>1, <4>1, <4>2, Zenon
    <3>3. PICK z \in 1 .. a : z = at[j] + k /\ s[z] = q[j][k]
      BY <3>2
    <3>4. u[z] = s[z]
      BY <1>3, <1>4, <1>6, ConcatFacts
    <3>5. z \in 1 .. b
      BY <1>3, <1>5
    <3> QED BY <3>3, <3>4, <3>5
  <2> QED BY <2>1, <2>2
<1>9. Holds(D, q, at, u, r)
  BY <1>5, <1>7, <1>8 DEF Holds
<1> QED BY <1>1, <1>2, <1>4, <1>9

\* FlattenSeq puts all sequences one after the other.
LEMMA FlattenFacts ==
  ASSUME NEW D, NEW q, NEW n \in Nat, NEW at, Places(D, q, n, at)
  PROVE  Holds(D, q, at, FlattenSeq(q), n)
<1>1. ASSUME NEW s, s = << >>
      PROVE  Holds(D, q, at, s, 0)
  <2>1. s \in Seq(D) /\ Len(s) = 0
    BY <1>1
  <2>2. at[0 + 1] = 0
    BY DEF Places
  <2> QED BY <2>1, <2>2 DEF Holds
<1>2. CASE n = 0
  <2>1. FlattenSeq(q) = << >>
    BY <1>2 DEF FlattenSeq, Places
  <2> QED BY <1>1, <1>2, <2>1
<1>3. CASE n # 0
  <2>1. n \in Nat \ {0} /\ Len(q) = n
    BY <1>3 DEF Places
  <2>2. PICK g : /\ g = [k \in 1 .. n |-> IF k = 1 THEN q[k] ELSE g[k - 1] \o q[k]]
                 /\ FlattenSeq(q) = g[n]
    <3>1. \E g : /\ g = [k \in 1 .. Len(q) |-> IF k = 1 THEN q[k] ELSE g[k - 1] \o q[k]]
                 /\ FlattenSeq(q) = g[Len(q)]
      BY <2>1, FlattenDefined
    <3> QED BY <3>1, <2>1
  <2>3. g[1] = q[1] /\ \A k \in 1 .. n : k # 1 => g[k] = g[k - 1] \o q[k]
    <3>1. \A k \in 1 .. n : g[k] = IF k = 1 THEN q[k] ELSE g[k - 1] \o q[k]
      BY <2>2, Zenon
    <3> QED BY <2>1, <3>1, 1 \in 1 .. n
  <2> DEFINE S == {m \in Nat : m + 1 <= n => Holds(D, q, at, g[m + 1], m + 1)}
  <2>4. Holds(D, q, at, g[1], 1)
    <3>1. Holds(D, q, at, << >>, 0)
      BY <1>1
    <3>2. Holds(D, q, at, << >> \o q[0 + 1], 0 + 1)
      <4>1. 0 \in Nat /\ 0 < n
        BY <2>1
      <4> QED BY <3>1, <4>1, HoldsNext, Zenon
    <3>3. << >> \o q[1] = q[1]
      <4>1. q[1] \in Seq(D)
        BY <2>1 DEF Places
      <4> QED BY <4>1
    <3> QED BY <3>2, <3>3, <2>3
  <2>5. ASSUME NEW m \in Nat, m + 1 < n, Holds(D, q, at, g[m + 1], m + 1)
        PROVE  Holds(D, q, at, g[(m + 1) + 1], (m + 1) + 1)
    <3>1. g[(m + 1) + 1] = g[m + 1] \o q[(m + 1) + 1]
      BY <2>3, <2>5, (m + 1) + 1 \in 1 .. n, ((m + 1) + 1) - 1 = m + 1, (m + 1) + 1 # 1
    <3> QED BY <3>1, <2>5, m + 1 \in Nat, HoldsNext
  <2>6. Nat \subseteq S
    <3>1. 0 \in S
      BY <2>4
    <3>2. ASSUME NEW m \in Nat, m \in S
          PROVE  m + 1 \in S
      <4>1. CASE m + 1 < n
        BY <4>1, <3>2, <2>5
      <4> QED BY <4>1
    <3> HIDE DEF S
    <3> QED BY <3>1, <3>2, SetInduction
  <2>7. Holds(D, q, at, g[n], n)
    <3>1. PICK m \in Nat : m + 1 = n
      BY <2>1
    <3>2. m \in S
      BY <2>6
    <3> QED BY <3>1, <3>2
  <2> QED BY <2>7, <2>2
<1> QED BY <1>2, <1>3

-----------------------------------------------------------------------------
(* The image                                                               *)

HeaderCell == [kind : {"header"}, magic : BOOLEAN, name : Seq(Letter),
               offset : Nat, length : Nat]

\* Image im holds files fs, and the offsets of its first n headers are addresses.
Stored(fs, im, n) ==
  /\ 1 \in DOMAIN im /\ im[1].n = Len(fs)
  /\ \A j \in 1 .. Len(fs) :
       /\ j + 1 \in DOMAIN im
       /\ im[j + 1] \in HeaderCell
       /\ im[j + 1].name = fs[j].name
       /\ im[j + 1].length = Len(fs[j].data)
       /\ im[j + 1].offset = offset(fs, j) + (IF j <= n THEN location ELSE 0)
  /\ \A j \in 1 .. Len(fs) : \A k \in 1 .. Len(fs[j].data) :
       /\ offset(fs, j) + k \in DOMAIN im
       /\ im[offset(fs, j) + k] = fs[j].data[k]

\* What RamdiskAssumption says of the sizes.
LEMMA SizeFacts ==
  /\ Word \in Nat /\ NameLen \in Nat /\ MaxFiles \in Nat
  /\ 1 < Word
<1>1. /\ Word \in Nat /\ NameLen \in Nat /\ MaxFiles \in Nat \ {0}
      /\ MaxFiles < Word
  BY RamdiskAssumption
<1> QED
  BY <1>1

\* What RamdiskAssumption says of a list of files.
LEMMA FileFacts ==
  ASSUME NEW fs \in Images
  PROVE  /\ fs \in Seq(HostFile) /\ Len(fs) \in Nat /\ Len(fs) <= MaxFiles
         /\ DOMAIN fs = 1 .. Len(fs)
         /\ \A j \in 1 .. Len(fs) :
              /\ fs[j] \in HostFile
              /\ fs[j].name \in Seq(Letter) /\ Len(fs[j].name) \in 1 .. NameLen - 1
              /\ Len(fs[j].name) < NameLen
              /\ fs[j].data \in Seq(Cell) /\ Len(fs[j].data) \in Nat /\ Len(fs[j].data) < Word
              /\ WellFormed(fs[j].data)
<1>1. fs \in Seq(HostFile) /\ Len(fs) \in Nat /\ DOMAIN fs = 1 .. Len(fs) /\ Len(fs) <= MaxFiles
  BY RamdiskAssumption
<1>2. ASSUME NEW j \in 1 .. Len(fs)
      PROVE  /\ fs[j] \in HostFile
             /\ Len(fs[j].name) \in 1 .. NameLen - 1
             /\ Len(fs[j].name) < NameLen
             /\ Len(fs[j].data) < Word
             /\ WellFormed(fs[j].data)
  <2>1. /\ fs[j] \in HostFile
        /\ Len(fs[j].name) \in 1 .. HeaderLen - 1
        /\ Len(fs[j].data) < Word
        /\ WellFormed(fs[j].data)
    BY <1>1, RamdiskAssumption
  <2>2. HeaderLen \in Nat /\ NameLen \in Nat /\ HeaderLen <= NameLen
    BY RamdiskAssumption
  <2> QED
    BY <2>1, <2>2
<1>3. ASSUME NEW f \in HostFile
      PROVE  f.name \in Seq(Letter) /\ f.data \in Seq(Cell) /\ Len(f.data) \in Nat
  BY <1>3 DEF HostFile
<1> QED BY <1>1, <1>2, <1>3

\* What make_initrd writes is the image of its files.
LEMMA MadeStored ==
  ASSUME NEW fs \in Images
  PROVE  Stored(fs, make_initrd(fs), 0)
<1> DEFINE n == Len(fs)
           A == <<[kind |-> "count", n |-> Len(fs)]>>
           H == [j \in 1 .. MaxFiles |-> IF j <= Len(fs) THEN Header(fs, j)
                                         ELSE [kind |-> "header", magic |-> FALSE]]
           q == [j \in 1 .. Len(fs) |-> fs[j].data]
           C == FlattenSeq(q)
           D == {A[1]} \cup {H[j] : j \in 1 .. MaxFiles} \cup Cell
           at == [j \in 1 .. n + 1 |-> offset(fs, j) - (MaxFiles + 1)]
<1>1. n \in Nat /\ MaxFiles \in Nat /\ n <= MaxFiles /\ fs \in Seq(HostFile)
  BY FileFacts, RamdiskAssumption
<1>2. \A j \in 1 .. n : fs[j].data \in Seq(Cell) /\ Len(fs[j].data) \in Nat
  BY FileFacts
<1>3. /\ offset(fs, 1) = MaxFiles + 1
      /\ \A j \in 1 .. n : offset(fs, j + 1) = offset(fs, j) + Len(fs[j].data)
      /\ \A j \in 1 .. n + 1 : offset(fs, j) \in Nat /\ offset(fs, j) > MaxFiles
  BY OffsetFacts, <1>1
<1>4. Places(Cell, q, n, at)
  <2>1. Len(q) = n /\ (n = 0 => q = << >>)
    BY <1>1
  <2>2. \A j \in 1 .. n : q[j] \in Seq(Cell) /\ q[j] = fs[j].data
    BY <1>2
  <2>3. \A j \in 1 .. n + 1 : at[j] \in Nat /\ at[j] = offset(fs, j) - (MaxFiles + 1)
    BY <1>1, <1>3
  <2>4. at[1] = 0
    BY <2>3, <1>1, <1>3
  <2>5. ASSUME NEW j \in 1 .. n
        PROVE  at[j + 1] = at[j] + Len(q[j])
    <3>1. j \in 1 .. n + 1 /\ j + 1 \in 1 .. n + 1
      BY <1>1
    <3>2. PICK x \in Nat, y \in Nat, z \in Nat :
             x = offset(fs, j) /\ y = offset(fs, j + 1) /\ z = Len(fs[j].data) /\ y = x + z
      BY <3>1, <1>2, <1>3
    <3>3. at[j] = x - (MaxFiles + 1) /\ at[j + 1] = y - (MaxFiles + 1) /\ Len(q[j]) = z
      BY <3>1, <3>2, <2>2, <2>3
    <3>4. y - (MaxFiles + 1) = (x - (MaxFiles + 1)) + z
      BY <3>2, <1>1
    <3> HIDE DEF q, at, n
    <3> QED BY <3>3, <3>4, Zenon
  <2> HIDE DEF q, at, n
  <2> QED BY <2>1, <2>2, <2>3, <2>4, <2>5 DEF Places
<1>5. Holds(Cell, q, at, C, n)
  <2> HIDE DEF q, at, n
  <2> QED BY <1>1, <1>4, FlattenFacts
<1>6. A \in Seq(D) /\ Len(A) = 1 /\ A[1].n = n
  OBVIOUS
<1>7. H \in Seq(D) /\ Len(H) = MaxFiles
  <2>1. \A j \in 1 .. MaxFiles : H[j] \in D
    OBVIOUS
  <2>2. H \in [1 .. MaxFiles -> D]
    BY <2>1
  <2> HIDE DEF H, D
  <2> QED BY <2>2, <1>1
<1>8. C \in Seq(D)
  <2>1. C \in Seq(Cell) /\ Cell \subseteq D
    BY <1>5 DEF Holds
  <2> HIDE DEF C, D
  <2> QED BY <2>1
<1>9. \A j \in 1 .. n : H[j] = Header(fs, j)
  BY <1>1
<1>10. make_initrd(fs) = (A \o H) \o C
  BY Zenon DEF make_initrd
<1>11. PICK im : im = (A \o H) \o C
  OBVIOUS
<1>12. \A j \in 1 .. n : \A k \in 1 .. Len(fs[j].data) :
          (offset(fs, j) - (MaxFiles + 1)) + k \in 1 .. Len(C)
            /\ C[(offset(fs, j) - (MaxFiles + 1)) + k] = fs[j].data[k]
  <2>1. \A j \in 1 .. n : q[j] = fs[j].data /\ at[j] = offset(fs, j) - (MaxFiles + 1)
    BY <1>1
  <2> HIDE DEF q, at, n, C
  <2> QED BY <1>5, <2>1 DEF Holds
<1> HIDE DEF A, H, C, D, q, at
<1>13. PICK s : s = A \o H
  OBVIOUS
<1>14. s \in Seq(D) /\ Len(s) = MaxFiles + 1 /\ s[1] = A[1]
         /\ \A j \in 1 .. MaxFiles : s[j + 1] = H[j]
  <2>1. /\ s \in Seq(D) /\ Len(s) = Len(A) + Len(H)
        /\ \A k \in 1 .. Len(A) : s[k] = A[k]
        /\ \A k \in 1 .. Len(H) : s[Len(A) + k] = H[k]
    <3>1. /\ A \o H \in Seq(D) /\ Len(A \o H) = Len(A) + Len(H)
          /\ \A k \in 1 .. Len(A) : (A \o H)[k] = A[k]
          /\ \A k \in 1 .. Len(H) : (A \o H)[Len(A) + k] = H[k]
      <4>1. A \in Seq(D) /\ H \in Seq(D)
        BY <1>6, <1>7
      <4> QED BY <4>1, ConcatFacts
    <3> QED BY <3>1, <1>13, Zenon
  <2>2. \A k \in 1 .. MaxFiles : 1 + k = k + 1
    BY <1>1
  <2> QED BY <2>1, <2>2, <1>6, <1>7, <1>1
<1>15. /\ im \in Seq(D) /\ Len(im) = (MaxFiles + 1) + Len(C)
       /\ \A k \in 1 .. MaxFiles + 1 : im[k] = s[k]
       /\ \A k \in 1 .. Len(C) : im[(MaxFiles + 1) + k] = C[k]
  <2>1. /\ im \in Seq(D) /\ Len(im) = Len(s) + Len(C)
        /\ \A k \in 1 .. Len(s) : im[k] = s[k]
        /\ \A k \in 1 .. Len(C) : im[Len(s) + k] = C[k]
    <3>1. /\ s \o C \in Seq(D) /\ Len(s \o C) = Len(s) + Len(C)
          /\ \A k \in 1 .. Len(s) : (s \o C)[k] = s[k]
          /\ \A k \in 1 .. Len(C) : (s \o C)[Len(s) + k] = C[k]
      <4>1. s \in Seq(D) /\ C \in Seq(D)
        BY <1>8, <1>14
      <4> QED BY <4>1, ConcatFacts
    <3> QED BY <3>1, <1>11, <1>13, Zenon
  <2> QED BY <2>1, <1>14
<1>16. DOMAIN im = 1 .. (MaxFiles + 1) + Len(C) /\ Len(C) \in Nat
  BY <1>15, <1>8
<1> HIDE DEF n
<1>17. 1 \in DOMAIN im /\ im[1].n = n
  BY <1>1, <1>15, <1>14, <1>16, <1>6, 1 \in 1 .. MaxFiles + 1
<1>18. ASSUME NEW j \in 1 .. n
       PROVE  j + 1 \in DOMAIN im /\ im[j + 1] = Header(fs, j)
  <2>1. j \in 1 .. MaxFiles /\ j + 1 \in 1 .. MaxFiles + 1
    BY <1>1
  <2>2. im[j + 1] = s[j + 1] /\ s[j + 1] = H[j] /\ H[j] = Header(fs, j)
    BY <2>1, <1>9, <1>14, <1>15, Zenon
  <2>3. j + 1 \in DOMAIN im
    BY <2>1, <1>1, <1>16
  <2> QED BY <2>2, <2>3
<1>19. ASSUME NEW j \in 1 .. n
       PROVE  /\ Header(fs, j) \in HeaderCell
              /\ Header(fs, j).name = fs[j].name
              /\ Header(fs, j).length = Len(fs[j].data)
              /\ Header(fs, j).offset = offset(fs, j) + (IF j <= 0 THEN location ELSE 0)
  <2>1. offset(fs, j) \in Nat /\ Len(fs[j].data) \in Nat
    BY <1>1, <1>2, <1>3
  <2>2. fs[j].name \in Seq(Letter)
    BY FileFacts DEF n
  <2> QED BY <2>1, <2>2, <1>1 DEF Header, HeaderCell
<1>20. ASSUME NEW j \in 1 .. n, NEW k \in 1 .. Len(fs[j].data)
       PROVE  offset(fs, j) + k \in DOMAIN im /\ im[offset(fs, j) + k] = fs[j].data[k]
  <2>1. PICK o \in Nat : o = offset(fs, j) /\ o > MaxFiles
    BY <1>1, <1>3
  <2>2. PICK z \in 1 .. Len(C) : z = (o - (MaxFiles + 1)) + k /\ C[z] = fs[j].data[k]
    BY <1>12, <2>1
  <2>3. k \in Nat
    BY <1>2
  <2>4. (MaxFiles + 1) + z = o + k /\ o + k \in 1 .. (MaxFiles + 1) + Len(C)
    <3>1. PICK l \in Nat : l = Len(C)
      BY <1>16
    <3>2. z \in 1 .. l /\ z = (o - (MaxFiles + 1)) + k
      BY <3>1, <2>2
    <3>3. (MaxFiles + 1) + z = o + k /\ o + k \in 1 .. (MaxFiles + 1) + l
      <4>1. PICK h \in Nat : h = MaxFiles + 1
        BY <1>1
      <4>2. o >= h
        BY <4>1, <2>1, <1>1
      <4>3. z \in 1 .. l /\ z = (o - h) + k
        BY <4>1, <3>2
      <4>4. h + z = o + k /\ o + k \in 1 .. h + l
        <5>1. PICK k1 \in Nat, z1 \in Nat : k1 = k /\ z1 = z
          BY <4>3, <2>3
        <5>2. z1 \in 1 .. l /\ z1 = (o - h) + k1
          BY <5>1, <4>3
        <5>3. h + z1 = o + k1
          BY <5>2, <4>2
        <5>4. o + k1 \in 1 .. h + l
          BY <5>2, <4>2
        <5> QED BY <5>1, <5>3, <5>4
      <4> QED BY <4>1, <4>4
    <3> QED BY <3>1, <3>3
  <2>5. im[(MaxFiles + 1) + z] = C[z]
    BY <1>15
  <2> QED BY <2>1, <2>2, <2>4, <2>5, <1>16
<1>21. Stored(fs, im, 0)
  BY <1>17, <1>18, <1>19, <1>20 DEF Stored, n
<1> QED BY <1>10, <1>11, <1>21

\* A turn of the loop of init_initrd() makes one more offset an address.
LEMMA RelocatedStored ==
  ASSUME NEW fs \in Images, NEW im, NEW r \in Nat, r < Len(fs), Stored(fs, im, r)
  PROVE  Stored(fs, [im EXCEPT ![(r + 1) + 1].offset = @ + location], r + 1)
<1>1. PICK j \in 1 .. Len(fs) : j = r + 1
  BY FileFacts
<1>2. PICK new : new = [im EXCEPT ![j + 1].offset = @ + location]
  OBVIOUS
<1>3. Len(fs) \in Nat /\ Len(fs) <= MaxFiles /\ MaxFiles \in Nat /\ j \in Nat /\ location \in Nat
  BY <1>1, FileFacts, RamdiskAssumption
<1>4. DOMAIN new = DOMAIN im /\ \A x \in DOMAIN im : x # j + 1 => new[x] = im[x]
  BY <1>2
<1>5. \A m \in 1 .. Len(fs) : m + 1 \in DOMAIN im /\ im[m + 1] \in HeaderCell
  BY DEF Stored
<1>6. new[j + 1] = [im[j + 1] EXCEPT !.offset = im[j + 1].offset + location]
  BY <1>2, <1>5
<1>7. ASSUME NEW m \in 1 .. Len(fs)
       PROVE  offset(fs, m) \in Nat /\ offset(fs, m) > MaxFiles
  <2>1. fs \in Seq(HostFile) /\ m \in 1 .. Len(fs) + 1
    BY <1>3, FileFacts
  <2> QED BY <2>1, OffsetFacts
<1>8. ASSUME NEW m \in 1 .. Len(fs)
      PROVE  /\ new[m + 1] \in HeaderCell
             /\ new[m + 1].name = im[m + 1].name
             /\ new[m + 1].length = im[m + 1].length
             /\ new[m + 1].offset = offset(fs, m) + (IF m <= r + 1 THEN location ELSE 0)
  <2>1. PICK o \in Nat : o = offset(fs, m)
    BY <1>7
  <2>2. im[m + 1].offset = o + (IF m <= r THEN location ELSE 0)
    BY <2>1 DEF Stored
  <2>3. CASE m = j
    <3>1. im[m + 1].offset = o
      BY <2>2, <2>3, <1>1
    <3>2. new[m + 1] = [im[m + 1] EXCEPT !.offset = o + location]
      BY <3>1, <2>3, <1>6
    <3>3. im[m + 1] \in HeaderCell /\ o + location \in Nat
      BY <1>3, <1>5
    <3>4. PICK h \in HeaderCell, v \in Nat : h = im[m + 1] /\ v = o + location
      BY <3>3
    <3>5. PICK g : g = [h EXCEPT !.offset = v]
      OBVIOUS
    <3>6. g \in HeaderCell /\ g.name = h.name /\ g.length = h.length /\ g.offset = v
      BY <3>4, <3>5 DEF HeaderCell
    <3>7. new[m + 1] = g /\ m <= r + 1
      BY <3>2, <3>4, <3>5, <2>3, <1>1
    <3> QED BY <3>4, <3>6, <3>7, <2>1
  <2>4. CASE m # j
    <3>1. new[m + 1] = im[m + 1]
      BY <2>4, <1>4, <1>5, m + 1 # j + 1
    <3>2. (m <= r) <=> (m <= r + 1)
      BY <2>4, <1>1, <1>3
    <3> QED BY <3>1, <3>2, <2>1, <2>2, <1>5
  <2> QED BY <2>3, <2>4
<1>9. new[1].n = im[1].n /\ 1 \in DOMAIN new
  BY <1>3, <1>4, 1 # j + 1 DEF Stored
<1>10. ASSUME NEW m \in 1 .. Len(fs), NEW k \in 1 .. Len(fs[m].data)
      PROVE  new[offset(fs, m) + k] = im[offset(fs, m) + k]
  <2>1. PICK o \in Nat : o = offset(fs, m) /\ o > MaxFiles
    BY <1>7
  <2>2. k \in Nat \ {0} /\ o + k # j + 1
    BY <2>1, <1>3, FileFacts
  <2>3. o + k \in DOMAIN im
    BY <2>1 DEF Stored
  <2> QED BY <2>1, <2>2, <2>3, <1>4
<1>11. Stored(fs, new, r + 1)
  BY <1>4, <1>5, <1>8, <1>9, <1>10 DEF Stored
<1> QED BY <1>1, <1>2, <1>11

\* A header that is not one of this ramdisk leaves the rest as it is.
LEMMA CorruptStored ==
  ASSUME NEW fs \in Images, NEW j \in 1 .. Len(fs)
  PROVE  Stored(fs, Corrupt(fs, j), 0)
<1>1. Stored(fs, make_initrd(fs), 0)
  BY MadeStored
<1>2. PICK im : im = make_initrd(fs)
  OBVIOUS
<1>3. PICK new : new = [im EXCEPT ![j + 1].magic = FALSE]
  OBVIOUS
<1>4. Stored(fs, im, 0)
  BY <1>1, <1>2
<1>5. Len(fs) \in Nat /\ Len(fs) <= MaxFiles /\ MaxFiles \in Nat /\ j \in Nat
  BY FileFacts, RamdiskAssumption
<1>6. DOMAIN new = DOMAIN im /\ \A x \in DOMAIN im : x # j + 1 => new[x] = im[x]
  BY <1>3
<1>7. \A m \in 1 .. Len(fs) : m + 1 \in DOMAIN im /\ im[m + 1] \in HeaderCell
  BY <1>4 DEF Stored
<1>8. new[j + 1] = [im[j + 1] EXCEPT !.magic = FALSE]
  BY <1>3, <1>7
<1>9. ASSUME NEW m \in 1 .. Len(fs)
      PROVE  /\ new[m + 1] \in HeaderCell
             /\ new[m + 1].name = im[m + 1].name
             /\ new[m + 1].length = im[m + 1].length
             /\ new[m + 1].offset = im[m + 1].offset
  <2>1. CASE m = j
    BY <2>1, <1>7, <1>8 DEF HeaderCell
  <2>2. CASE m # j
    BY <2>2, <1>6, <1>7, m + 1 # j + 1
  <2> QED BY <2>1, <2>2
<1>10. new[1].n = im[1].n
  BY <1>4, <1>6, <1>5, 1 # j + 1 DEF Stored
<1>11. ASSUME NEW m \in 1 .. Len(fs), NEW k \in 1 .. Len(fs[m].data)
       PROVE  new[offset(fs, m) + k] = im[offset(fs, m) + k]
  <2>1. PICK o \in Nat : o = offset(fs, m) /\ o > MaxFiles
    <3>1. fs \in Seq(HostFile) /\ m \in 1 .. Len(fs) + 1
      BY <1>5, FileFacts
    <3> QED BY <3>1, OffsetFacts
  <2>2. k \in Nat \ {0} /\ o + k # j + 1
    BY <2>1, <1>5, FileFacts
  <2>3. o + k \in DOMAIN im
    BY <2>1, <1>4 DEF Stored
  <2> QED BY <2>1, <2>2, <2>3, <1>6
<1>12. Stored(fs, new, 0)
  BY <1>4, <1>6, <1>7, <1>9, <1>10, <1>11 DEF Stored
<1> QED BY <1>2, <1>3, <1>12 DEF Corrupt

-----------------------------------------------------------------------------
(* Reading a file                                                          *)

\* A part of a sequence, by its elements.
LEMMA SubSeqIs ==
  ASSUME NEW D, NEW s \in Seq(D), NEW m \in Nat, NEW n \in Nat, n <= Len(s)
  PROVE  SubSeq(s, m + 1, n) = [k \in 1 .. n - m |-> s[m + k]]
OBVIOUS

\* Where a read of size cells ends in d.
ReadEnd(d, off, size) == IF off + size < Len(d) THEN off + size ELSE Len(d)

\* What is copied when every header is relocated: the bytes asked for, as far as
\* there are any.
LEMMA ReadIs ==
  ASSUME files \in Images, Stored(files, image, Len(files)),
         NEW j \in 1 .. Len(files), NEW off \in Nat, NEW size \in Nat, off + size < Word
  PROVE  /\ read(j, off, size)
              = SubSeq(files[j].data, off + 1, ReadEnd(files[j].data, off, size))
         /\ read(j, off, size)
              = [k \in 1 .. ReadEnd(files[j].data, off, size) - off |-> files[j].data[off + k]]
<1>1. PICK d : d = files[j].data
  OBVIOUS
<1>2. d \in Seq(Cell) /\ Len(d) \in Nat /\ Word \in Nat /\ location \in Nat
  BY <1>1, FileFacts, RamdiskAssumption
<1>3. PICK n \in Nat : /\ n = ReadEnd(d, off, size)
                       /\ n = IF off + size < Len(d) THEN off + size ELSE Len(d)
  BY <1>2 DEF ReadEnd
<1>4. PICK o \in Nat : o = offset(files, j)
  BY FileFacts, OffsetFacts
<1>5. PICK h : h = image[j + 1]
  OBVIOUS
<1>6. h.length = Len(d) /\ h.offset = o + location
  BY <1>1, <1>4, <1>5, FileFacts DEF Stored
<1>7. \A k \in 1 .. Len(d) : o + k \in DOMAIN image /\ image[o + k] = d[k]
  BY <1>1, <1>4 DEF Stored
<1>8. PICK l \in Nat : l = Len(d)
  BY <1>2
<1>9. (off + size) % Word = off + size
  BY <1>2
<1>10. ASSUME NEW k \in 1 .. l - off
      PROVE  Memory((h.offset + off) + (k - 1)) = d[off + k]
  <2>1. (((h.offset + off) + (k - 1)) - location) + 1 = o + (off + k)
    BY <1>2, <1>6
  <2>2. off + k \in 1 .. l
    OBVIOUS
  <2>3. o + (off + k) \in DOMAIN image /\ image[o + (off + k)] = d[off + k]
    BY <2>2, <1>7, <1>8
  <2> QED BY <2>1, <2>3 DEF Memory
<1>11. read(j, off, size) = [k \in 1 .. n - off |-> d[off + k]]
  <2>1. read(j, off, size) = initrd_read(h, off, size)
    BY <1>5 DEF read, file_headers
  <2>2. CASE off > l
    <3>1. initrd_read(h, off, size) = << >>
      BY <2>2, <1>6, <1>8 DEF initrd_read
    <3>2. n - off < 0 /\ n - off \in Int
      BY <2>2, <1>8, <1>3
    <3>3. 1 .. n - off = {}
      BY <3>2
    <3>4. ASSUME NEW S, S = {}
          PROVE  [k \in S |-> d[off + k]] = << >>
      BY <3>4
    <3> QED BY <2>1, <3>1, <3>3, <3>4, Zenon
  <2>3. CASE off <= l
    <3>1. (IF (off + size) % Word > h.length THEN h.length - off ELSE size) = n - off
      BY <2>3, <1>6, <1>8, <1>9, <1>3
    <3>2. initrd_read(h, off, size)
            = [k \in 1 .. n - off |-> Memory((h.offset + off) + (k - 1))]
      <4>1. ~ (off > h.length)
        BY <2>3, <1>6, <1>8
      <4>2. initrd_read(h, off, size)
              = [k \in 1 .. (IF (off + size) % Word > h.length THEN h.length - off ELSE size)
                   |-> Memory((h.offset + off) + (k - 1))]
        BY <4>1, Zenon DEF initrd_read
      <4> QED BY <4>2, <3>1, Zenon
    <3>3. \A k \in 1 .. n - off : k \in 1 .. l - off
      BY <1>8, <1>3
    <3> QED BY <2>1, <3>2, <3>3, <1>10
  <2> QED BY <2>2, <2>3, <1>8
<1>12. n <= Len(d)
  BY <1>2, <1>3
<1>13. SubSeq(d, off + 1, n) = [k \in 1 .. n - off |-> d[off + k]]
  BY <1>2, <1>12, SubSeqIs
<1> QED BY <1>1, <1>11, <1>13, <1>3, Zenon

-----------------------------------------------------------------------------
(* Names                                                                   *)

\* The name of the one directory is a name.
LEMMA DevName == dev \in Seq(Letter) /\ Len(dev) < NameLen
<1>1. ASSUME NEW S, NEW x \in S, NEW y \in S, NEW z \in S
      PROVE  <<x, y, z>> \in Seq(S)
  OBVIOUS
<1> QED BY <1>1, RamdiskAssumption DEF dev

\* A string ends where its first zero is.
LEMMA StrIs ==
  ASSUME NEW a, NEW s \in Seq(Letter), Len(s) < NameLen,
         \A k \in 0 .. Len(s) - 1 : a[k] = s[k + 1], a[Len(s)] = "nul"
  PROVE  Str(a) = s
<1>1. PICK n \in Nat : n = Len(s)
  OBVIOUS
<1>2. NameLen \in Nat /\ n < NameLen
  BY <1>1, RamdiskAssumption
<1> DEFINE P(k) == a[k] = "nul" /\ \A m \in 0 .. k - 1 : a[m] # "nul"
<1>3. \A k \in 0 .. n - 1 : a[k] # "nul"
  <2>1. \A k \in 1 .. n : s[k] # "nul"
    <3>1. \A k \in 1 .. n : s[k] \in Letter
      BY <1>1
    <3> QED BY <3>1, RamdiskAssumption
  <2> QED BY <2>1, <1>1
<1>4. P(n)
  BY <1>1, <1>3
<1>5. ASSUME NEW k \in 0 .. NameLen - 1, P(k)
      PROVE  k = n
  <2>1. ~ k < n
    BY <1>3, <1>5
  <2>2. ~ n < k
    BY <1>1, <1>5, n \in 0 .. k - 1 \/ ~ n < k
  <2> QED BY <2>1, <2>2
<1>6. n \in 0 .. NameLen - 1
  BY <1>2
<1>7. (CHOOSE k \in 0 .. NameLen - 1 : P(k)) = n
  <2> HIDE DEF P
  <2> QED BY <1>4, <1>5, <1>6
<1>8. Str(a) = [k \in 1 .. n |-> a[k - 1]]
  BY <1>7 DEF Str
<1>9. \A k \in 1 .. n : a[k - 1] = s[k]
  BY <1>1
<1>10. s = [k \in 1 .. n |-> s[k]]
  BY <1>1
<1> QED BY <1>8, <1>9, <1>10

\* The name of a new node, which kmalloc_zero() has cleared.
LEMMA CopiedName ==
  ASSUME NEW s \in Seq(Letter), Len(s) < NameLen
  PROVE  Str(strcpy(Zeros, s)) = s
<1>1. PICK n \in Nat : n = Len(s) /\ NameLen \in Nat /\ n < NameLen
  BY RamdiskAssumption
<1> DEFINE a == strcpy(Zeros, s)
<1>2. \A k \in 0 .. NameLen - 1 : a[k] = IF k < n THEN s[k + 1] ELSE "nul"
  BY <1>1 DEF strcpy, Zeros
<1>3. \A k \in 0 .. Len(s) - 1 : a[k] = s[k + 1]
  BY <1>1, <1>2
<1>4. a[Len(s)] = "nul"
  BY <1>1, <1>2
<1> HIDE DEF a
<1> QED BY <1>3, <1>4, StrIs DEF a

\* The shared entry holds the name that was copied last, whatever it held.
LEMMA EntryName ==
  ASSUME NEW s \in Seq(Letter), Len(s) < NameLen, NEW m,
         DOMAIN dirent.name = 0 .. NameLen - 1
  PROVE  Str(Entry(s, m).name) = s /\ DOMAIN Entry(s, m).name = 0 .. NameLen - 1
<1>1. PICK n \in Nat : n = Len(s) /\ NameLen \in Nat /\ n < NameLen
  BY RamdiskAssumption
<1>2. PICK b : b = strcpy(dirent.name, s)
  OBVIOUS
<1>3. DOMAIN b = 0 .. NameLen - 1 /\ \A k \in 0 .. n - 1 : b[k] = s[k + 1]
  BY <1>1, <1>2 DEF strcpy
<1>4. PICK a : a = [b EXCEPT ![n] = "nul"]
  OBVIOUS
<1>5. DOMAIN a = 0 .. NameLen - 1 /\ (\A k \in 0 .. n - 1 : a[k] = s[k + 1]) /\ a[n] = "nul"
  BY <1>1, <1>3, <1>4
<1>6. Str(a) = s
  BY <1>1, <1>5, StrIs
<1>7. Entry(s, m).name = a
  BY <1>1, <1>2, <1>4 DEF Entry
<1> QED BY <1>5, <1>6, <1>7

\* A set of natural numbers has a smallest one.
LEMMA Smallest ==
  ASSUME NEW S \in SUBSET Nat, S # {}
  PROVE  \E x \in S : \A y \in S : x <= y
<1> DEFINE R == {ss \in Nat \X Nat : ss[1] < ss[2]}
<1>1. IsWellFoundedOn(R, Nat)
  BY NatLessThanWellFounded, Zenon DEF OpToRel
<1>2. PICK x \in S : \A y \in S : ~ (<<y, x>> \in R)
  <2> HIDE DEF R
  <2> QED BY <1>1, WFMin
<1>3. ASSUME NEW y \in S
      PROVE  x <= y
  <2>1. y \in Nat /\ x \in Nat /\ <<y, x>> \notin R
    BY <1>2
  <2>2. ~ y < x
    BY <2>1, <<y, x>> \in Nat \X Nat
  <2> QED BY <2>1, <2>2
<1> QED BY <1>3

\* The first file of a name, and the node finddir() is to return for the name.
First(fs, name)  == CHOOSE j \in DOMAIN fs :
                      /\ fs[j].name = name
                      /\ \A m \in DOMAIN fs : fs[m].name = name => j <= m
NodeOf(fs, name) == IF name = dev THEN 0 ELSE First(fs, name)

\* Once all files are mounted, finddir() returns the first node of a name.
LEMMA FindsFirst ==
  ASSUME DOMAIN files = 1 .. Len(files), Len(files) \in Nat,
         DOMAIN root_nodes = 1 .. Len(files),
         \A j \in 1 .. Len(files) : Str(root_nodes[j].name) = files[j].name,
         NEW name, name = dev \/ \E j \in 1 .. Len(files) : files[j].name = name
  PROVE  finddir(name) = NodeOf(files, name) /\ finddir(name) \in 0 .. Len(files)
<1>1. CASE name = dev
  BY <1>1 DEF finddir, NodeOf
<1>2. CASE name # dev
  <2> DEFINE S == {j \in 1 .. Len(files) : files[j].name = name}
  <2>1. S \in SUBSET Nat /\ S # {}
    BY <1>2
  <2>2. PICK x \in S : \A y \in S : x <= y
    BY <2>1, Smallest, Zenon
  <2>3. Matches(name) = S
    BY DEF Matches
  <2>4. ASSUME NEW y \in S, \A m \in S : y <= m
        PROVE  y = x
    BY <2>1, <2>2, <2>4
  <2>5. finddir(name) = CHOOSE y \in S : \A m \in S : y <= m
    <3> HIDE DEF S
    <3> QED BY <2>1, <2>3, <1>2 DEF finddir
  <2>6. finddir(name) = x
    <3> HIDE DEF S
    <3> QED BY <2>2, <2>4, <2>5
  <2> DEFINE Q(y) == files[y].name = name
                       /\ \A m \in DOMAIN files : files[m].name = name => y <= m
  <2>7. x \in DOMAIN files /\ Q(x)
    BY <2>2
  <2>8. ASSUME NEW y \in DOMAIN files, Q(y)
        PROVE  y = x
    <3>1. y \in S /\ \A m \in S : y <= m
      BY <2>8
    <3> QED BY <3>1, <2>4
  <2>9. (CHOOSE y \in DOMAIN files : Q(y)) = x
    <3> HIDE DEF Q
    <3> QED BY <2>7, <2>8
  <2>10. First(files, name) = x
    BY <2>9 DEF First
  <2> QED BY <2>6, <2>7, <2>10, <1>2 DEF NodeOf
<1> QED BY <1>1, <1>2

\* For any name, finddir() returns a node of the root, dev or none.
LEMMA FindRange ==
  ASSUME NEW n \in Nat, DOMAIN root_nodes = 1 .. n, NEW name
  PROVE  finddir(name) = -1 \/ finddir(name) \in 0 .. n
<1>1. CASE name = dev
  BY <1>1 DEF finddir
<1>2. CASE name # dev /\ Matches(name) = {}
  BY <1>2 DEF finddir
<1>3. CASE name # dev /\ Matches(name) # {}
  <2>1. PICK S : S = Matches(name)
    OBVIOUS
  <2>2. S \in SUBSET Nat /\ S # {} /\ S \subseteq 1 .. n
    BY <2>1, <1>3 DEF Matches
  <2>3. \E x \in S : \A y \in S : x <= y
    BY <2>2, Smallest
  <2>4. finddir(name) = CHOOSE x \in S : \A y \in S : x <= y
    BY <2>1, <2>2, <1>3 DEF finddir
  <2>5. finddir(name) \in S
    BY <2>3, <2>4, Zenon
  <2>6. \A x \in S : x \in 0 .. n
    BY <2>2
  <2> QED BY <2>5, <2>6, Zenon
<1> QED BY <1>1, <1>2, <1>3

-----------------------------------------------------------------------------
(* The inductive invariant                                                 *)

Node == [name : [0 .. NameLen - 1 -> Letter \cup {"nul"}], length : Nat, inode : Nat]

\* The image is that of the files, its headers are relocated as far as there are
\* nodes, the nodes have the names of the files, and after mounting there is one
\* for every file.
DiskInv ==
  /\ files \in Images
  /\ pc \in {"mount", "list", "ready", "header", "segment", "panic"}
  /\ root_nodes \in Seq(Node) /\ Len(root_nodes) <= Len(files)
  /\ \A j \in 1 .. Len(root_nodes) : Str(root_nodes[j].name) = files[j].name
  /\ Stored(files, image, Len(root_nodes))
  /\ pc = "mount" => index = Len(root_nodes) + 1
  /\ pc \notin {"mount", "panic"} => Len(root_nodes) = Len(files)

\* The name that the listing shows in line j.
NameAt(fs, j) == IF j = 1 THEN dev ELSE fs[j - 1].name

\* The listing is right as far as it goes, and complete after the last line.
ListInv ==
  /\ DOMAIN dirent.name = 0 .. NameLen - 1
  /\ shown \in Seq([name : Seq(Letter), node : Nat])
  /\ Len(shown) <= Len(files) + 1
  /\ \A j \in 1 .. Len(shown) : /\ shown[j].name = NameAt(files, j)
                                /\ shown[j].node = NodeOf(files, NameAt(files, j))
  /\ pc = "mount" => shown = << >>
  /\ pc = "list" => index = Len(shown)
  /\ pc \in {"ready", "header", "segment"} => Len(shown) = Len(files) + 1

\* A program header of a program, and segments that are in memory.
PHdr(d, k) == d[(d[1].phoff + k) + 1]
Intact(d, m, n) ==
  \A k \in 0 .. n - 1 : PHdr(d, k).type = "LOAD" =>
    \A j \in 0 .. PHdr(d, k).filesz - 1 :
      /\ PHdr(d, k).vaddr + j \in DOMAIN m
      /\ m[PHdr(d, k).vaddr + j] = d[(PHdr(d, k).offset + j) + 1]

\* Data d is a program of which n headers were gone through.
Loading(d, m, n) ==
  /\ d # << >> /\ d[1].kind = "ehdr"
  /\ n \in 0 .. d[1].phnum
  /\ Intact(d, m, n)

LoadInv ==
  /\ fault \notin {"range", "page"}
  /\ pc = "header" => file \in 0 .. Len(files) /\ index = 0 /\ umem = << >>
  /\ pc = "segment" => file \in 1 .. Len(files) /\ Loading(files[file].data, umem, index)

\* A read r is what files fs had.
Exact(fs, r) ==
  r.inode \in DOMAIN fs =>
    r.bytes = SubSeq(fs[r.inode].data, r.offset + 1,
                     ReadEnd(fs[r.inode].data, r.offset, r.size))

DiskListInv == DiskInv /\ ListInv
RamdiskInv  == DiskListInv /\ LoadInv /\ Exact(files, last)

-----------------------------------------------------------------------------
(* Mounting                                                                *)

\* Every state the kernel may be started in.
LEMMA RamdiskInit ==
  ASSUME Init
  PROVE  RamdiskInv
<1>1. files \in Images /\ DOMAIN files = 1 .. Len(files) /\ Len(files) \in Nat
        /\ NameLen \in Nat \ {0}
  BY FileFacts, RamdiskAssumption DEF Init
<1>2. root_nodes = << >> /\ Len(root_nodes) = 0 /\ shown = << >> /\ Len(shown) = 0
  BY DEF Init
<1>3. Stored(files, image, 0)
  BY <1>1, MadeStored, CorruptStored DEF Init
<1>4. DiskInv
  BY <1>1, <1>2, <1>3 DEF Init, DiskInv
<1>5. ListInv
  BY <1>1, <1>2 DEF Init, ListInv, Zeros
<1>6. LoadInv
  BY DEF Init, LoadInv
<1>7. Exact(files, last)
  BY <1>1, 0 \notin 1 .. Len(files) DEF Init, NoRead, Exact
<1> QED BY <1>4, <1>5, <1>6, <1>7 DEF RamdiskInv, DiskListInv

\* After mounting, the files stay as they are.
LEMMA DiskKept ==
  ASSUME DiskInv, UNCHANGED <<files, image, root_nodes>>,
         pc \notin {"mount", "panic"}, pc' \in {"list", "ready", "header", "segment", "panic"}
  PROVE  DiskInv'
<1>1. /\ files' = files /\ image' = image /\ root_nodes' = root_nodes
      /\ Len(root_nodes) = Len(files)
  BY DEF DiskInv
<1>2. Stored(files', image', Len(root_nodes'))
  BY <1>1 DEF DiskInv
<1> QED BY <1>1, <1>2 DEF DiskInv

\* After the listing, what was shown stays.
LEMMA ListKept ==
  ASSUME ListInv, files' = files, shown' = shown, DOMAIN dirent'.name = 0 .. NameLen - 1,
         pc \in {"ready", "header", "segment"}, pc' \in {"ready", "header", "segment", "panic"}
  PROVE  ListInv'
BY DEF ListInv

\* A header is checked and relocated, and its node is made.
LEMMA MountFileInv ==
  ASSUME RamdiskInv, MountFile
  PROVE  RamdiskInv'
<1> USE DEF RamdiskInv, DiskListInv
<1>1. /\ files' = files /\ dirent' = dirent /\ shown' = shown /\ last' = last /\ fault' = fault
      /\ pc = "mount" /\ index = Len(root_nodes) + 1 /\ shown = << >>
      /\ root_nodes \in Seq(Node) /\ files \in Images
      /\ Stored(files, image, Len(root_nodes))
  BY DEF MountFile, DiskInv, ListInv
<1>2. PICK r \in Nat : r = Len(root_nodes)
  BY <1>1
<1>3. r < Len(files) /\ Len(files) \in Nat
  <2>1. index <= Len(files)
    BY <1>1 DEF MountFile, nfiles, Stored
  <2> QED BY <2>1, <1>1, <1>2, FileFacts
<1>4. CASE ~ file_headers(index).magic
  <2>1. pc' = "panic" /\ image' = image /\ root_nodes' = root_nodes
    BY <1>4 DEF MountFile
  <2>2. DiskInv'
    BY <1>1, <2>1 DEF DiskInv
  <2>3. ListInv'
    BY <1>1, <2>1 DEF ListInv
  <2>4. LoadInv'
    BY <1>1, <2>1 DEF LoadInv
  <2> QED BY <2>2, <2>3, <2>4, <1>1
<1>5. CASE file_headers(index).magic
  <2>1. PICK nd : nd = [name |-> strcpy(Zeros, file_headers(index).name),
                        length |-> file_headers(index).length, inode |-> index]
    OBVIOUS
  <2>2. /\ pc' = "mount" /\ index' = index + 1
        /\ image' = [image EXCEPT ![index + 1].offset = @ + location]
        /\ root_nodes' = Append(root_nodes, nd)
    BY <1>1, <1>5, <2>1 DEF MountFile
  <2>3. PICK j \in 1 .. Len(files) : j = r + 1 /\ j = index
    BY <1>1, <1>2, <1>3
  <2>4. PICK f : f = files[j].name /\ f \in Seq(Letter) /\ Len(f) < NameLen
    BY <1>1, FileFacts
  <2>5. image[j + 1].name = f /\ image[j + 1].length \in Nat
    BY <1>1, <2>4, FileFacts DEF Stored
  <2>6. nd \in Node /\ Str(nd.name) = files[j].name
    <3>1. nd.name = strcpy(Zeros, f)
      BY <2>1, <2>3, <2>5 DEF file_headers
    <3>2. Str(nd.name) = f
      BY <3>1, <2>4, CopiedName
    <3>3. strcpy(Zeros, f) \in [0 .. NameLen - 1 -> Letter \cup {"nul"}]
      <4>1. \A k \in 0 .. NameLen - 1 : k < Len(f) => f[k + 1] \in Letter
        BY <2>4
      <4>2. \A k \in 0 .. NameLen - 1 :
              (IF k < Len(f) THEN f[k + 1] ELSE "nul") \in Letter \cup {"nul"}
        BY <4>1
      <4>3. strcpy(Zeros, f) = [k \in 0 .. NameLen - 1 |-> IF k < Len(f) THEN f[k + 1] ELSE "nul"]
        BY DEF strcpy, Zeros
      <4> QED BY <4>2, <4>3
    <3>4. nd \in Node
      BY <3>1, <3>3, <2>1, <2>3, <2>5 DEF Node, file_headers
    <3> QED BY <3>2, <3>4, <2>4
  <2>7. Stored(files, image', r + 1)
    <3>1. Stored(files, [image EXCEPT ![(r + 1) + 1].offset = @ + location], r + 1)
      BY <1>1, <1>2, <1>3, RelocatedStored
    <3> QED BY <3>1, <2>2, <2>3
  <2>8. /\ root_nodes' \in Seq(Node) /\ Len(root_nodes') = r + 1
        /\ \A m \in 1 .. r : root_nodes'[m] = root_nodes[m]
        /\ root_nodes'[r + 1] = nd
    BY <1>1, <1>2, <2>2, <2>6
  <2>9. ASSUME NEW m \in 1 .. Len(root_nodes')
        PROVE  Str(root_nodes'[m].name) = files'[m].name
    <3>1. CASE m = r + 1
      BY <3>1, <2>3, <2>6, <2>8, <1>1
    <3>2. CASE m # r + 1
      <4>1. m \in 1 .. r
        BY <3>2, <2>8
      <4> QED BY <4>1, <2>8, <1>1, <1>2 DEF DiskInv
    <3> QED BY <3>1, <3>2
  <2>10. DiskInv'
    BY <1>1, <1>2, <1>3, <2>2, <2>3, <2>7, <2>8, <2>9 DEF DiskInv
  <2>11. ListInv'
    BY <1>1, <2>2 DEF ListInv
  <2>12. LoadInv'
    BY <1>1, <2>2 DEF LoadInv
  <2> QED BY <2>10, <2>11, <2>12, <1>1
<1> QED BY <1>4, <1>5

\* The end of the loop of init_initrd().
LEMMA MountedInv ==
  ASSUME RamdiskInv, Mounted
  PROVE  RamdiskInv'
<1> USE DEF RamdiskInv, DiskListInv
<1>1. /\ files' = files /\ image' = image /\ root_nodes' = root_nodes /\ dirent' = dirent
      /\ shown' = shown /\ last' = last /\ fault' = fault
      /\ pc = "mount" /\ pc' = "list" /\ index' = 0 /\ index = Len(root_nodes) + 1
      /\ shown = << >> /\ files \in Images /\ Stored(files, image, Len(root_nodes))
      /\ root_nodes \in Seq(Node) /\ Len(root_nodes) <= Len(files)
  BY DEF Mounted, DiskInv, ListInv
<1>2. Len(root_nodes) = Len(files)
  <2>1. index > Len(files)
    BY <1>1 DEF Mounted, nfiles, Stored
  <2> QED BY <2>1, <1>1, FileFacts
<1>3. DiskInv'
  BY <1>1, <1>2 DEF DiskInv
<1>4. ListInv'
  BY <1>1 DEF ListInv
<1>5. LoadInv'
  BY <1>1 DEF LoadInv
<1> QED BY <1>1, <1>3, <1>4, <1>5

-----------------------------------------------------------------------------
(* The directory                                                           *)

\* What is known once the files are mounted.
LEMMA MountedFacts ==
  ASSUME DiskInv, pc \notin {"mount", "panic"}
  PROVE  /\ files \in Images /\ Len(files) \in Nat /\ Len(files) <= MaxFiles
         /\ DOMAIN files = 1 .. Len(files) /\ DOMAIN root_nodes = 1 .. Len(files)
         /\ Len(root_nodes) = Len(files)
         /\ \A j \in 1 .. Len(files) : Str(root_nodes[j].name) = files[j].name
         /\ Stored(files, image, Len(files))
<1>1. /\ files \in Images /\ root_nodes \in Seq(Node) /\ Len(root_nodes) = Len(files)
      /\ Stored(files, image, Len(files))
      /\ \A j \in 1 .. Len(files) : Str(root_nodes[j].name) = files[j].name
  BY DEF DiskInv
<1>2. DOMAIN root_nodes = 1 .. Len(root_nodes)
  BY <1>1
<1>3. Len(files) \in Nat /\ Len(files) <= MaxFiles /\ DOMAIN files = 1 .. Len(files)
  BY <1>1, FileFacts
<1> QED BY <1>1, <1>2, <1>3

\* An index has an entry exactly if it is one of a node: no difference wraps to a
\* small number.
LEMMA EntryExists ==
  ASSUME NEW n \in Nat, n <= MaxFiles, Len(root_nodes) = n,
         NEW x \in Nat, x <= MaxFiles + 1
  PROVE  NoEntry(x) <=> x \notin 1 .. n
<1>1. MaxFiles \in Nat /\ Word \in Nat /\ MaxFiles < Word
  BY RamdiskAssumption
<1>2. CASE x = 0
  <2>1. (x - 1) % Word = Word - 1
    BY <1>1, <1>2
  <2> QED BY <2>1, <1>1, <1>2 DEF NoEntry
<1>3. CASE x # 0
  <2>1. (x - 1) % Word = x - 1
    BY <1>1, <1>3
  <2> QED BY <2>1, <1>1, <1>3 DEF NoEntry
<1> QED BY <1>2, <1>3

\* readdir() finds an entry or leaves the shared one alone.
LEMMA ReaddirFacts ==
  ASSUME DiskInv, pc \notin {"mount", "panic"}, DOMAIN dirent.name = 0 .. NameLen - 1,
         NEW node, NEW x \in Nat, x <= MaxFiles + 1, Readdir(node, x)
  PROVE  /\ fault' = fault
         /\ DOMAIN dirent'.name = 0 .. NameLen - 1
         /\ IsDev(node, x) => Str(dirent'.name) = dev
         /\ (~ IsDev(node, x) /\ x \in 1 .. Len(files)) => Str(dirent'.name) = files[x].name
<1> DEFINE n == Len(files)
<1>1. /\ n \in Nat /\ n <= MaxFiles /\ DOMAIN root_nodes = 1 .. n /\ Len(root_nodes) = n
      /\ files \in Images /\ \A j \in 1 .. n : Str(root_nodes[j].name) = files[j].name
  BY MountedFacts
<1>2. NoEntry(x) <=> x \notin 1 .. n
  BY <1>1, EntryExists
<1>3. CASE IsDev(node, x)
  <2>1. dirent' = Entry(dev, 0) /\ fault' = fault
    BY <1>3, Zenon DEF Readdir
  <2>2. dev \in Seq(Letter) /\ Len(dev) < NameLen
    BY DevName
  <2>3. Str(Entry(dev, 0).name) = dev /\ DOMAIN Entry(dev, 0).name = 0 .. NameLen - 1
    BY <2>2, EntryName
  <2> QED BY <2>1, <2>3, <1>3
<1>4. CASE ~ IsDev(node, x) /\ NoEntry(x)
  <2>1. dirent' = dirent /\ fault' = fault
    BY <1>4, Zenon DEF Readdir
  <2> QED BY <2>1, <1>2, <1>4
<1>5. CASE ~ IsDev(node, x) /\ ~ NoEntry(x)
  <2>1. x \in 1 .. n /\ x \in DOMAIN root_nodes
    BY <1>1, <1>2, <1>5
  <2>2. dirent' = Entry(Str(root_nodes[x].name), root_nodes[x].inode) /\ fault' = fault
    BY <1>5, <2>1, Zenon DEF Readdir
  <2>3. PICK f : f = files[x].name /\ f \in Seq(Letter) /\ Len(f) < NameLen
    BY <1>1, <2>1, FileFacts
  <2>4. dirent' = Entry(f, root_nodes[x].inode)
    BY <2>1, <2>2, <2>3, <1>1
  <2>5. Str(Entry(f, root_nodes[x].inode).name) = f
          /\ DOMAIN Entry(f, root_nodes[x].inode).name = 0 .. NameLen - 1
    BY <2>3, EntryName
  <2>6. Str(dirent'.name) = files[x].name /\ DOMAIN dirent'.name = 0 .. NameLen - 1
    BY <2>3, <2>4, <2>5, Zenon
  <2> QED BY <2>2, <2>6, <1>5, Zenon
<1> QED BY <1>3, <1>4, <1>5

\* A line of the listing, or its end.
LEMMA ListEntryInv ==
  ASSUME RamdiskInv, ListEntry
  PROVE  RamdiskInv'
<1> USE DEF RamdiskInv, DiskListInv
<1>1. /\ files' = files /\ image' = image /\ root_nodes' = root_nodes /\ last' = last
      /\ pc = "list" /\ index = Len(shown) /\ Readdir("root", index)
      /\ DOMAIN dirent.name = 0 .. NameLen - 1
      /\ Len(shown) <= Len(files) + 1 /\ shown \in Seq([name : Seq(Letter), node : Nat])
  BY DEF ListEntry, ListInv
<1>2. /\ files \in Images /\ Len(files) \in Nat /\ Len(files) <= MaxFiles
      /\ DOMAIN files = 1 .. Len(files) /\ DOMAIN root_nodes = 1 .. Len(files)
      /\ Len(root_nodes) = Len(files)
      /\ \A j \in 1 .. Len(files) : Str(root_nodes[j].name) = files[j].name
  BY <1>1, MountedFacts
<1>3. index \in Nat /\ index <= MaxFiles + 1 /\ index <= Len(files) + 1
  BY <1>1, <1>2, RamdiskAssumption
<1>4. /\ fault' = fault
      /\ DOMAIN dirent'.name = 0 .. NameLen - 1
      /\ index = 0 => Str(dirent'.name) = dev
      /\ index \in 1 .. Len(files) => Str(dirent'.name) = files[index].name
  <2>1. IsDev("root", index) <=> index = 0
    BY DEF IsDev
  <2>2. index \in 1 .. Len(files) => ~ IsDev("root", index)
    BY <2>1, <1>2
  <2>3. pc \notin {"mount", "panic"}
    BY <1>1
  <2> QED BY <1>1, <1>3, <2>1, <2>2, <2>3, ReaddirFacts
<1>5. NoEntry(index) <=> index \notin 1 .. Len(files)
  BY <1>2, <1>3, EntryExists
<1>6. pc' \in {"list", "ready"}
  BY <1>1 DEF ListEntry
<1>7. DiskInv'
  BY <1>1, <1>6, DiskKept
<1>8. LoadInv'
  BY <1>4, <1>6 DEF LoadInv
<1>9. ListInv'
  <2>1. CASE index > 0 /\ NoEntry(index)
    <3>1. pc' = "ready" /\ shown' = shown
      BY <2>1 DEF ListEntry
    <3>2. Len(shown) = Len(files) + 1
      BY <2>1, <1>1, <1>2, <1>3, <1>5
    <3> QED BY <3>1, <3>2, <1>1, <1>4 DEF ListInv
  <2>2. CASE ~ (index > 0 /\ NoEntry(index))
    <3>1. PICK name : name = Str(dirent'.name)
      OBVIOUS
    <3>2. /\ shown' = Append(shown, [name |-> name, node |-> finddir(name)])
          /\ index' = index + 1 /\ pc' = pc
      BY <2>2, <3>1 DEF ListEntry
    <3>3. index = 0 \/ index \in 1 .. Len(files)
      BY <2>2, <1>3, <1>5
    <3>4. name = NameAt(files, index + 1)
      BY <3>1, <3>3, <1>4 DEF NameAt
    <3>5. name = dev \/ \E j \in 1 .. Len(files) : files[j].name = name
      BY <3>1, <3>3, <1>4
    <3>6. finddir(name) = NodeOf(files, name) /\ finddir(name) \in Nat
      BY <3>5, <1>2, FindsFirst
    <3>7. name \in Seq(Letter)
      <4>1. \A j \in 1 .. Len(files) : files[j].name \in Seq(Letter)
        BY <1>2, FileFacts
      <4> QED BY <3>5, <4>1, DevName
    <3>8. PICK e : e = [name |-> name, node |-> finddir(name)]
      OBVIOUS
    <3>9. e \in [name : Seq(Letter), node : Nat] /\ e.name = name /\ e.node = finddir(name)
      BY <3>6, <3>7, <3>8
    <3>10. /\ shown' \in Seq([name : Seq(Letter), node : Nat])
           /\ Len(shown') = index + 1
           /\ \A j \in 1 .. index : shown'[j] = shown[j]
           /\ shown'[index + 1] = e
      BY <3>2, <3>8, <3>9, <1>1
    <3>11. ASSUME NEW j \in 1 .. Len(shown')
           PROVE  /\ shown'[j].name = NameAt(files', j)
                  /\ shown'[j].node = NodeOf(files', NameAt(files', j))
      <4>1. CASE j = index + 1
        BY <4>1, <3>4, <3>6, <3>9, <3>10, <1>1
      <4>2. CASE j # index + 1
        <5>1. j \in 1 .. index
          BY <4>2, <3>10, <1>3
        <5> QED BY <5>1, <3>10, <1>1 DEF ListInv
      <4> QED BY <4>1, <4>2
    <3>12. Len(shown') <= Len(files') + 1
      BY <3>10, <3>3, <1>1, <1>2
    <3> QED BY <3>2, <3>10, <3>11, <3>12, <1>1, <1>4 DEF ListInv
  <2> QED BY <2>1, <2>2
<1> QED BY <1>1, <1>7, <1>8, <1>9

\* readdir() of the directory dev, which has no entries.
LEMMA ReaddirDevInv ==
  ASSUME RamdiskInv, NEW x \in 0 .. MaxFiles + 1, ReaddirDev(x)
  PROVE  RamdiskInv'
<1> USE DEF RamdiskInv, DiskListInv
<1>1. /\ files' = files /\ image' = image /\ root_nodes' = root_nodes /\ last' = last
      /\ shown' = shown /\ pc = "ready" /\ pc' = pc /\ Readdir("dev", x)
      /\ DOMAIN dirent.name = 0 .. NameLen - 1
  BY DEF ReaddirDev, ListInv
<1>2. fault' = fault /\ DOMAIN dirent'.name = 0 .. NameLen - 1
  <2>1. x \in Nat /\ x <= MaxFiles + 1 /\ pc \notin {"mount", "panic"}
    BY <1>1, RamdiskAssumption
  <2> QED BY <1>1, <2>1, ReaddirFacts
<1>3. DiskInv'
  BY <1>1, DiskKept
<1>4. ListInv'
  BY <1>1, <1>2, ListKept
<1>5. LoadInv'
  BY <1>1, <1>2 DEF LoadInv
<1> QED BY <1>1, <1>3, <1>4, <1>5

\* A single read of a mounted file.
LEMMA ReadFileInv ==
  ASSUME RamdiskInv, NEW node, NEW off \in Sizes, NEW size \in Sizes, ReadFile(node, off, size)
  PROVE  RamdiskInv'
<1> USE DEF RamdiskInv, DiskListInv
<1>1. /\ files' = files /\ image' = image /\ root_nodes' = root_nodes /\ dirent' = dirent
      /\ shown' = shown /\ pc = "ready" /\ pc' = pc /\ fault' = fault
      /\ node \in DOMAIN root_nodes
      /\ last' = [inode |-> node, offset |-> off, size |-> size, bytes |-> read(node, off, size)]
  BY DEF ReadFile
<1>2. DiskInv'
  BY <1>1, DiskKept
<1>3. ListInv'
  <2>1. DOMAIN dirent'.name = 0 .. NameLen - 1
    BY <1>1 DEF ListInv
  <2> QED BY <1>1, <2>1, ListKept
<1>4. LoadInv'
  BY <1>1 DEF LoadInv
<1>5. files \in Images /\ node \in 1 .. Len(files) /\ Stored(files, image, Len(files))
  BY <1>1, MountedFacts
<1>6. off \in Nat /\ size \in Nat /\ off + size < Word
  BY RamdiskAssumption
<1>7. read(node, off, size)
        = SubSeq(files[node].data, off + 1, ReadEnd(files[node].data, off, size))
  BY <1>5, <1>6, ReadIs
<1>8. Exact(files', last')
  BY <1>1, <1>7 DEF Exact
<1> QED BY <1>2, <1>3, <1>4, <1>8

-----------------------------------------------------------------------------
(* Loading a program                                                       *)

\* A program is looked up by its name.
LEMMA ExecElfInv ==
  ASSUME RamdiskInv, NEW name, exec_elf(name)
  PROVE  RamdiskInv'
<1> USE DEF RamdiskInv, DiskListInv
<1>1. /\ files' = files /\ image' = image /\ root_nodes' = root_nodes /\ dirent' = dirent
      /\ shown' = shown /\ pc = "ready" /\ index' = 0 /\ last' = NoRead
      /\ \/ pc' = pc /\ fault' = "null"
         \/ /\ finddir(name) # -1 /\ file' = finddir(name)
            /\ pc' = "header" /\ umem' = << >> /\ fault' = fault
  BY DEF exec_elf
<1>2. Len(files) \in Nat /\ DOMAIN root_nodes = 1 .. Len(files) /\ DOMAIN files = 1 .. Len(files)
  BY <1>1, MountedFacts
<1>3. DiskInv'
  BY <1>1, DiskKept
<1>4. ListInv'
  <2>1. DOMAIN dirent'.name = 0 .. NameLen - 1
    BY <1>1 DEF ListInv
  <2> QED BY <1>1, <2>1, ListKept
<1>5. finddir(name) = -1 \/ finddir(name) \in 0 .. Len(files)
  BY <1>2, FindRange
<1>6. LoadInv'
  BY <1>1, <1>5 DEF LoadInv
<1>7. Exact(files', last')
  BY <1>1, <1>2, 0 \notin 1 .. Len(files) DEF Exact, NoRead
<1> QED BY <1>3, <1>4, <1>6, <1>7

\* The ELF header that load_elf_binary() reads is the first cell of the file.
LEMMA HeaderIs ==
  ASSUME DiskInv, pc \notin {"mount", "panic"}, file \in 1 .. Len(files)
  PROVE  /\ files[file].data = << >> => elf_hdr = << >>
         /\ files[file].data # << >> => elf_hdr # << >> /\ elf_hdr[1] = files[file].data[1]
<1>1. files \in Images /\ Stored(files, image, Len(files))
  BY MountedFacts
<1>2. PICK d : d = files[file].data
  OBVIOUS
<1>3. d \in Seq(Cell) /\ Len(d) \in Nat /\ Word \in Nat
  BY <1>1, <1>2, FileFacts, RamdiskAssumption
<1>4. 0 + 1 < Word /\ 0 \in Nat /\ 1 \in Nat
  BY SizeFacts
<1>5. elf_hdr = [k \in 1 .. ReadEnd(d, 0, 1) - 0 |-> d[0 + k]]
  <2>1. read(file, 0, 1)
          = [k \in 1 .. ReadEnd(files[file].data, 0, 1) - 0 |-> files[file].data[0 + k]]
    BY <1>1, <1>4, ReadIs
  <2> QED
    BY <1>2, <2>1 DEF elf_hdr
<1>6. CASE d = << >>
  <2>1. ReadEnd(d, 0, 1) - 0 = 0
    BY <1>6 DEF ReadEnd
  <2>2. elf_hdr = << >>
    BY <1>5, <2>1
  <2> QED BY <2>2, <1>2, <1>6
<1>7. CASE d # << >>
  <2>1. Len(d) >= 1
    <3>1. ASSUME NEW S, NEW t \in Seq(S), Len(t) = 0
          PROVE  t = << >>
      BY <3>1
    <3>2. Len(d) # 0
      BY <3>1, <1>3, <1>7, Zenon
    <3> QED BY <3>2, <1>3
  <2>2. ReadEnd(d, 0, 1) - 0 = 1
    <3>1. PICK l \in Nat : l = Len(d) /\ l >= 1
      BY <2>1, <1>3
    <3>2. (IF 0 + 1 < l THEN 0 + 1 ELSE l) = 1
      BY <3>1
    <3>3. ReadEnd(d, 0, 1) = 1
      BY <3>1, <3>2 DEF ReadEnd
    <3> QED BY <3>3
  <2>3. elf_hdr = [k \in 1 .. 1 |-> d[0 + k]]
    BY <1>5, <2>2, Zenon
  <2>4. DOMAIN elf_hdr = 1 .. 1 /\ elf_hdr[1] = d[1]
    BY <2>3
  <2>5. elf_hdr # << >>
    BY <2>4
  <2> QED BY <2>4, <2>5, <1>2, <1>7
<1> QED BY <1>6, <1>7

\* The header of a program is read and checked.
LEMMA LoadHeaderInv ==
  ASSUME RamdiskInv, LoadHeader
  PROVE  RamdiskInv'
<1> USE DEF RamdiskInv, DiskListInv
<1>1. /\ files' = files /\ image' = image /\ root_nodes' = root_nodes /\ dirent' = dirent
      /\ shown' = shown /\ last' = last /\ pc = "header" /\ index' = index /\ file' = file
      /\ umem' = umem /\ file \in 0 .. Len(files) /\ index = 0
      /\ \/ pc' = pc /\ fault' = "garbage"
         \/ pc' = "panic" /\ fault' = fault
         \/ /\ elf_hdr # << >> /\ elf_hdr[1].kind = "ehdr"
            /\ pc' = "segment" /\ fault' = fault
  BY DEF LoadHeader, LoadInv
<1>2. files \in Images /\ Len(files) \in Nat
  BY <1>1, MountedFacts
<1>3. DiskInv'
  BY <1>1, DiskKept
<1>4. ListInv'
  <2>1. DOMAIN dirent'.name = 0 .. NameLen - 1
    BY <1>1 DEF ListInv
  <2> QED BY <1>1, <2>1, ListKept
<1>5. CASE pc' = "segment"
  <2>1. elf_hdr # << >> /\ elf_hdr[1].kind = "ehdr" /\ fault' = fault
    BY <1>1, <1>5
  <2>2. file \in 1 .. Len(files)
    <3>1. file # 0
      <4>1. file = 0 => elf_hdr = << >>
        BY DEF elf_hdr, read
      <4> QED BY <4>1, <2>1
    <3> QED BY <3>1, <1>1, <1>2
  <2>3. PICK d : d = files[file].data
    OBVIOUS
  <2>4. d # << >> /\ d[1].kind = "ehdr" /\ d[1] \in Cell
    <3>1. d # << >> /\ elf_hdr[1] = d[1]
      BY <1>1, <2>1, <2>2, <2>3, HeaderIs
    <3>2. d \in Seq(Cell)
      BY <1>2, <2>2, <2>3, FileFacts
    <3> QED BY <3>1, <3>2, <2>1
  <2>5. d[1].phnum \in Nat
    BY <2>4 DEF Cell
  <2>6. Loading(d, umem, 0)
    BY <2>4, <2>5 DEF Loading, Intact
  <2>7. LoadInv'
    BY <1>1, <1>5, <2>1, <2>2, <2>3, <2>6 DEF LoadInv
  <2> QED BY <2>7, <1>1, <1>3, <1>4
<1>6. CASE pc' # "segment"
  <2>1. LoadInv'
    BY <1>1, <1>6 DEF LoadInv
  <2> QED BY <2>1, <1>1, <1>3, <1>4
<1> QED BY <1>5, <1>6

\* All segments are loaded.
LEMMA LoadedInv ==
  ASSUME RamdiskInv, Loaded
  PROVE  RamdiskInv'
<1> USE DEF RamdiskInv, DiskListInv
<1>1. /\ files' = files /\ image' = image /\ root_nodes' = root_nodes /\ dirent' = dirent
      /\ shown' = shown /\ last' = last /\ pc = "segment" /\ pc' = "ready" /\ fault' = fault
  BY DEF Loaded
<1>2. DiskInv'
  BY <1>1, DiskKept
<1>3. ListInv'
  <2>1. DOMAIN dirent'.name = 0 .. NameLen - 1
    BY <1>1 DEF ListInv
  <2> QED BY <1>1, <2>1, ListKept
<1>4. LoadInv'
  BY <1>1 DEF LoadInv
<1> QED BY <1>1, <1>2, <1>3, <1>4

\* Rounding to pages takes in what is rounded.
LEMMA Rounding ==
  ASSUME NEW a \in Nat
  PROVE  RoundDown(a) \in Int /\ RoundDown(a) <= a /\ RoundUp(a) \in Int /\ a <= RoundUp(a)
<1>1. ASSUME NEW x \in Nat, NEW d \in Nat \ {0}
      PROVE  /\ (x \div d) * d \in Int
             /\ (x \div d) * d <= x /\ x < (x \div d) * d + d
  <2>1. x \div d \in Nat /\ x = d * (x \div d) + (x % d) /\ x % d \in 0 .. d - 1
    BY SMT
  <2>2. PICK y \in Nat : y = x \div d
    BY <2>1
  <2>3. PICK z \in Int : z = y * d /\ z = d * y
    BY SMT
  <2> QED BY <2>1, <2>2, <2>3
<1>2. PageSize \in Nat \ {0}
  BY RamdiskAssumption
<1>3. RoundDown(a) \in Int /\ RoundDown(a) <= a
  BY <1>1, <1>2 DEF RoundDown
<1>4. PICK x \in Nat : x = a + (PageSize - 1)
  BY <1>2
<1>5. RoundUp(a) = (x \div PageSize) * PageSize
  BY <1>4 DEF RoundUp
<1>6. RoundUp(a) \in Int /\ x < RoundUp(a) + PageSize
  BY <1>1, <1>2, <1>5
<1>7. a <= RoundUp(a)
  BY <1>2, <1>4, <1>6
<1> QED BY <1>3, <1>6, <1>7

\* Memory m after the segment of p was mapped and its part of d copied to it.
Loads(m, p, d) ==
  LET space == allocate_range(m, p.vaddr, p.vaddr + p.memsz)
  IN  [a \in DOMAIN space |-> IF a \in Segment(p) THEN d[(p.offset + (a - p.vaddr)) + 1]
                              ELSE space[a]]

\* A segment to be loaded fits into the pages that are mapped for it.
LEMMA SegmentFits ==
  ASSUME NEW m, NEW p, p.vaddr \in Nat, p.filesz \in Nat, p.memsz \in Nat, p.filesz <= p.memsz
  PROVE  Segment(p) \subseteq DOMAIN allocate_range(m, p.vaddr, p.vaddr + p.memsz)
<1>1. PICK v \in Nat, e \in Nat, f \in Nat : v = p.vaddr /\ e = p.vaddr + p.memsz /\ f = p.filesz
                                          /\ v + f <= e
  OBVIOUS
<1>2. RoundDown(v) \in Int /\ RoundDown(v) <= v /\ RoundUp(e) \in Int /\ e <= RoundUp(e)
  BY Rounding
<1>3. PICK lo \in Int, hi \in Int : lo = RoundDown(v) /\ hi = RoundUp(e) /\ lo <= v /\ e <= hi
  BY <1>2
<1>4. \A a \in v .. (v + f) - 1 : a \in lo .. hi - 1
  BY <1>1, <1>3
<1>5. lo .. hi - 1 \subseteq DOMAIN allocate_range(m, v, e)
  BY <1>3 DEF allocate_range
<1>6. Segment(p) = v .. v + (f - 1) /\ v + (f - 1) = (v + f) - 1
  BY <1>1 DEF Segment
<1> QED BY <1>1, <1>4, <1>5, <1>6

\* What WellFormed() says of header k.
LEMMA ProgramFacts ==
  ASSUME NEW d \in Seq(Cell), WellFormed(d), d # << >>, d[1].kind = "ehdr"
  PROVE  /\ d[1].phoff \in Nat /\ d[1].phnum \in Nat
         /\ \A k \in 0 .. d[1].phnum - 1 :
              /\ (d[1].phoff + k) + 1 \in 1 .. Len(d)
              /\ PHdr(d, k).offset \in Nat /\ PHdr(d, k).vaddr \in Nat
              /\ PHdr(d, k).filesz \in Nat /\ PHdr(d, k).memsz \in Nat
              /\ PHdr(d, k).type = "LOAD" => /\ PHdr(d, k).filesz <= PHdr(d, k).memsz
                                             /\ PHdr(d, k).offset + PHdr(d, k).filesz <= Len(d)
         /\ \A k, x \in 0 .. d[1].phnum - 1 :
              (k # x /\ PHdr(d, k).type = "LOAD" /\ PHdr(d, x).type = "LOAD")
                => Segment(PHdr(d, k)) \cap Segment(PHdr(d, x)) = {}
<1>1. ASSUME NEW S, NEW t \in Seq(S), Len(t) = 0
      PROVE  t = << >>
  BY <1>1
<1>2. Len(d) \in Nat \ {0} /\ DOMAIN d = 1 .. Len(d)
  BY <1>1
<1>3. d[1] \in Cell
  BY <1>2
<1>4. d[1].phoff \in Nat /\ d[1].phnum \in Nat
  BY <1>3 DEF Cell
<1>5. ASSUME NEW k \in 0 .. d[1].phnum - 1
      PROVE  (d[1].phoff + k) + 1 \in 1 .. Len(d) /\ PHdr(d, k).kind = "phdr"
  BY <1>2 DEF WellFormed, PHdr
<1>6. ASSUME NEW k \in 0 .. d[1].phnum - 1
      PROVE  /\ PHdr(d, k).offset \in Nat /\ PHdr(d, k).vaddr \in Nat
             /\ PHdr(d, k).filesz \in Nat /\ PHdr(d, k).memsz \in Nat
  <2>1. PHdr(d, k) \in Cell /\ PHdr(d, k).kind = "phdr"
    BY <1>5 DEF PHdr
  <2> QED BY <2>1 DEF Cell
<1>7. ASSUME NEW k \in 0 .. d[1].phnum - 1, PHdr(d, k).type = "LOAD"
      PROVE  /\ PHdr(d, k).filesz <= PHdr(d, k).memsz
             /\ PHdr(d, k).offset + PHdr(d, k).filesz <= Len(d)
  BY <1>7 DEF WellFormed, PHdr
<1>8. ASSUME NEW k \in 0 .. d[1].phnum - 1, NEW x \in 0 .. d[1].phnum - 1, k # x,
             PHdr(d, k).type = "LOAD", PHdr(d, x).type = "LOAD"
      PROVE  Segment(PHdr(d, k)) \cap Segment(PHdr(d, x)) = {}
  BY <1>8 DEF WellFormed, PHdr
<1> QED BY <1>4, <1>5, <1>6, <1>7, <1>8

\* A segment that is loaded is intact, and so are those before it.
LEMMA SegmentLoaded ==
  ASSUME NEW d \in Seq(Cell), WellFormed(d), d # << >>, d[1].kind = "ehdr",
         NEW n \in 0 .. d[1].phnum - 1, PHdr(d, n).type = "LOAD",
         NEW m, Intact(d, m, n)
  PROVE  Intact(d, Loads(m, PHdr(d, n), d), n + 1)
<1>1. PICK p : p = PHdr(d, n)
  OBVIOUS
<1>2. p.offset \in Nat /\ p.vaddr \in Nat /\ p.filesz \in Nat /\ p.memsz \in Nat
        /\ p.filesz <= p.memsz /\ d[1].phnum \in Nat
  BY <1>1, ProgramFacts
<1>3. PICK space : space = allocate_range(m, p.vaddr, p.vaddr + p.memsz)
  OBVIOUS
<1>4. PICK new : new = Loads(m, p, d)
  OBVIOUS
<1>5. new = [a \in DOMAIN space |-> IF a \in Segment(p) THEN d[(p.offset + (a - p.vaddr)) + 1]
                                     ELSE space[a]]
  BY <1>3, <1>4 DEF Loads
<1>6. Segment(p) \subseteq DOMAIN space
  BY <1>2, <1>3, SegmentFits
<1>7. \A a \in DOMAIN m : a \in DOMAIN space /\ space[a] = m[a]
  BY <1>3 DEF allocate_range
<1>8. ASSUME NEW k \in 0 .. (n + 1) - 1, PHdr(d, k).type = "LOAD", NEW q, q = PHdr(d, k),
             NEW j \in 0 .. q.filesz - 1
      PROVE  q.vaddr + j \in DOMAIN new /\ new[q.vaddr + j] = d[(q.offset + j) + 1]
  <2>1. k \in 0 .. n /\ k \in 0 .. d[1].phnum - 1
    BY <1>2
  <2>2. q.offset \in Nat /\ q.vaddr \in Nat /\ q.filesz \in Nat
    BY <1>8, <2>1, ProgramFacts
  <2>3. PICK a \in Nat : a = q.vaddr + j
    BY <2>2
  <2>4. a \in Segment(q)
    BY <2>2, <2>3 DEF Segment
  <2>5. CASE k = n
    <3>1. q = p
      BY <2>5, <1>1, <1>8
    <3>2. a \in DOMAIN space /\ new[a] = d[(p.offset + (a - p.vaddr)) + 1]
      BY <3>1, <2>4, <1>5, <1>6
    <3>3. a - p.vaddr = j
      BY <3>1, <2>2, <2>3
    <3> QED BY <3>1, <3>2, <3>3, <2>3, <1>5
  <2>6. CASE k # n
    <3>1. k \in 0 .. n - 1
      BY <2>6, <2>1
    <3>2. a \in DOMAIN m /\ m[a] = d[(q.offset + j) + 1]
      BY <3>1, <2>3, <1>8 DEF Intact
    <3>3. a \notin Segment(p)
      <4>1. Segment(q) \cap Segment(p) = {}
        BY <2>1, <2>6, <1>1, <1>8, ProgramFacts
      <4> QED BY <4>1, <2>4
    <3> QED BY <3>2, <3>3, <1>5, <1>7, <2>3
  <2> QED BY <2>5, <2>6
<1>9. Intact(d, new, n + 1)
  BY <1>8 DEF Intact
<1> QED BY <1>1, <1>4, <1>9

\* A header that is not to be loaded changes nothing.
LEMMA SegmentSkipped ==
  ASSUME NEW d, NEW n \in Nat, PHdr(d, n).type # "LOAD", NEW m, Intact(d, m, n)
  PROVE  Intact(d, m, n + 1)
<1>1. \A k \in 0 .. (n + 1) - 1 : k = n \/ k \in 0 .. n - 1
  OBVIOUS
<1> QED BY <1>1 DEF Intact

\* One turn of the loop of load_elf_binary().
LEMMA LoadSegmentInv ==
  ASSUME RamdiskInv, LoadSegment
  PROVE  RamdiskInv'
<1> USE DEF RamdiskInv, DiskListInv
<1>1. /\ files' = files /\ image' = image /\ root_nodes' = root_nodes /\ dirent' = dirent
      /\ shown' = shown /\ last' = last /\ pc = "segment" /\ pc' = pc /\ file' = file
      /\ index' = index + 1 /\ index < elf_hdr[1].phnum
      /\ file \in 1 .. Len(files) /\ Loading(files[file].data, umem, index)
      /\ fault \notin {"range", "page"}
  BY DEF LoadSegment, LoadInv
<1>2. files \in Images /\ Stored(files, image, Len(files))
  BY <1>1, MountedFacts
<1>3. DiskInv'
  BY <1>1, DiskKept
<1>4. ListInv'
  <2>1. DOMAIN dirent'.name = 0 .. NameLen - 1
    BY <1>1 DEF ListInv
  <2> QED BY <1>1, <2>1, ListKept
<1>5. PICK d : d = files[file].data
  OBVIOUS
<1>6. d \in Seq(Cell) /\ Len(d) \in Nat /\ Len(d) < Word /\ WellFormed(d) /\ Word \in Nat
  BY <1>1, <1>2, <1>5, FileFacts, RamdiskAssumption
<1>7. /\ d # << >> /\ d[1].kind = "ehdr" /\ Intact(d, umem, index)
      /\ index \in 0 .. d[1].phnum
  BY <1>1, <1>5 DEF Loading
<1>8. elf_hdr[1] = d[1]
  BY <1>1, <1>5, <1>7, HeaderIs
<1>9. PICK n \in 0 .. d[1].phnum - 1 : n = index /\ n \in Nat /\ d[1].phnum \in Nat
  BY <1>1, <1>6, <1>7, <1>8, ProgramFacts
<1>10. PICK p : p = PHdr(d, n)
  OBVIOUS
<1>11. /\ d[1].phoff \in Nat /\ (d[1].phoff + n) + 1 \in 1 .. Len(d)
       /\ p.offset \in Nat /\ p.vaddr \in Nat /\ p.filesz \in Nat /\ p.memsz \in Nat
       /\ p.type = "LOAD" => p.filesz <= p.memsz /\ p.offset + p.filesz <= Len(d)
  BY <1>6, <1>7, <1>9, <1>10, ProgramFacts
\* The header and the data of the segment are read as they are in the file.
<1>12. read(file, elf_hdr[1].phoff + index, 1)[1] = p
  <2>1. PICK o \in Nat : o = d[1].phoff + n
    BY <1>9, <1>11
  <2>2. o + 1 < Word /\ o + 1 \in 1 .. Len(d)
    <3>1. PICK l \in Nat : l = Len(d) /\ l < Word
      BY <1>6
    <3>2. o + 1 \in 1 .. l
      BY <3>1, <2>1, <1>11
    <3>3. o + 1 < Word
      BY <3>1, <3>2, <1>6
    <3> QED BY <3>1, <3>2, <3>3
  <2>3. read(file, o, 1) = [k \in 1 .. ReadEnd(d, o, 1) - o |-> d[o + k]]
    BY <2>2, <1>1, <1>2, <1>5, ReadIs
  <2>4. ReadEnd(d, o, 1) - o = 1
    BY <2>2, <1>6 DEF ReadEnd
  <2>5. read(file, o, 1)[1] = d[o + 1]
    BY <2>3, <2>4
  <2> QED BY <2>1, <2>5, <1>8, <1>9, <1>10 DEF PHdr
<1>13. ASSUME p.type = "LOAD"
       PROVE  read(file, p.offset, p.filesz) = [k \in 1 .. p.filesz |-> d[p.offset + k]]
  <2>1. PICK o \in Nat, z \in Nat : o = p.offset /\ z = p.filesz /\ o + z <= Len(d)
    BY <1>11, <1>13
  <2>2. o + z < Word
    BY <2>1, <1>6
  <2>3. read(file, o, z) = [k \in 1 .. ReadEnd(d, o, z) - o |-> d[o + k]]
    BY <2>2, <1>1, <1>2, <1>5, ReadIs
  <2>4. ReadEnd(d, o, z) - o = z
    BY <2>1, <1>6 DEF ReadEnd
  <2> QED BY <2>1, <2>3, <2>4
<1>14. PICK space : space = allocate_range(umem, p.vaddr, p.vaddr + p.memsz)
  OBVIOUS
<1>15. PICK bytes : bytes = read(file, p.offset, p.filesz)
  OBVIOUS
<1>16. PICK place : place = p.vaddr .. p.vaddr + (Len(bytes) - 1)
  OBVIOUS
<1>17. CASE p.type # "LOAD"
  <2>1. umem' = umem /\ fault' = fault
    BY <1>12, <1>17, Zenon DEF LoadSegment
  <2>2. Intact(d, umem, n + 1)
    BY <1>7, <1>9, <1>10, <1>17, SegmentSkipped
  <2>3. Loading(files'[file'].data, umem', index')
    BY <1>1, <1>5, <1>7, <1>9, <2>1, <2>2 DEF Loading
  <2>4. LoadInv'
    BY <1>1, <2>1, <2>3 DEF LoadInv
  <2> QED BY <2>4, <1>1, <1>3, <1>4
<1>18. CASE p.type = "LOAD"
  <2>1. PICK z \in Nat : z = p.filesz
    BY <1>11
  <2>2. bytes = [k \in 1 .. z |-> d[p.offset + k]]
    BY <2>1, <1>13, <1>15, <1>18
  <2>3. Len(bytes) = z
    BY <2>2
  <2>4. place = Segment(p)
    BY <2>1, <2>3, <1>16 DEF Segment
  <2>5. place \subseteq DOMAIN space
    BY <2>4, <1>11, <1>14, <1>18, SegmentFits
  <2>6. /\ umem' = [a \in DOMAIN space |-> IF a \in place THEN bytes[(a - p.vaddr) + 1]
                                           ELSE space[a]]
        /\ fault' = fault
    BY <2>5, <1>12, <1>14, <1>15, <1>16, <1>18, Zenon DEF LoadSegment
  <2>7. ASSUME NEW a \in place
        PROVE  bytes[(a - p.vaddr) + 1] = d[(p.offset + (a - p.vaddr)) + 1]
    <3>1. PICK v \in Nat, o \in Nat : v = p.vaddr /\ o = p.offset
      BY <1>11
    <3>2. a \in v .. v + (z - 1)
      BY <3>1, <2>3, <1>16
    <3>3. PICK k \in 1 .. z : k = (a - v) + 1 /\ o + k = (o + (a - v)) + 1
      BY <3>2
    <3>4. bytes[k] = d[o + k]
      BY <2>2, <3>1
    <3> QED BY <3>1, <3>3, <3>4
  <2>8. umem' = Loads(umem, p, d)
    BY <2>4, <2>6, <2>7, <1>14 DEF Loads
  <2>9. Intact(d, umem', n + 1)
    BY <2>8, <1>6, <1>7, <1>9, <1>10, <1>18, SegmentLoaded
  <2>10. Loading(files'[file'].data, umem', index')
    BY <1>1, <1>5, <1>7, <1>9, <2>9 DEF Loading
  <2>11. LoadInv'
    BY <1>1, <2>6, <2>10 DEF LoadInv
  <2> QED BY <2>11, <1>1, <1>3, <1>4
<1> QED BY <1>17, <1>18

-----------------------------------------------------------------------------
(* Theorems                                                                *)

\* Every step keeps the invariant.
LEMMA RamdiskStep ==
  ASSUME RamdiskInv, [Next]_vars
  PROVE  RamdiskInv'
<1>1. CASE UNCHANGED vars
  BY <1>1 DEF vars, RamdiskInv, DiskListInv, DiskInv, ListInv, LoadInv
<1>2. CASE MountFile
  BY <1>2, MountFileInv
<1>3. CASE Mounted
  BY <1>3, MountedInv
<1>4. CASE ListEntry
  BY <1>4, ListEntryInv
<1>5. CASE \E node \in 1 .. MaxFiles, off, size \in Sizes : ReadFile(node, off, size)
  BY <1>5, ReadFileInv
<1>6. CASE \E x \in 0 .. MaxFiles + 1 : ReaddirDev(x)
  BY <1>6, ReaddirDevInv
<1>7. CASE \E name \in {files[j].name : j \in DOMAIN files} \cup {dev, <<"?">>} : exec_elf(name)
  BY <1>7, ExecElfInv
<1>8. CASE LoadHeader
  BY <1>8, LoadHeaderInv
<1>9. CASE LoadSegment
  BY <1>9, LoadSegmentInv
<1>10. CASE Loaded
  BY <1>10, LoadedInv
<1> QED BY <1>1, <1>2, <1>3, <1>4, <1>5, <1>6, <1>7, <1>8, <1>9, <1>10 DEF Next

\* The image, the nodes, the listing and the memory of a program that is being
\* loaded stay in step with the files of the host.
THEOREM RamdiskInvariant == Spec => []RamdiskInv
<1>1. Init => RamdiskInv
  BY RamdiskInit
<1>2. RamdiskInv /\ [Next]_vars => RamdiskInv'
  BY RamdiskStep
<1> QED BY <1>1, <1>2, PTL DEF Spec

\* A read through the relocated header returns exactly the bytes that the host
\* wrote for the range asked for, up to the end of the file.
THEOREM ReadsAreExact == Spec => []ReadExact
<1>1. RamdiskInv => ReadExact
  BY DEF RamdiskInv, Exact, ReadEnd, ReadExact
<1> QED BY <1>1, RamdiskInvariant, PTL

\* No directory is read outside of its nodes, and no segment of a well formed
\* program is copied to an address that load_elf_binary() has not mapped.
THEOREM NoAccessIsWild == Spec => []NoWildAccess
<1>1. RamdiskInv => NoWildAccess
  BY DEF RamdiskInv, LoadInv, NoWildAccess
<1> QED BY <1>1, RamdiskInvariant, PTL

\* Each segment gone through holds what the file has for it.
THEOREM ProgramsAreIntact == Spec => []LoadedIntact
<1>1. RamdiskInv => LoadedIntact
  BY DEF RamdiskInv, LoadInv, Loading, Intact, PHdr, LoadedIntact
<1> QED BY <1>1, RamdiskInvariant, PTL

\* The listing shows dev and all files in order, each under its own name, and
\* each name leads to the first node that has it.
THEOREM ListingIsRight == Spec => []ListedRight
<1>1. ASSUME RamdiskInv
      PROVE  ListedRight
  <2> DEFINE hs == [j \in DOMAIN files |-> files[j].name]
             names == <<dev>> \o hs
             ss == [j \in DOMAIN shown |-> shown[j].name]
  <2>1. /\ files \in Images /\ Len(shown) <= Len(files) + 1
        /\ shown \in Seq([name : Seq(Letter), node : Nat])
        /\ \A j \in 1 .. Len(shown) : /\ shown[j].name = NameAt(files, j)
                                      /\ shown[j].node = NodeOf(files, NameAt(files, j))
        /\ pc \notin {"mount", "list", "panic"} => Len(shown) = Len(files) + 1
    BY <1>1 DEF RamdiskInv, DiskListInv, DiskInv, ListInv
  <2>2. PICK n \in Nat : n = Len(files) /\ DOMAIN files = 1 .. n
    BY <2>1, FileFacts
  <2>3. PICK l \in Nat : l = Len(shown) /\ DOMAIN shown = 1 .. l /\ l <= n + 1
    BY <2>1, <2>2
  <2>4. hs \in Seq(Seq(Letter)) /\ Len(hs) = n /\ \A j \in 1 .. n : hs[j] = files[j].name
    <3>1. \A j \in 1 .. n : files[j].name \in Seq(Letter)
      BY <2>1, <2>2, FileFacts
    <3>2. hs \in [1 .. n -> Seq(Letter)]
      BY <3>1, <2>2
    <3>3. \A j \in 1 .. n : hs[j] = files[j].name
      BY <2>2
    <3> HIDE DEF hs
    <3> QED BY <3>2, <3>3
  <2>5. <<dev>> \in Seq(Seq(Letter)) /\ Len(<<dev>>) = 1 /\ <<dev>>[1] = dev
    BY DevName
  <2> HIDE DEF hs
  <2>6. /\ names \in Seq(Seq(Letter)) /\ Len(names) = n + 1
        /\ names[1] = dev
        /\ \A j \in 1 .. n : names[1 + j] = hs[j]
    <3>1. /\ names \in Seq(Seq(Letter)) /\ Len(names) = Len(<<dev>>) + Len(hs)
          /\ \A k \in 1 .. Len(<<dev>>) : names[k] = <<dev>>[k]
          /\ \A k \in 1 .. Len(hs) : names[Len(<<dev>>) + k] = hs[k]
      BY <2>4, <2>5, ConcatFacts
    <3> HIDE DEF names
    <3> QED BY <3>1, <2>4, <2>5
  <2> HIDE DEF names
  <2>7. ASSUME NEW j \in 1 .. l
        PROVE  names[j] = NameAt(files, j)
    <3>1. CASE j = 1
      BY <3>1, <2>6 DEF NameAt
    <3>2. CASE j # 1
      <4>1. PICK k \in 1 .. n : j = 1 + k /\ k = j - 1
        BY <3>2, <2>3
      <4> QED BY <4>1, <3>2, <2>4, <2>6 DEF NameAt
    <3> QED BY <3>1, <3>2
  <2>8. \A j \in 1 .. l : ss[j] = names[j]
    BY <2>1, <2>3, <2>7
  <2>9. ss \in Seq(Seq(Letter)) /\ Len(ss) = l
    <3>1. \A j \in 1 .. l : names[j] \in Seq(Letter)
      BY <2>3, <2>6
    <3>2. ss \in [1 .. l -> Seq(Letter)]
      BY <3>1, <2>3, <2>8
    <3> HIDE DEF ss
    <3> QED BY <3>2
  <2>10. IsPrefix(ss, names)
    <3>1. ASSUME NEW D, NEW s \in Seq(D), NEW t \in Seq(D), NEW k \in Nat, k <= Len(s), k <= Len(t),
                 \A j \in 1 .. k : s[j] = t[j]
          PROVE  SubSeq(s, 1, k) = SubSeq(t, 1, k)
      BY <3>1
    <3> HIDE DEF ss
    <3>2. SubSeq(ss, 1, l) = SubSeq(names, 1, l)
      BY <3>1, <2>3, <2>6, <2>8, <2>9
    <3> QED BY <3>2, <2>3, <2>6, <2>9 DEF IsPrefix
  <2>11. ASSUME NEW j \in DOMAIN shown
         PROVE  shown[j].node = IF names[j] = dev THEN 0 ELSE FirstNamed(names[j])
    <3>1. shown[j].node = NodeOf(files, names[j])
      BY <2>1, <2>3, <2>7
    <3>2. FirstNamed(names[j]) = First(files, names[j])
      BY Zenon DEF FirstNamed, First
    <3> QED BY <3>1, <3>2 DEF NodeOf
  <2>12. pc \notin {"mount", "list", "panic"} => Len(shown) = Len(names)
    BY <2>1, <2>2, <2>6
  <2> QED BY <2>10, <2>11, <2>12, Zenon DEF ListedRight, names, hs
<1>2. RamdiskInv => ListedRight
  BY <1>1
<1> QED BY <1>2, RamdiskInvariant, PTL

=============================================================================

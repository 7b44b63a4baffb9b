--------------------------- MODULE VirtMemProofs ---------------------------
(***************************************************************************)
(* Proofs about the address spaces, for any number of frames, mount points *)
(* and programs.                                                           *)
(***************************************************************************)
EXTENDS VirtMem, FiniteSetTheorems, TLAPS

(* The stack of free frames                                                *)

\* One frame is taken.
LEMMA PoppedLast ==
  ASSUME NEW S, NEW s \in Seq(S), s # << >>
  PROVE  /\ Front(s) \in Seq(S)
         /\ Len(Front(s)) = Len(s) - 1
         /\ Last(s) \in S
         /\ ToSet(s) = ToSet(Front(s)) \cup {Last(s)}
         /\ IsInjective(s) => IsInjective(Front(s)) /\ Last(s) \notin ToSet(Front(s))
<1> DEFINE t == Front(s)
<1>1. /\ t \in Seq(S) /\ Len(t) = Len(s) - 1
      /\ DOMAIN s = 1 .. Len(s) /\ DOMAIN t = 1 .. Len(s) - 1 /\ Len(s) \in Nat \ {0}
      /\ \A i \in 1 .. Len(s) - 1 : t[i] = s[i]
      /\ Last(s) = s[Len(s)]
  <2>1. Len(s) \in Nat \ {0} /\ DOMAIN s = 1 .. Len(s)
    OBVIOUS
  <2>2. /\ t \in Seq(S) /\ Len(t) = Len(s) - 1
        /\ \A i \in 1 .. Len(s) - 1 : t[i] = s[i]
    BY <2>1 DEF Front
  <2>3. DOMAIN t = 1 .. Len(s) - 1
    BY <2>1, <2>2
  <2> QED
    BY <2>1, <2>2, <2>3 DEF Last
<1> HIDE DEF t
<1>2. ToSet(s) = ToSet(t) \cup {Last(s)}
  BY <1>1 DEF ToSet
<1>3. IsInjective(s) => IsInjective(t) /\ Last(s) \notin ToSet(t)
  BY <1>1 DEF IsInjective, ToSet
<1> QED
  BY <1>1, <1>2, <1>3 DEF t

\* Popped() and Top() for the one or two frames that are taken.
LEMMA PoppedOne ==
  ASSUME TypeOK, IsInjective(free), Len(free) >= 1
  PROVE  /\ Popped(1) \in Seq(Frame) /\ IsInjective(Popped(1))
         /\ Top(0) \in Frame /\ Top(0) \in ToSet(free)
         /\ ToSet(Popped(1)) = ToSet(free) \ {Top(0)}
         /\ Len(Popped(1)) = Len(free) - 1
         /\ Top(0) = Last(free) /\ Popped(1) = Front(free)
<1>1. free \in Seq(Frame) /\ free # << >> /\ Len(free) \in Nat
  BY DEF TypeOK
<1>2. Len(free) - 0 = Len(free)
  BY <1>1
<1>3. Popped(1) = Front(free) /\ Top(0) = Last(free)
  BY <1>2 DEF Popped, Top, Front, Last
<1> QED
  BY <1>1, <1>3, PoppedLast

\* The same for the two frames of a page and its table, or of a clone.
LEMMA PoppedTwo ==
  ASSUME TypeOK, IsInjective(free), Len(free) >= 2
  PROVE  /\ Popped(2) \in Seq(Frame) /\ IsInjective(Popped(2))
         /\ Top(0) \in Frame /\ Top(0) \in ToSet(free)
         /\ Top(1) \in Frame /\ Top(1) \in ToSet(free) /\ Top(0) # Top(1)
         /\ ToSet(Popped(2)) = ToSet(free) \ {Top(0), Top(1)}
<1> DEFINE r == Popped(1)
<1>1. free \in Seq(Frame) /\ Len(free) \in Nat /\ Len(free) >= 1
  BY DEF TypeOK
<1>2. /\ r \in Seq(Frame) /\ IsInjective(r) /\ Top(0) \in Frame /\ Top(0) \in ToSet(free)
      /\ ToSet(r) = ToSet(free) \ {Top(0)} /\ Len(r) = Len(free) - 1
  BY <1>1, PoppedOne
<1>3. Popped(2) = Front(r) /\ Top(1) = Last(r)
  BY <1>1 DEF Popped, Top, Front, Last
<1> HIDE DEF r
<1>4. r # << >>
  BY <1>1, <1>2
<1>5. /\ Front(r) \in Seq(Frame) /\ IsInjective(Front(r)) /\ Last(r) \in Frame
      /\ ToSet(r) = ToSet(Front(r)) \cup {Last(r)} /\ Last(r) \notin ToSet(Front(r))
  BY <1>2, <1>4, PoppedLast
<1> QED
  BY <1>2, <1>3, <1>5

\* One frame is given back.
LEMMA Pushed ==
  ASSUME NEW S, NEW s \in Seq(S), NEW p \in S
  PROVE  /\ Append(s, p) \in Seq(S)
         /\ Len(Append(s, p)) = Len(s) + 1
         /\ ToSet(Append(s, p)) = ToSet(s) \cup {p}
         /\ IsInjective(s) /\ p \notin ToSet(s) => IsInjective(Append(s, p))
<1> DEFINE t == Append(s, p)
<1>1. /\ t \in Seq(S) /\ Len(t) = Len(s) + 1
      /\ DOMAIN s = 1 .. Len(s) /\ DOMAIN t = 1 .. Len(s) + 1 /\ Len(s) \in Nat
      /\ \A i \in 1 .. Len(s) : t[i] = s[i]
      /\ t[Len(s) + 1] = p
  OBVIOUS
<1> HIDE DEF t
<1>2. ToSet(t) = ToSet(s) \cup {p}
  BY <1>1 DEF ToSet
<1>3. IsInjective(s) /\ p \notin ToSet(s) => IsInjective(t)
  BY <1>1 DEF IsInjective, ToSet
<1> QED
  BY <1>1, <1>2, <1>3 DEF t

\* Several frames are given back.
LEMMA Concatenated ==
  ASSUME NEW S, NEW s \in Seq(S), NEW t \in Seq(S)
  PROVE  /\ s \o t \in Seq(S)
         /\ ToSet(s \o t) = ToSet(s) \cup ToSet(t)
         /\ IsInjective(s) /\ IsInjective(t) /\ ToSet(s) \cap ToSet(t) = {}
              => IsInjective(s \o t)
<1> DEFINE u == s \o t
           m == Len(s)
           n == Len(t)
<1>1. /\ u \in Seq(S) /\ DOMAIN u = 1 .. m + n /\ DOMAIN s = 1 .. m /\ DOMAIN t = 1 .. n
      /\ m \in Nat /\ n \in Nat
  OBVIOUS
<1>2. /\ \A k \in 1 .. m : u[k] = s[k]
      /\ \A k \in 1 .. n : u[m + k] = t[k]
  OBVIOUS
<1> HIDE DEF u, m, n
<1>3. ASSUME NEW k \in 1 .. m + n
      PROVE  k \in 1 .. m \/ \E l \in 1 .. n : k = m + l
  <2>1. k > m => k - m \in 1 .. n /\ k = m + (k - m)
    BY <1>1
  <2> QED
    BY <1>1, <2>1
<1>4. /\ \A k \in 1 .. m : k \in 1 .. m + n
      /\ \A k \in 1 .. n : m + k \in 1 .. m + n
  BY <1>1
<1>5. ToSet(u) = ToSet(s) \cup ToSet(t)
  <2>1. ASSUME NEW k \in 1 .. m + n PROVE u[k] \in ToSet(s) \cup ToSet(t)
    BY <1>1, <1>2, <1>3 DEF ToSet
  <2>2. ASSUME NEW k \in 1 .. m PROVE s[k] \in ToSet(u)
    BY <1>1, <1>2, <1>4 DEF ToSet
  <2>3. ASSUME NEW k \in 1 .. n PROVE t[k] \in ToSet(u)
    BY <1>1, <1>2, <1>4 DEF ToSet
  <2>4. /\ ToSet(u) = {u[k] : k \in 1 .. m + n} /\ ToSet(s) = {s[k] : k \in 1 .. m}
        /\ ToSet(t) = {t[k] : k \in 1 .. n}
    BY <1>1 DEF ToSet
  <2> QED
    BY <2>1, <2>2, <2>3, <2>4
<1>6. ASSUME IsInjective(s), IsInjective(t), ToSet(s) \cap ToSet(t) = {}
      PROVE  IsInjective(u)
  <2> SUFFICES ASSUME NEW a \in 1 .. m + n, NEW b \in 1 .. m + n, u[a] = u[b] PROVE a = b
    BY <1>1 DEF IsInjective
  <2>1. \A k \in 1 .. m, l \in 1 .. n : s[k] # t[l]
    BY <1>1, <1>6 DEF ToSet
  <2>2. \A k, l \in 1 .. m : s[k] = s[l] => k = l
    BY <1>1, <1>6 DEF IsInjective
  <2>3. \A k, l \in 1 .. n : t[k] = t[l] => k = l
    BY <1>1, <1>6 DEF IsInjective
  <2> QED
    BY <1>2, <1>3, <2>1, <2>2, <2>3
<1> QED
  BY <1>1, <1>5, <1>6 DEF u

\* An empty sequence and a sequence of one frame.
LEMMA SmallSets ==
  ASSUME NEW S, NEW x \in S
  PROVE  /\ << >> \in Seq(S) /\ ToSet(<< >>) = {} /\ IsInjective(<< >>)
         /\ <<x>> \in Seq(S) /\ ToSet(<<x>>) = {x} /\ IsInjective(<<x>>)
BY DEF ToSet, IsInjective

-----------------------------------------------------------------------------
(* The invariant                                                           *)

Kind == {"free", "boot", "dir", "heap", "self", "user", "page"}

\* The word j of the frame t leads to a frame of kind k, and the frame is known
\* to be led to by that word.
Child(kind, up, idx, t, j, k) ==
  /\ mem[t][j] \in Frame
  /\ kind[mem[t][j]] = k /\ up[mem[t][j]] = t /\ idx[mem[t][j]] = j

\* What each frame is for.
Kinds(kind) ==
  \A x \in Frame :
    /\ kind[x] = "free" <=> x \in ToSet(free)
    /\ kind[x] = "boot" <=> x <= HeapTable
    /\ kind[x] = "dir" <=> x \in dirs \ {kernel_directory}

\* A frame that is neither free nor there since boot nor a directory belongs to
\* one word, idx[x] of the frame up[x].
Parents(kind, up, idx) ==
  \A x \in Frame :
    /\ kind[x] \in {"heap", "self", "user", "page"} => mem[up[x]][idx[x]] = x
    /\ kind[x] = "heap" => up[x] = HeapTable
    /\ kind[x] = "self" => up[x] \in dirs \ {kernel_directory} /\ idx[x] = USER_DIR
    /\ kind[x] = "user" => up[x] \in dirs /\ idx[x] = USER
    /\ kind[x] = "page" => kind[up[x]] = "user"

\* Conversely, a word of a table or a directory leads to a frame that belongs to
\* it; only the tables of the kernel's directory are linked elsewhere.
Children(kind, up, idx) ==
  /\ \A x \in Frame : kind[x] = "user" =>
       \A j \in Entry : mem[x][j] # 0 => Child(kind, up, idx, x, j, "page")
  /\ \A j \in Entry : mem[HeapTable][j] # 0 => Child(kind, up, idx, HeapTable, j, "heap")
  /\ \A d \in dirs \ {kernel_directory} : Child(kind, up, idx, d, USER_DIR, "self")
  /\ \A d \in dirs : mem[d][USER] # 0 =>
       \/ Child(kind, up, idx, d, USER, "user")
       \/ d # kernel_directory /\ mem[d][USER] = mem[kernel_directory][USER]

Roles(kind, up, idx) ==
  Kinds(kind) /\ Parents(kind, up, idx) /\ Children(kind, up, idx)

Labelled ==
  \E kind \in [Frame -> Kind], up \in [Frame -> Frame], idx \in [Frame -> Entry] :
    Roles(kind, up, idx)

\* The words that every directory has, and what leads to the directory itself.
Layout ==
  /\ \A d \in dirs :
       /\ mem[d][LOWMEM] = LowTable /\ mem[d][KHEAP] = HeapTable
       /\ mem[d][MOUNT_DIR] = MountTable /\ mem[d][KERNEL_TABLES] = kernel_directory
  /\ mem[kernel_directory][USER_DIR] = 0 /\ mem[kernel_directory][USER_TABLES] = 0
  /\ \A s \in MOUNT_TABS : mem[kernel_directory][s] = 0
  /\ \A d \in dirs \ {kernel_directory} :
       /\ mem[d][USER_TABLES] = d
       /\ mem[mem[d][USER_DIR]][LAST] = d
       /\ \A k \in Entry \ {LAST} : mem[mem[d][USER_DIR]][k] = 0
       /\ \A s \in MOUNT_TABS :
            mem[d][s] = IF s = 5 THEN kernel_directory ELSE IF s = 6 THEN d ELSE 0
  /\ \A k \in Entry : mem[LowTable][k] = 0
  /\ mem[MountTable][LAST] = kernel_directory
  /\ \A k \in Entry \ {LAST} : mem[MountTable][k] = 0

VmInv ==
  TypeOK /\ IsInjective(free) /\ Layout /\ Labelled /\ fault # "mount"

\* What VirtMemAssumption says, in the form the steps use.
LEMMA Constants ==
  /\ Frames \in Nat /\ Frames > 4 /\ Mounts \in Nat /\ Mounts > 3
  /\ UserPages \subseteq Entry /\ HeapPages \subseteq Entry
  /\ Junk \notin Nat
  /\ kernel_directory = 1 /\ LowTable = 2 /\ MountTable = 3 /\ HeapTable = 4
  /\ {1, 2, 3, 4} \subseteq Frame /\ Frame \subseteq Nat /\ \A x \in Frame : x # 0
BY VirtMemAssumption DEF kernel_directory, LowTable, MountTable, HeapTable, Frame

\* The places in a directory.
LEMMA Places ==
  /\ {LOWMEM, USER, USER_DIR, USER_TABLES, KHEAP, MOUNT_DIR, KERNEL_TABLES, LAST} \subseteq Entry
  /\ MOUNT_TABS \subseteq Entry /\ 5 \in MOUNT_TABS /\ 6 \in MOUNT_TABS
  /\ \A i \in Entry : \/ i \in MOUNT_TABS
                      \/ i \in {LOWMEM, USER, USER_DIR, USER_TABLES, KHEAP, MOUNT_DIR, KERNEL_TABLES}
  /\ {LOWMEM, USER, USER_DIR, USER_TABLES, KHEAP, MOUNT_DIR, KERNEL_TABLES} \cap MOUNT_TABS = {}
  /\ LOWMEM = 0 /\ USER = 1 /\ USER_DIR = 2 /\ USER_TABLES = 3 /\ KHEAP = 4
  /\ MOUNT_DIR = 5 + Mounts /\ KERNEL_TABLES = 6 + Mounts /\ LAST = KERNEL_TABLES
BY Constants DEF LOWMEM, USER, USER_DIR, USER_TABLES, KHEAP, MOUNT_TABS, MOUNT_DIR,
                 KERNEL_TABLES, LAST, Entry

\* The kinds of the frames that are written and read.
LEMMA KindOf ==
  ASSUME TypeOK, Layout, NEW kind, NEW up, NEW idx, Roles(kind, up, idx)
  PROVE  /\ kind[LowTable] = "boot" /\ kind[MountTable] = "boot" /\ kind[HeapTable] = "boot"
         /\ kind[kernel_directory] = "boot"
         /\ \A d \in dirs : d = kernel_directory \/ kind[d] = "dir"
         /\ \A d \in dirs : d # LowTable /\ d # MountTable /\ d # HeapTable
         /\ \A d \in dirs \ {kernel_directory} :
              mem[d][USER_DIR] \in Frame /\ kind[mem[d][USER_DIR]] = "self"
              /\ up[mem[d][USER_DIR]] = d
         /\ \A d \in dirs : mem[d][USER] # 0 =>
              mem[d][USER] \in Frame /\ kind[mem[d][USER]] = "user"
<1> USE Constants
<1>1. /\ kind[LowTable] = "boot" /\ kind[MountTable] = "boot" /\ kind[HeapTable] = "boot"
      /\ kind[kernel_directory] = "boot"
  BY DEF Roles, Kinds
<1>2. \A d \in dirs : d \in Frame /\ (d = kernel_directory \/ kind[d] = "dir")
  BY DEF Roles, Kinds, TypeOK
<1>3. \A d \in dirs : d # LowTable /\ d # MountTable /\ d # HeapTable
  BY <1>1, <1>2
<1>4. \A d \in dirs \ {kernel_directory} :
         mem[d][USER_DIR] \in Frame /\ kind[mem[d][USER_DIR]] = "self"
         /\ up[mem[d][USER_DIR]] = d
  BY DEF Roles, Children, Child
<1>5. kernel_directory \in dirs
  BY DEF TypeOK
<1>6. \A d \in dirs : mem[d][USER] # 0 =>
              mem[d][USER] \in Frame /\ kind[mem[d][USER]] = "user"
  BY <1>5 DEF Roles, Children, Child
<1> QED
  BY <1>1, <1>2, <1>3, <1>4, <1>6

\* A step that writes to none of these words.
LEMMA LayoutKept ==
  ASSUME Layout, kernel_directory \in dirs, dirs' \subseteq dirs,
         \A d \in dirs : \A i \in Entry \ {USER} : mem'[d][i] = mem[d][i],
         \A d \in dirs \ {kernel_directory} : mem'[mem[d][USER_DIR]] = mem[mem[d][USER_DIR]],
         mem'[LowTable] = mem[LowTable], mem'[MountTable] = mem[MountTable]
  PROVE  Layout'
<1>1. /\ {LOWMEM, USER_DIR, USER_TABLES, KHEAP, MOUNT_DIR, KERNEL_TABLES} \subseteq Entry \ {USER}
      /\ MOUNT_TABS \subseteq Entry \ {USER}
  BY Places, Constants
<1>2. \A d \in dirs' \ {kernel_directory} :
        mem'[d][USER_DIR] = mem[d][USER_DIR]
        /\ mem'[mem'[d][USER_DIR]] = mem[mem[d][USER_DIR]]
  BY <1>1
<1>3. \A d \in dirs' :
       /\ mem'[d][LOWMEM] = LowTable /\ mem'[d][KHEAP] = HeapTable
       /\ mem'[d][MOUNT_DIR] = MountTable /\ mem'[d][KERNEL_TABLES] = kernel_directory
  BY <1>1 DEF Layout
<1>4. /\ mem'[kernel_directory][USER_DIR] = 0 /\ mem'[kernel_directory][USER_TABLES] = 0
      /\ \A s \in MOUNT_TABS : mem'[kernel_directory][s] = 0
  BY <1>1 DEF Layout
<1>5. ASSUME NEW d \in dirs' \ {kernel_directory}
      PROVE  /\ mem'[d][USER_TABLES] = d
             /\ mem'[mem'[d][USER_DIR]][LAST] = d
             /\ \A k \in Entry \ {LAST} : mem'[mem'[d][USER_DIR]][k] = 0
  BY <1>1, <1>2 DEF Layout
<1>6. ASSUME NEW d \in dirs' \ {kernel_directory}, NEW s \in MOUNT_TABS
      PROVE  mem'[d][s] = IF s = 5 THEN kernel_directory ELSE IF s = 6 THEN d ELSE 0
  BY <1>1 DEF Layout
<1>7. /\ \A k \in Entry : mem'[LowTable][k] = 0
      /\ mem'[MountTable][LAST] = kernel_directory
      /\ \A k \in Entry \ {LAST} : mem'[MountTable][k] = 0
  BY DEF Layout
<1> QED
  BY <1>3, <1>4, <1>5, <1>6, <1>7 DEF Layout

-----------------------------------------------------------------------------
(* map()                                                                   *)

\* The frame f becomes the page in word j of the table t.
PageAdded(f, t, j) == mem' = [mem EXCEPT ![t][j] = f, ![f] = Data]

\* A page of the heap or of a program is mapped in a table that is there.
LEMMA AddPage ==
  ASSUME TypeOK, Layout,
         NEW kind \in [Frame -> Kind], NEW up \in [Frame -> Frame],
         NEW idx \in [Frame -> Entry], Roles(kind, up, idx),
         NEW f \in Frame, f \in ToSet(free), NEW t \in Frame,
         t = HeapTable \/ kind[t] = "user", NEW j \in Entry, mem[t][j] = 0,
         PageAdded(f, t, j),
         ToSet(free') = ToSet(free) \ {f}, dirs' = dirs
  PROVE  Layout' /\ Labelled'
<1> USE Constants
<1>1. PICK k \in Kind : k = IF t = HeapTable THEN "heap" ELSE "page"
  BY DEF Kind
<1>2. PICK k2 \in [Frame -> Kind] : k2 = [kind EXCEPT ![f] = k]
  OBVIOUS
<1>3. PICK u2 \in [Frame -> Frame] : u2 = [up EXCEPT ![f] = t]
  OBVIOUS
<1>4. PICK i2 \in [Frame -> Entry] : i2 = [idx EXCEPT ![f] = j]
  OBVIOUS
<1>5. /\ \A x \in Frame : x # f => k2[x] = kind[x] /\ u2[x] = up[x] /\ i2[x] = idx[x]
      /\ k2[f] = k /\ u2[f] = t /\ i2[f] = j
  BY <1>2, <1>3, <1>4
<1>0. /\ kind[LowTable] = "boot" /\ kind[MountTable] = "boot" /\ kind[HeapTable] = "boot"
      /\ \A d \in dirs : d = kernel_directory \/ kind[d] = "dir"
      /\ \A d \in dirs : d # LowTable /\ d # MountTable /\ d # HeapTable
      /\ \A d \in dirs \ {kernel_directory} :
           mem[d][USER_DIR] \in Frame /\ kind[mem[d][USER_DIR]] = "self"
      /\ kernel_directory \in dirs
  BY KindOf DEF TypeOK
<1>6. /\ kind[f] = "free" /\ f # t /\ k # "free" /\ k # "boot" /\ k # "dir"
      /\ kind[t] # "dir" /\ kind[t] # "self" /\ f > 4
      /\ LowTable \notin {f, t} /\ MountTable \notin {f, t} /\ HeapTable # f
  BY <1>0, <1>1, KindOf DEF Roles, Kinds
<1>7. /\ \A x \in Frame : x # f /\ x # t => mem'[x] = mem[x]
      /\ mem'[t][j] = f /\ \A l \in Entry : l # j => mem'[t][l] = mem[t][l]
  BY <1>6 DEF TypeOK, PageAdded
<1>8. \A d \in dirs : d \in Frame /\ d # f /\ d # t /\ mem'[d] = mem[d]
  BY <1>6, <1>7, KindOf DEF TypeOK
<1>9. \A d \in dirs \ {kernel_directory} : mem'[mem[d][USER_DIR]] = mem[mem[d][USER_DIR]]
  <2> SUFFICES ASSUME NEW d \in dirs \ {kernel_directory}, NEW s, s = mem[d][USER_DIR]
               PROVE  mem'[s] = mem[s]
    OBVIOUS
  <2>1. s \in Frame /\ kind[s] = "self"
    BY <1>0
  <2> QED
    BY <1>6, <1>7, <2>1
<1>10. Layout'
  <2>1. mem'[LowTable] = mem[LowTable] /\ mem'[MountTable] = mem[MountTable]
    BY <1>6, <1>7
  <2>2. \A d \in dirs : \A i \in Entry \ {USER} : mem'[d][i] = mem[d][i]
    BY <1>8
  <2>3. dirs' \subseteq dirs /\ kernel_directory \in dirs
    BY <1>0
  <2> QED
    BY <1>9, <2>1, <2>2, <2>3, LayoutKept
<1> HIDE DEF Kind
<1>11. Kinds(k2)'
  BY <1>5, <1>6 DEF Roles, Kinds
<1>12. Parents(k2, u2, i2)'
  <2> SUFFICES ASSUME NEW x \in Frame
               PROVE  /\ k2[x] \in {"heap", "self", "user", "page"} => mem'[u2[x]][i2[x]] = x
                      /\ k2[x] = "heap" => u2[x] = HeapTable
                      /\ k2[x] = "self" => u2[x] \in dirs \ {kernel_directory} /\ i2[x] = USER_DIR
                      /\ k2[x] = "user" => u2[x] \in dirs /\ i2[x] = USER
                      /\ k2[x] = "page" => k2[u2[x]] = "user"
    BY DEF Parents
  <2>1. CASE x = f
    BY <1>1, <1>5, <1>6, <1>7, <2>1
  <2>2. CASE x # f
    <3>1. k2[x] = kind[x] /\ u2[x] = up[x] /\ i2[x] = idx[x] /\ up[x] \in Frame /\ idx[x] \in Entry
      BY <1>5, <2>2
    <3>2. /\ kind[x] \in {"heap", "self", "user", "page"} => mem[up[x]][idx[x]] = x
          /\ kind[x] = "heap" => up[x] = HeapTable
          /\ kind[x] = "self" => up[x] \in dirs \ {kernel_directory} /\ idx[x] = USER_DIR
          /\ kind[x] = "user" => up[x] \in dirs /\ idx[x] = USER
          /\ kind[x] = "page" => kind[up[x]] = "user"
      BY DEF Roles, Parents
    <3>3. kind[x] \in {"heap", "self", "user", "page"} => up[x] # f
      BY <1>6, <1>8, <3>2
    <3>4. kind[x] \in {"heap", "self", "user", "page"} => mem'[up[x]][idx[x]] = x
      BY <1>7, <3>1, <3>2, <3>3
    <3>5. kind[x] = "page" => k2[up[x]] = "user"
      BY <1>5, <3>1, <3>2, <3>3
    <3> QED
      BY <3>1, <3>2, <3>4, <3>5
  <2> QED
    BY <2>1, <2>2
<1>13. Children(k2, u2, i2)'
  <2>1. ASSUME NEW x \in Frame, x # f, NEW l \in Entry, mem'[x][l] = mem[x][l], NEW g,
               Child(kind, up, idx, x, l, g), g # "free"
        PROVE  Child(k2, u2, i2, x, l, g)'
    BY <1>5, <1>6, <2>1 DEF Child
  <2>2. ASSUME NEW x \in Frame, k2[x] = "user", NEW l \in Entry, mem'[x][l] # 0
        PROVE  Child(k2, u2, i2, x, l, "page")'
    <3>1. x # f /\ kind[x] = "user"
      BY <1>1, <1>5, <2>2
    <3>2. CASE x = t /\ l = j
      <4>1. k = "page"
        BY <1>1, <3>1, <3>2, KindOf
      <4> QED
        BY <1>5, <1>7, <3>2, <4>1 DEF Child
    <3>3. CASE ~(x = t /\ l = j)
      <4>1. mem'[x][l] = mem[x][l]
        BY <1>7, <3>1, <3>3
      <4>2. Child(kind, up, idx, x, l, "page")
        BY <2>2, <3>1, <4>1 DEF Roles, Children
      <4> QED
        BY <2>1, <3>1, <4>1, <4>2
    <3> QED
      BY <3>2, <3>3
  <2>3. ASSUME NEW l \in Entry, mem'[HeapTable][l] # 0
        PROVE  Child(k2, u2, i2, HeapTable, l, "heap")'
    <3>1. HeapTable # f
      BY <1>6
    <3>2. CASE HeapTable = t /\ l = j
      <4>1. k = "heap" /\ mem'[HeapTable][l] = f
        BY <1>1, <1>7, <3>2
      <4> QED
        BY <1>5, <3>2, <4>1 DEF Child
    <3>3. CASE ~(HeapTable = t /\ l = j)
      <4>1. mem'[HeapTable][l] = mem[HeapTable][l] /\ HeapTable \in Frame
        BY <1>7, <3>1, <3>3
      <4>2. Child(kind, up, idx, HeapTable, l, "heap")
        BY <2>3, <4>1 DEF Roles, Children
      <4> QED
        BY <2>1, <3>1, <4>1, <4>2
    <3> QED
      BY <3>2, <3>3
  <2>4. ASSUME NEW d \in dirs \ {kernel_directory}
        PROVE  Child(k2, u2, i2, d, USER_DIR, "self")'
    BY <1>8, <2>1, Places DEF Roles, Children
  <2>5. ASSUME NEW d \in dirs, mem'[d][USER] # 0
        PROVE  \/ Child(k2, u2, i2, d, USER, "user")'
               \/ d # kernel_directory /\ mem'[d][USER] = mem'[kernel_directory][USER]
    <3>1. /\ mem'[d][USER] = mem[d][USER] /\ d \in Frame /\ d # f /\ USER \in Entry
          /\ mem'[kernel_directory][USER] = mem[kernel_directory][USER]
      BY <1>0, <1>8, Places
    <3>2. \/ Child(kind, up, idx, d, USER, "user")
          \/ d # kernel_directory /\ mem[d][USER] = mem[kernel_directory][USER]
      BY <2>5, <3>1 DEF Roles, Children
    <3> QED
      BY <2>1, <3>1, <3>2
  <2> QED
    BY <2>2, <2>3, <2>4, <2>5 DEF Children
<1> QED
  BY <1>10, <1>11, <1>12, <1>13 DEF Labelled, Roles

\* A page of a program is mapped where there is no table yet.
LEMMA AddTable ==
  ASSUME TypeOK, Layout,
         NEW kind \in [Frame -> Kind], NEW up \in [Frame -> Frame],
         NEW idx \in [Frame -> Entry], Roles(kind, up, idx),
         NEW f \in Frame, f \in ToSet(free), NEW t \in Frame, t \in ToSet(free), f # t,
         NEW c \in dirs, c = current_directory, NEW j \in Entry, mem[c][USER] = 0,
         MapNew(f, t, USER, j),
         ToSet(free') = ToSet(free) \ {f, t}, dirs' = dirs
  PROVE  Layout' /\ Labelled'
<1> USE Constants
<1>1. PICK k2 \in [Frame -> Kind] : k2 = [kind EXCEPT ![t] = "user", ![f] = "page"]
  BY DEF Kind
<1>2. PICK u2 \in [Frame -> Frame] : u2 = [up EXCEPT ![t] = c, ![f] = t]
  BY DEF TypeOK
<1>3. PICK i2 \in [Frame -> Entry] : i2 = [idx EXCEPT ![t] = USER, ![f] = j]
  BY Places
<1>4. /\ \A x \in Frame : x # f /\ x # t => k2[x] = kind[x] /\ u2[x] = up[x] /\ i2[x] = idx[x]
      /\ k2[f] = "page" /\ u2[f] = t /\ i2[f] = j
      /\ k2[t] = "user" /\ u2[t] = c /\ i2[t] = USER
  BY <1>1, <1>2, <1>3
<1>5. /\ kind[LowTable] = "boot" /\ kind[MountTable] = "boot" /\ kind[HeapTable] = "boot"
      /\ \A d \in dirs : d = kernel_directory \/ kind[d] = "dir"
      /\ \A d \in dirs : d # LowTable /\ d # MountTable /\ d # HeapTable
      /\ \A d \in dirs \ {kernel_directory} :
           mem[d][USER_DIR] \in Frame /\ kind[mem[d][USER_DIR]] = "self"
      /\ kernel_directory \in dirs /\ c \in Frame
  <2>1. kernel_directory \in dirs /\ c \in Frame
    BY DEF TypeOK
  <2> HIDE Constants
  <2> QED
    BY <2>1, KindOf
<1>6. /\ kind[f] = "free" /\ kind[t] = "free" /\ kind[kernel_directory] = "boot"
      /\ c # f /\ c # t
      /\ LowTable \notin {c, f, t} /\ MountTable \notin {c, f, t} /\ HeapTable \notin {c, f, t}
  <2>1. kind[f] = "free" /\ kind[t] = "free" /\ kind[kernel_directory] = "boot"
    BY DEF Roles, Kinds
  <2> QED
    BY <1>5, <2>1
<1>7. /\ \A x \in Frame : x \notin {c, f, t} => mem'[x] = mem[x]
      /\ mem'[c][USER] = t /\ \A i \in Entry \ {USER} : mem'[c][i] = mem[c][i]
      /\ mem'[t][j] = f /\ \A i \in Entry : i # j => mem'[t][i] = 0
  <2>1. \A x \in Frame : x \notin {c, f, t} => mem'[x] = mem[x]
    BY DEF MapNew, TypeOK
  <2>2. mem'[c] = [mem[c] EXCEPT ![USER] = t] /\ mem'[t] = [Zero EXCEPT ![j] = f]
    BY <1>5, <1>6 DEF MapNew, TypeOK
  <2>3. mem[c] \in [Entry -> Frame \cup {0, Junk}] /\ USER \in Entry
    BY <1>5, Places DEF TypeOK
  <2> QED
    BY <2>1, <2>2, <2>3 DEF Zero
<1>8. \A d \in dirs : d \in Frame /\ d # f /\ d # t /\ (d # c => mem'[d] = mem[d])
  BY <1>5, <1>6, <1>7 DEF TypeOK
<1>9. Layout'
  <2>1. mem'[LowTable] = mem[LowTable] /\ mem'[MountTable] = mem[MountTable]
    BY <1>6, <1>7
  <2>2. ASSUME NEW d \in dirs \ {kernel_directory}, NEW s, s = mem[d][USER_DIR]
        PROVE  mem'[s] = mem[s]
    <3>1. s \in Frame /\ kind[s] = "self"
      BY <1>5, <2>2
    <3>2. s \notin {c, f, t}
      BY <1>5, <1>6, <3>1
    <3> QED
      BY <1>7, <3>1, <3>2
  <2>3. \A d \in dirs : \A i \in Entry \ {USER} : mem'[d][i] = mem[d][i]
    BY <1>7, <1>8
  <2>4. \A d \in dirs \ {kernel_directory} : mem'[mem[d][USER_DIR]] = mem[mem[d][USER_DIR]]
    BY <2>2
  <2> QED
    BY <1>5, <2>1, <2>3, <2>4, LayoutKept
<1> HIDE DEF Kind
<1>10. Kinds(k2)'
  BY <1>4, <1>6 DEF Roles, Kinds
<1>11. Parents(k2, u2, i2)'
  <2> SUFFICES ASSUME NEW x \in Frame
               PROVE  /\ k2[x] \in {"heap", "self", "user", "page"} => mem'[u2[x]][i2[x]] = x
                      /\ k2[x] = "heap" => u2[x] = HeapTable
                      /\ k2[x] = "self" => u2[x] \in dirs \ {kernel_directory} /\ i2[x] = USER_DIR
                      /\ k2[x] = "user" => u2[x] \in dirs /\ i2[x] = USER
                      /\ k2[x] = "page" => k2[u2[x]] = "user"
    BY DEF Parents
  <2>1. CASE x = f
    BY <1>4, <1>7, <2>1
  <2>2. CASE x = t
    BY <1>4, <1>7, <2>2
  <2>3. CASE x # f /\ x # t
    <3>1. k2[x] = kind[x] /\ u2[x] = up[x] /\ i2[x] = idx[x] /\ up[x] \in Frame /\ idx[x] \in Entry
      BY <1>4, <2>3
    <3>2. /\ kind[x] \in {"heap", "self", "user", "page"} => mem[up[x]][idx[x]] = x
          /\ kind[x] = "heap" => up[x] = HeapTable
          /\ kind[x] = "self" => up[x] \in dirs \ {kernel_directory} /\ idx[x] = USER_DIR
          /\ kind[x] = "user" => up[x] \in dirs /\ idx[x] = USER
          /\ kind[x] = "page" => kind[up[x]] = "user"
      BY DEF Roles, Parents
    <3>3. kind[x] \in {"heap", "self", "user", "page"} => up[x] # f /\ up[x] # t
      BY <1>6, <1>8, <3>2
    <3>4. kind[x] \in {"heap", "self", "user", "page"} => mem'[up[x]][idx[x]] = x
      <4>1. x # 0
        OBVIOUS
      <4>2. CASE up[x] = c
        BY <1>7, <3>1, <3>2, <4>1, <4>2
      <4>3. CASE up[x] # c
        BY <1>7, <3>1, <3>2, <3>3, <4>3
      <4> QED
        BY <4>2, <4>3
    <3>5. kind[x] = "page" => k2[up[x]] = "user"
      BY <1>4, <3>1, <3>2, <3>3
    <3> QED
      BY <3>1, <3>2, <3>4, <3>5
  <2> QED
    BY <2>1, <2>2, <2>3
<1>12. Children(k2, u2, i2)'
  <2>1. ASSUME NEW x \in Frame, NEW l \in Entry, mem'[x][l] = mem[x][l], NEW g,
               Child(kind, up, idx, x, l, g), g # "free"
        PROVE  Child(k2, u2, i2, x, l, g)'
    <3>1. PICK y \in Frame : y = mem[x][l] /\ kind[y] = g /\ up[y] = x /\ idx[y] = l
      BY <2>1 DEF Child
    <3>2. y # f /\ y # t
      BY <1>6, <2>1, <3>1
    <3>3. k2[y] = g /\ u2[y] = x /\ i2[y] = l
      BY <1>4, <3>1, <3>2
    <3> QED
      BY <2>1, <3>1, <3>3 DEF Child
  <2>2. ASSUME NEW x \in Frame, k2[x] = "user", NEW l \in Entry, mem'[x][l] # 0
        PROVE  Child(k2, u2, i2, x, l, "page")'
    <3>1. CASE x = t
      BY <1>4, <1>7, <2>2, <3>1 DEF Child
    <3>2. CASE x # t
      <4>1. x # f /\ kind[x] = "user"
        BY <1>4, <2>2, <3>2
      <4>2. x # c
        BY <1>5, <1>6, <4>1
      <4>3. mem'[x][l] = mem[x][l]
        BY <1>7, <3>2, <4>1, <4>2
      <4>4. Child(kind, up, idx, x, l, "page")
        BY <2>2, <4>1, <4>3 DEF Roles, Children
      <4> QED
        BY <2>1, <4>3, <4>4
    <3> QED
      BY <3>1, <3>2
  <2>3. ASSUME NEW l \in Entry, mem'[HeapTable][l] # 0
        PROVE  Child(k2, u2, i2, HeapTable, l, "heap")'
    <3>1. mem'[HeapTable][l] = mem[HeapTable][l] /\ HeapTable \in Frame
      BY <1>6, <1>7
    <3>2. Child(kind, up, idx, HeapTable, l, "heap")
      BY <2>3, <3>1 DEF Roles, Children
    <3> QED
      BY <2>1, <3>1, <3>2
  <2>4. ASSUME NEW d \in dirs \ {kernel_directory}
        PROVE  Child(k2, u2, i2, d, USER_DIR, "self")'
    <3>1. mem'[d][USER_DIR] = mem[d][USER_DIR] /\ d \in Frame /\ USER_DIR \in Entry
      BY <1>7, <1>8, Places
    <3>2. Child(kind, up, idx, d, USER_DIR, "self")
      BY DEF Roles, Children
    <3> QED
      BY <2>1, <3>1, <3>2
  <2>5. ASSUME NEW d \in dirs, mem'[d][USER] # 0
        PROVE  \/ Child(k2, u2, i2, d, USER, "user")'
               \/ d # kernel_directory /\ mem'[d][USER] = mem'[kernel_directory][USER]
    <3>1. CASE d = c
      BY <1>4, <1>7, <3>1 DEF Child
    <3>2. CASE d # c
      <4>1. mem'[d][USER] = mem[d][USER] /\ mem[d][USER] # 0 /\ d \in Frame /\ USER \in Entry
        BY <1>8, <2>5, <3>2, Places
      <4>2. \/ Child(kind, up, idx, d, USER, "user")
            \/ d # kernel_directory /\ mem[d][USER] = mem[kernel_directory][USER]
        BY <4>1 DEF Roles, Children
      <4>3. CASE Child(kind, up, idx, d, USER, "user")
        BY <2>1, <4>1, <4>3
      <4>4. CASE d # kernel_directory /\ mem[d][USER] = mem[kernel_directory][USER]
        BY <1>5, <1>8, <4>1, <4>4
      <4> QED
        BY <4>2, <4>3, <4>4
    <3> QED
      BY <3>1, <3>2
  <2> QED
    BY <2>2, <2>3, <2>4, <2>5 DEF Children
<1> QED
  BY <1>9, <1>10, <1>11, <1>12 DEF Labelled, Roles

\* A page of the heap is given back.
LEMMA DropPage ==
  ASSUME TypeOK, Layout,
         NEW kind \in [Frame -> Kind], NEW up \in [Frame -> Frame],
         NEW idx \in [Frame -> Entry], Roles(kind, up, idx),
         NEW j \in Entry, NEW f \in Frame, f = mem[HeapTable][j],
         mem' = [mem EXCEPT ![HeapTable][j] = 0],
         ToSet(free') = ToSet(free) \cup {f}, dirs' = dirs
  PROVE  Layout' /\ Labelled'
<1> USE Constants
<1>1. PICK k2 \in [Frame -> Kind] : k2 = [kind EXCEPT ![f] = "free"]
  BY DEF Kind
<1>2. kind[f] = "heap" /\ up[f] = HeapTable /\ idx[f] = j
  <2>1. mem[HeapTable][j] # 0
    OBVIOUS
  <2> QED
    BY <2>1 DEF Roles, Children, Child
<1>3. k2[f] = "free" /\ \A x \in Frame : x # f => k2[x] = kind[x]
  BY <1>1
<1>4. /\ kind[LowTable] = "boot" /\ kind[MountTable] = "boot" /\ kind[HeapTable] = "boot"
      /\ \A d \in dirs : d = kernel_directory \/ kind[d] = "dir"
      /\ \A d \in dirs : d # LowTable /\ d # MountTable /\ d # HeapTable
      /\ \A d \in dirs \ {kernel_directory} :
           mem[d][USER_DIR] \in Frame /\ kind[mem[d][USER_DIR]] = "self"
      /\ kernel_directory \in dirs /\ \A d \in dirs : d \in Frame
  BY KindOf DEF TypeOK
<1>5. /\ \A x \in Frame : x # HeapTable => mem'[x] = mem[x]
      /\ mem'[HeapTable][j] = 0
      /\ \A i \in Entry : i # j => mem'[HeapTable][i] = mem[HeapTable][i]
  BY DEF TypeOK
<1>6. Layout'
  <2>1. ASSUME NEW d \in dirs \ {kernel_directory}, NEW s, s = mem[d][USER_DIR]
        PROVE  mem'[s] = mem[s]
    <3>1. s \in Frame /\ kind[s] = "self"
      BY <1>4, <2>1
    <3> QED
      BY <1>4, <1>5, <3>1
  <2>2. \A d \in dirs \ {kernel_directory} : mem'[mem[d][USER_DIR]] = mem[mem[d][USER_DIR]]
    BY <2>1
  <2>3. mem'[LowTable] = mem[LowTable] /\ mem'[MountTable] = mem[MountTable]
    BY <1>5
  <2>4. \A d \in dirs : \A i \in Entry \ {USER} : mem'[d][i] = mem[d][i]
    BY <1>4, <1>5
  <2> QED
    BY <1>4, <2>2, <2>3, <2>4, LayoutKept
<1> HIDE DEF Kind
<1>7. Kinds(k2)'
  BY <1>2, <1>3 DEF Roles, Kinds
<1>8. Parents(k2, up, idx)'
  <2> SUFFICES ASSUME NEW x \in Frame
               PROVE  /\ k2[x] \in {"heap", "self", "user", "page"} => mem'[up[x]][idx[x]] = x
                      /\ k2[x] = "heap" => up[x] = HeapTable
                      /\ k2[x] = "self" => up[x] \in dirs \ {kernel_directory} /\ idx[x] = USER_DIR
                      /\ k2[x] = "user" => up[x] \in dirs /\ idx[x] = USER
                      /\ k2[x] = "page" => k2[up[x]] = "user"
    BY DEF Parents
  <2>1. CASE x = f
    BY <1>3, <2>1
  <2>2. CASE x # f
    <3>1. /\ kind[x] \in {"heap", "self", "user", "page"} => mem[up[x]][idx[x]] = x
          /\ kind[x] = "heap" => up[x] = HeapTable
          /\ kind[x] = "self" => up[x] \in dirs \ {kernel_directory} /\ idx[x] = USER_DIR
          /\ kind[x] = "user" => up[x] \in dirs /\ idx[x] = USER
          /\ kind[x] = "page" => kind[up[x]] = "user"
      BY DEF Roles, Parents
    <3>2. kind[x] \in {"heap", "self", "user", "page"} => mem'[up[x]][idx[x]] = x
      <4>1. up[x] \in Frame /\ idx[x] \in Entry
        OBVIOUS
      <4>2. CASE up[x] = HeapTable
        BY <1>5, <2>2, <3>1, <4>1, <4>2
      <4>3. CASE up[x] # HeapTable
        BY <1>5, <3>1, <4>1, <4>3
      <4> QED
        BY <4>2, <4>3
    <3> QED
      BY <1>2, <1>3, <2>2, <3>1, <3>2
  <2> QED
    BY <2>1, <2>2
<1>9. Children(k2, up, idx)'
  <2>1. ASSUME NEW x \in Frame, NEW l \in Entry, mem'[x][l] = mem[x][l], NEW g,
               Child(kind, up, idx, x, l, g), x # HeapTable \/ l # j
        PROVE  Child(k2, up, idx, x, l, g)'
    BY <1>2, <1>3, <2>1 DEF Child
  <2>2. ASSUME NEW x \in Frame, k2[x] = "user", NEW l \in Entry, mem'[x][l] # 0
        PROVE  Child(k2, up, idx, x, l, "page")'
    <3>1. kind[x] = "user" /\ x # HeapTable
      BY <1>3, <1>4, <2>2
    <3>2. mem'[x][l] = mem[x][l]
      BY <1>5, <3>1
    <3>3. Child(kind, up, idx, x, l, "page")
      BY <2>2, <3>1, <3>2 DEF Roles, Children
    <3> QED
      BY <2>1, <3>1, <3>2, <3>3
  <2>3. ASSUME NEW l \in Entry, mem'[HeapTable][l] # 0
        PROVE  Child(k2, up, idx, HeapTable, l, "heap")'
    <3>1. l # j /\ mem'[HeapTable][l] = mem[HeapTable][l] /\ HeapTable \in Frame
      BY <1>5, <2>3
    <3>2. Child(kind, up, idx, HeapTable, l, "heap")
      BY <2>3, <3>1 DEF Roles, Children
    <3> QED
      BY <2>1, <3>1, <3>2
  <2>4. ASSUME NEW d \in dirs \ {kernel_directory}
        PROVE  Child(k2, up, idx, d, USER_DIR, "self")'
    <3>1. mem'[d][USER_DIR] = mem[d][USER_DIR] /\ d \in Frame /\ d # HeapTable /\ USER_DIR \in Entry
      BY <1>4, <1>5, Places
    <3>2. Child(kind, up, idx, d, USER_DIR, "self")
      BY DEF Roles, Children
    <3> QED
      BY <2>1, <3>1, <3>2
  <2>5. ASSUME NEW d \in dirs, mem'[d][USER] # 0
        PROVE  \/ Child(k2, up, idx, d, USER, "user")'
               \/ d # kernel_directory /\ mem'[d][USER] = mem'[kernel_directory][USER]
    <3>1. /\ mem'[d][USER] = mem[d][USER] /\ mem[d][USER] # 0 /\ d \in Frame
          /\ d # HeapTable /\ USER \in Entry
          /\ mem'[kernel_directory][USER] = mem[kernel_directory][USER]
      BY <1>4, <1>5, <2>5, Places
    <3>2. \/ Child(kind, up, idx, d, USER, "user")
          \/ d # kernel_directory /\ mem[d][USER] = mem[kernel_directory][USER]
      BY <3>1 DEF Roles, Children
    <3> QED
      BY <2>1, <3>1, <3>2
  <2> QED
    BY <2>2, <2>3, <2>4, <2>5 DEF Children
<1> QED
  BY <1>6, <1>7, <1>8, <1>9 DEF Labelled, Roles

-----------------------------------------------------------------------------
(* Mount points and clone_directory()                                      *)

\* All mount points are free in the kernel's directory, all but two in others.
LEMMA MountPoints ==
  ASSUME TypeOK, Layout
  PROVE  /\ FreeMounts(kernel_directory) = 5 .. 4 + Mounts
         /\ \A d \in dirs : /\ 7 .. 4 + Mounts \subseteq FreeMounts(d)
                            /\ FreeMounts(d) \subseteq 5 .. 4 + Mounts
<1> USE Constants
<1>1. \A s \in MOUNT_TABS : mem[kernel_directory][s] = 0
  BY DEF Layout
<1>2. \A d \in dirs : \A s \in MOUNT_TABS : s # 5 /\ s # 6 => mem[d][s] = 0
  BY <1>1 DEF Layout
<1> QED
  BY <1>1, <1>2 DEF FreeMounts, HasTable, MOUNT_TABS

\* So there are at least as many as clone_directory() and destroy_directory() need.
LEMMA MountsLeft ==
  ASSUME TypeOK, Layout, NEW d \in dirs
  PROVE  Cardinality(FreeMounts(d)) >= Mounts - 2 /\ FreeMounts(d) # {}
<1> USE Constants
<1> DEFINE A == 7 .. 4 + Mounts
           B == FreeMounts(d)
<1>1. A \subseteq B /\ B \subseteq 5 .. 4 + Mounts
  BY MountPoints
<1>2. IsFiniteSet(5 .. 4 + Mounts)
  BY FS_Interval
<1>3. IsFiniteSet(B)
  BY <1>1, <1>2, FS_Subset
<1>4. Cardinality(A) = Mounts - 2
  <2>1. Cardinality(A) = IF 7 > 4 + Mounts THEN 0 ELSE 4 + Mounts - 7 + 1
    BY FS_Interval
  <2> QED
    BY <2>1
<1>5. Cardinality(A) <= Cardinality(B) /\ Cardinality(B) \in Nat
  BY <1>1, <1>3, FS_Subset, FS_CardinalityType
<1>6. 7 \in A
  OBVIOUS
<1> HIDE DEF A, B
<1>7. B # {}
  BY <1>1, <1>6
<1> QED
  BY <1>4, <1>5, <1>7 DEF B

\* The two that clone_directory() takes of the kernel's directory.
LEMMA FirstMounts ==
  ASSUME TypeOK, Layout, current_directory = kernel_directory
  PROVE  find_mount_point({}) = 5 /\ find_mount_point({5}) = 6
<1> USE Constants
<1>1. FreeMounts(current_directory) = 5 .. 4 + Mounts
  BY MountPoints
<1>2. ASSUME NEW S, NEW a \in S, a \in Nat, \A b \in S : b \in Nat /\ a <= b
      PROVE  Min(S) = a
  <2>1. \A x \in S : (\A y \in S : x =< y) => x = a
    BY <1>2
  <2> QED
    BY <1>2, <2>1 DEF Min
<1>3. Min((5 .. 4 + Mounts) \ {}) = 5
  <2> DEFINE S == (5 .. 4 + Mounts) \ {}
  <2>1. 5 \in S /\ 5 \in Nat /\ \A b \in S : b \in Nat /\ 5 <= b
    OBVIOUS
  <2> HIDE DEF S
  <2>2. Min(S) = 5
    BY <1>2, <2>1
  <2> QED
    BY <2>2 DEF S
<1>4. Min((5 .. 4 + Mounts) \ {5}) = 6
  <2> DEFINE S == (5 .. 4 + Mounts) \ {5}
  <2>1. 6 \in S /\ 6 \in Nat /\ \A b \in S : b \in Nat /\ 6 <= b
    OBVIOUS
  <2> HIDE DEF S
  <2>2. Min(S) = 6
    BY <1>2, <2>1
  <2> QED
    BY <2>2 DEF S
<1> QED
  BY <1>1, <1>3, <1>4 DEF find_mount_point

\* A new directory f and its table t.
ClonesTo(f, t) ==
  /\ f \in Frame /\ t \in Frame /\ f # t /\ f \in ToSet(free) /\ t \in ToSet(free)
  /\ \A x \in Frame : x # f /\ x # t => mem'[x] = mem[x]
  /\ \A i \in {LOWMEM, USER, KHEAP, MOUNT_DIR, KERNEL_TABLES} :
       mem'[f][i] = mem[kernel_directory][i]
  /\ mem'[f][USER_DIR] = t /\ mem'[f][USER_TABLES] = f
  /\ \A s \in MOUNT_TABS :
       mem'[f][s] = IF s = 5 THEN kernel_directory ELSE IF s = 6 THEN f ELSE 0
  /\ mem'[t][LAST] = f /\ \A k \in Entry \ {LAST} : mem'[t][k] = 0
  /\ ToSet(free') = ToSet(free) \ {f, t} /\ dirs' = dirs \cup {f}

\* A directory and the table that mounts it in itself are taken.
LEMMA AddDirectory ==
  ASSUME TypeOK, Layout,
         NEW kind \in [Frame -> Kind], NEW up \in [Frame -> Frame],
         NEW idx \in [Frame -> Entry], Roles(kind, up, idx),
         NEW f, NEW t, ClonesTo(f, t)
  PROVE  Layout' /\ Labelled'
<1> USE Constants
<1>1. /\ f \in Frame /\ t \in Frame /\ f # t /\ dirs' = dirs \cup {f}
      /\ \A x \in Frame : x # f /\ x # t => mem'[x] = mem[x]
  BY DEF ClonesTo
<1>2. PICK k2 \in [Frame -> Kind] : k2 = [kind EXCEPT ![f] = "dir", ![t] = "self"]
  BY <1>1 DEF Kind
<1>3. PICK u2 \in [Frame -> Frame] : u2 = [up EXCEPT ![t] = f]
  BY <1>1
<1>4. PICK i2 \in [Frame -> Entry] : i2 = [idx EXCEPT ![t] = USER_DIR]
  BY Places
<1>5. /\ \A x \in Frame : x # f /\ x # t => k2[x] = kind[x] /\ u2[x] = up[x] /\ i2[x] = idx[x]
      /\ k2[f] = "dir" /\ k2[t] = "self" /\ u2[t] = f /\ i2[t] = USER_DIR
  BY <1>1, <1>2, <1>3, <1>4
<1>6. /\ kind[LowTable] = "boot" /\ kind[MountTable] = "boot" /\ kind[HeapTable] = "boot"
      /\ kind[kernel_directory] = "boot" /\ kind[f] = "free" /\ kind[t] = "free"
      /\ \A d \in dirs : d = kernel_directory \/ kind[d] = "dir"
      /\ \A d \in dirs \ {kernel_directory} :
           mem[d][USER_DIR] \in Frame /\ kind[mem[d][USER_DIR]] = "self"
      /\ kernel_directory \in dirs /\ \A d \in dirs : d \in Frame
  <2>1. kind[f] = "free" /\ kind[t] = "free"
    BY <1>1 DEF ClonesTo, Roles, Kinds
  <2>2. kernel_directory \in dirs /\ \A d \in dirs : d \in Frame
    BY DEF TypeOK
  <2> QED
    BY <2>1, <2>2, KindOf
<1>7. {LowTable, MountTable, HeapTable, kernel_directory} \cap {f, t} = {}
  BY <1>6
<1>8. \A d \in dirs : d # f /\ d # t /\ mem'[d] = mem[d]
  BY <1>1, <1>6
<1>9. Layout'
  <2>1. ASSUME NEW d \in dirs \ {kernel_directory}, NEW s, s = mem[d][USER_DIR]
        PROVE  mem'[s] = mem[s]
    <3>1. s \in Frame /\ kind[s] = "self"
      BY <1>6, <2>1
    <3> QED
      BY <1>1, <1>6, <3>1
  <2>2. /\ mem'[LowTable] = mem[LowTable] /\ mem'[MountTable] = mem[MountTable]
        /\ mem'[kernel_directory] = mem[kernel_directory]
    BY <1>1, <1>7
  <2>3. \A d \in dirs' :
         /\ mem'[d][LOWMEM] = LowTable /\ mem'[d][KHEAP] = HeapTable
         /\ mem'[d][MOUNT_DIR] = MountTable /\ mem'[d][KERNEL_TABLES] = kernel_directory
    <3>1. \A d \in dirs :
           /\ mem[d][LOWMEM] = LowTable /\ mem[d][KHEAP] = HeapTable
           /\ mem[d][MOUNT_DIR] = MountTable /\ mem[d][KERNEL_TABLES] = kernel_directory
      BY DEF Layout
    <3> QED
      BY <1>1, <1>6, <1>8, <3>1 DEF ClonesTo
  <2>4. /\ mem'[kernel_directory][USER_DIR] = 0 /\ mem'[kernel_directory][USER_TABLES] = 0
        /\ \A s \in MOUNT_TABS : mem'[kernel_directory][s] = 0
    BY <2>2 DEF Layout
  <2>5. ASSUME NEW d \in dirs' \ {kernel_directory}
        PROVE  /\ mem'[d][USER_TABLES] = d
               /\ mem'[mem'[d][USER_DIR]][LAST] = d
               /\ \A k \in Entry \ {LAST} : mem'[mem'[d][USER_DIR]][k] = 0
    <3>1. CASE d = f
      BY <3>1 DEF ClonesTo
    <3>2. CASE d # f
      <4>1. d \in dirs \ {kernel_directory} /\ mem'[d] = mem[d]
        BY <1>1, <1>8, <2>5, <3>2
      <4>2. mem'[mem[d][USER_DIR]] = mem[mem[d][USER_DIR]]
        BY <2>1, <4>1
      <4> QED
        BY <4>1, <4>2 DEF Layout
    <3> QED
      BY <3>1, <3>2
  <2>6. ASSUME NEW d \in dirs' \ {kernel_directory}, NEW s \in MOUNT_TABS
        PROVE  mem'[d][s] = IF s = 5 THEN kernel_directory ELSE IF s = 6 THEN d ELSE 0
    <3>1. CASE d = f
      BY <3>1 DEF ClonesTo
    <3>2. CASE d # f
      BY <1>1, <1>8, <2>6, <3>2 DEF Layout
    <3> QED
      BY <3>1, <3>2
  <2>7. /\ \A k \in Entry : mem'[LowTable][k] = 0
        /\ mem'[MountTable][LAST] = kernel_directory
        /\ \A k \in Entry \ {LAST} : mem'[MountTable][k] = 0
    BY <2>2 DEF Layout
  <2> QED
    BY <2>3, <2>4, <2>5, <2>6, <2>7 DEF Layout
<1> HIDE DEF Kind
<1>10. Kinds(k2)'
  BY <1>1, <1>5, <1>6 DEF Roles, Kinds, ClonesTo
<1>11. Parents(k2, u2, i2)'
  <2> SUFFICES ASSUME NEW x \in Frame
               PROVE  /\ k2[x] \in {"heap", "self", "user", "page"} => mem'[u2[x]][i2[x]] = x
                      /\ k2[x] = "heap" => u2[x] = HeapTable
                      /\ k2[x] = "self" => u2[x] \in dirs' \ {kernel_directory} /\ i2[x] = USER_DIR
                      /\ k2[x] = "user" => u2[x] \in dirs' /\ i2[x] = USER
                      /\ k2[x] = "page" => k2[u2[x]] = "user"
    BY DEF Parents
  <2>1. CASE x = f
    BY <1>5, <2>1
  <2>2. CASE x = t
    <3>1. mem'[f][USER_DIR] = t
      BY DEF ClonesTo
    <3> QED
      BY <1>1, <1>5, <1>7, <2>2, <3>1
  <2>3. CASE x # f /\ x # t
    <3>1. k2[x] = kind[x] /\ u2[x] = up[x] /\ i2[x] = idx[x] /\ up[x] \in Frame /\ idx[x] \in Entry
      BY <1>5, <2>3
    <3>2. /\ kind[x] \in {"heap", "self", "user", "page"} => mem[up[x]][idx[x]] = x
          /\ kind[x] = "heap" => up[x] = HeapTable
          /\ kind[x] = "self" => up[x] \in dirs \ {kernel_directory} /\ idx[x] = USER_DIR
          /\ kind[x] = "user" => up[x] \in dirs /\ idx[x] = USER
          /\ kind[x] = "page" => kind[up[x]] = "user"
      BY DEF Roles, Parents
    <3>3. kind[x] \in {"heap", "self", "user", "page"} => up[x] # f /\ up[x] # t
      BY <1>6, <1>7, <1>8, <3>2
    <3>4. kind[x] \in {"heap", "self", "user", "page"} => mem'[up[x]][idx[x]] = x
      BY <1>1, <3>1, <3>2, <3>3
    <3>5. kind[x] = "page" => k2[up[x]] = "user"
      BY <1>5, <3>1, <3>2, <3>3
    <3> QED
      BY <1>1, <3>1, <3>2, <3>4, <3>5
  <2> QED
    BY <2>1, <2>2, <2>3
<1>12. Children(k2, u2, i2)'
  <2>1. ASSUME NEW x \in Frame, NEW l \in Entry, mem'[x][l] = mem[x][l], NEW g,
               Child(kind, up, idx, x, l, g), g # "free"
        PROVE  Child(k2, u2, i2, x, l, g)'
    <3>1. PICK y \in Frame : y = mem[x][l] /\ kind[y] = g /\ up[y] = x /\ idx[y] = l
      BY <2>1 DEF Child
    <3>2. y # f /\ y # t
      BY <1>6, <2>1, <3>1
    <3>3. k2[y] = g /\ u2[y] = x /\ i2[y] = l
      BY <1>5, <3>1, <3>2
    <3> QED
      BY <2>1, <3>1, <3>3 DEF Child
  <2>2. ASSUME NEW x \in Frame, k2[x] = "user", NEW l \in Entry, mem'[x][l] # 0
        PROVE  Child(k2, u2, i2, x, l, "page")'
    <3>1. x # f /\ x # t /\ kind[x] = "user"
      BY <1>5, <2>2
    <3>2. mem'[x][l] = mem[x][l]
      BY <1>1, <3>1
    <3>3. Child(kind, up, idx, x, l, "page")
      BY <2>2, <3>1, <3>2 DEF Roles, Children
    <3> QED
      BY <2>1, <3>2, <3>3
  <2>3. ASSUME NEW l \in Entry, mem'[HeapTable][l] # 0
        PROVE  Child(k2, u2, i2, HeapTable, l, "heap")'
    <3>1. mem'[HeapTable][l] = mem[HeapTable][l] /\ HeapTable \in Frame
      BY <1>1, <1>7
    <3>2. Child(kind, up, idx, HeapTable, l, "heap")
      BY <2>3, <3>1 DEF Roles, Children
    <3> QED
      BY <2>1, <3>1, <3>2
  <2>4. ASSUME NEW d \in dirs' \ {kernel_directory}
        PROVE  Child(k2, u2, i2, d, USER_DIR, "self")'
    <3>1. CASE d = f
      BY <1>1, <1>5, <3>1 DEF Child, ClonesTo
    <3>2. CASE d # f
      <4>1. /\ d \in dirs \ {kernel_directory} /\ d \in Frame /\ USER_DIR \in Entry
            /\ mem'[d][USER_DIR] = mem[d][USER_DIR]
        BY <1>1, <1>6, <1>8, <2>4, <3>2, Places
      <4>2. Child(kind, up, idx, d, USER_DIR, "self")
        BY <4>1 DEF Roles, Children
      <4> QED
        BY <2>1, <4>1, <4>2
    <3> QED
      BY <3>1, <3>2
  <2>5. ASSUME NEW d \in dirs', mem'[d][USER] # 0
        PROVE  \/ Child(k2, u2, i2, d, USER, "user")'
               \/ d # kernel_directory /\ mem'[d][USER] = mem'[kernel_directory][USER]
    <3>1. mem'[kernel_directory] = mem[kernel_directory]
      BY <1>6, <1>8
    <3>2. CASE d = f
      BY <1>7, <3>1, <3>2 DEF ClonesTo
    <3>3. CASE d # f
      <4>1. /\ mem'[d][USER] = mem[d][USER] /\ mem[d][USER] # 0 /\ d \in dirs /\ d \in Frame
            /\ USER \in Entry
        BY <1>1, <1>6, <1>8, <2>5, <3>3, Places
      <4>2. \/ Child(kind, up, idx, d, USER, "user")
            \/ d # kernel_directory /\ mem[d][USER] = mem[kernel_directory][USER]
        BY <4>1 DEF Roles, Children
      <4> QED
        BY <2>1, <3>1, <4>1, <4>2
    <3> QED
      BY <3>2, <3>3
  <2> QED
    BY <2>2, <2>3, <2>4, <2>5 DEF Children
<1> QED
  BY <1>9, <1>10, <1>11, <1>12 DEF Labelled, Roles

\* clone_directory(), where it does not panic and the new table is clear.
LEMMA Cloned ==
  ASSUME TypeOK, IsInjective(free), Layout,
         NEW kind, NEW up, NEW idx, Roles(kind, up, idx),
         clone_directory, fault' = fault, fault = "no"
  PROVE  /\ ClonesTo(Top(0), Top(1)) /\ mem' \in [Frame -> [Entry -> Frame \cup {0, Junk}]]
         /\ current_directory = kernel_directory
         /\ free' = Popped(2) /\ free' \in Seq(Frame) /\ IsInjective(free')
         /\ current_directory' = Top(0) /\ old_dir' = kernel_directory /\ execs' = execs + 1
<1> USE Constants
<1> DEFINE f  == Top(0)
           t  == Top(1)
           K  == kernel_directory
           s1 == find_mount_point({})
           s2 == find_mount_point({s1})
           w  == mount_directory(mount_directory(mem[current_directory],
                                                 s1, current_directory), s2, f)
<1>1. /\ free # << >> /\ current_directory = K /\ ~(Len(free) < 2) /\ ~Stale(t)
      /\ mem' = [mem EXCEPT ![f] = SelfMap(w, f, t), ![t][LAST] = f,
                            ![current_directory] =
                               umount_directory(umount_directory(w, s1), s2)]
      /\ free' = Popped(2) /\ dirs' = dirs \cup {f}
      /\ current_directory' = f /\ old_dir' = K /\ execs' = execs + 1
  BY DEF clone_directory, panic
<1>2. s1 = 5 /\ s2 = 6
  BY <1>1, FirstMounts
<1>3. Len(free) >= 2
  BY <1>1 DEF TypeOK
<1>4. /\ free' \in Seq(Frame) /\ IsInjective(free') /\ f \in Frame /\ t \in Frame /\ f # t
      /\ f \in ToSet(free) /\ t \in ToSet(free) /\ ToSet(free') = ToSet(free) \ {f, t}
  BY <1>1, <1>3, PoppedTwo
<1>5. /\ mem \in [Frame -> [Entry -> Frame \cup {0, Junk}]] /\ K \in Frame
      /\ mem[K] \in [Entry -> Frame \cup {0, Junk}]
      /\ mem[t] \in [Entry -> Frame \cup {0, Junk}]
      /\ 5 \in Entry /\ 6 \in Entry /\ LAST \in Entry
      /\ USER_DIR \in Entry /\ USER_TABLES \in Entry
  BY <1>4, Places DEF TypeOK
<1>6. K # f /\ K # t
  <2>1. \A x \in Frame : x \in ToSet(free) => x # K
    <3>1. kind[K] = "boot" /\ \A x \in Frame : x \in ToSet(free) => kind[x] = "free"
      BY <1>5 DEF Roles, Kinds
    <3> QED
      BY <3>1
  <2> HIDE DEF f, t
  <2> QED
    BY <1>4, <2>1
<1>7. mem[K][5] = 0 /\ mem[K][6] = 0 /\ \A s \in MOUNT_TABS : mem[K][s] = 0
  BY Places DEF Layout
<1>8. w = [[mem[K] EXCEPT ![5] = K] EXCEPT ![6] = f]
  BY <1>1, <1>2 DEF mount_directory
<1> DEFINE nf == [w EXCEPT ![USER_DIR] = t, ![USER_TABLES] = f]
           nk == [[w EXCEPT ![5] = 0] EXCEPT ![6] = 0]
<1>9. mem' = [mem EXCEPT ![f] = nf, ![t][LAST] = f, ![K] = nk]
  BY <1>1, <1>2 DEF SelfMap, umount_directory
<1> HIDE DEF f, t, K, s1, s2, w
<1>10. nk = mem[K]
  BY <1>5, <1>7, <1>8
<1>11. /\ nf \in [Entry -> Frame \cup {0, Junk}]
       /\ nf[USER_DIR] = t /\ nf[USER_TABLES] = f
       /\ \A i \in Entry : i \notin {5, 6, USER_DIR, USER_TABLES} => nf[i] = mem[K][i]
       /\ nf[5] = K /\ nf[6] = f
  <2>1. w \in [Entry -> Frame \cup {0, Junk}]
    BY <1>4, <1>5, <1>8
  <2>2. w[5] = K /\ w[6] = f /\ \A i \in Entry : i # 5 /\ i # 6 => w[i] = mem[K][i]
    BY <1>5, <1>8
  <2>3. nf \in [Entry -> Frame \cup {0, Junk}]
    BY <1>4, <1>5, <2>1
  <2>4. USER_DIR = 2 /\ USER_TABLES = 3
    BY Places
  <2>5. /\ nf[USER_DIR] = t /\ nf[USER_TABLES] = f
        /\ \A i \in Entry : i # USER_DIR /\ i # USER_TABLES => nf[i] = w[i]
    BY <1>5, <2>1, <2>4
  <2> QED
    BY <1>5, <2>2, <2>3, <2>4, <2>5
<1> HIDE DEF nf, nk
<1>12. /\ mem' \in [Frame -> [Entry -> Frame \cup {0, Junk}]]
       /\ mem'[f] = nf /\ mem'[t] = [mem[t] EXCEPT ![LAST] = f]
       /\ \A x \in Frame : x # f /\ x # t => mem'[x] = mem[x]
  BY <1>4, <1>5, <1>6, <1>9, <1>10, <1>11
<1>13. mem'[t][LAST] = f /\ \A k \in Entry \ {LAST} : mem'[t][k] = 0
  <2>1. \A k \in Entry \ {LAST} : mem[t][k] = 0
    BY <1>1 DEF Stale, t
  <2> QED
    BY <1>5, <1>12, <2>1
<1>14. \A i \in {LOWMEM, USER, KHEAP, MOUNT_DIR, KERNEL_TABLES} : mem'[f][i] = mem[K][i]
  BY <1>11, <1>12, Places
<1>15. \A s \in MOUNT_TABS : mem'[f][s] = IF s = 5 THEN K ELSE IF s = 6 THEN f ELSE 0
  <2>1. \A s \in MOUNT_TABS : s \in Entry /\ s # USER_DIR /\ s # USER_TABLES
    BY Places
  <2> QED
    BY <1>7, <1>11, <1>12, <2>1
<1>16. ClonesTo(f, t)
  BY <1>1, <1>4, <1>11, <1>12, <1>13, <1>14, <1>15 DEF ClonesTo, K, f
<1> QED
  BY <1>1, <1>4, <1>12, <1>16 DEF f, t, K

-----------------------------------------------------------------------------
(* destroy_directory()                                                     *)

\* The frames that belong to the directory d.
Gone(kind, up, d) ==
  {x \in Frame : \/ x = d
                 \/ kind[x] \in {"self", "user"} /\ up[x] = d
                 \/ kind[x] = "page" /\ up[up[x]] = d}

\* A directory and what belongs to it are given back.
LEMMA DropDirectory ==
  ASSUME TypeOK, Layout,
         NEW kind \in [Frame -> Kind], NEW up \in [Frame -> Frame],
         NEW idx \in [Frame -> Entry], Roles(kind, up, idx),
         NEW d \in dirs \ {kernel_directory}, mem' = mem, dirs' = dirs \ {d},
         ToSet(free') = ToSet(free) \cup Gone(kind, up, d)
  PROVE  Layout' /\ Labelled'
<1> USE Constants
<1>1. PICK G \in SUBSET Frame : G = Gone(kind, up, d)
  BY DEF Gone
<1>2. PICK k2 \in [Frame -> Kind] : k2 = [x \in Frame |-> IF x \in G THEN "free" ELSE kind[x]]
  BY DEF Kind
<1>3. \A x \in Frame : k2[x] = IF x \in G THEN "free" ELSE kind[x]
  BY <1>2
<1>4. /\ kind[LowTable] = "boot" /\ kind[MountTable] = "boot" /\ kind[HeapTable] = "boot"
      /\ kind[kernel_directory] = "boot" /\ kind[d] = "dir" /\ d \in Frame
      /\ kernel_directory \in dirs /\ \A e \in dirs : e \in Frame
      /\ \A e \in dirs : e = kernel_directory \/ kind[e] = "dir"
  BY KindOf DEF TypeOK
<1>5. \A x \in Frame :
        /\ kind[x] \in {"free", "boot", "heap"} => x \notin G
        /\ kind[x] = "dir" => (x \in G <=> x = d)
        /\ kind[x] \in {"self", "user"} => (x \in G <=> up[x] = d)
        /\ kind[x] = "page" => (x \in G <=> up[up[x]] = d)
  BY <1>1, <1>4 DEF Gone
<1>6. Layout'
  BY <1>4, LayoutKept
<1> HIDE DEF Kind
<1>7. Kinds(k2)'
  BY <1>1, <1>3, <1>5 DEF Roles, Kinds
<1>8. Parents(k2, up, idx)'
  <2> SUFFICES ASSUME NEW x \in Frame, k2[x] # "free"
               PROVE  /\ k2[x] \in {"heap", "self", "user", "page"} => mem[up[x]][idx[x]] = x
                      /\ k2[x] = "heap" => up[x] = HeapTable
                      /\ k2[x] = "self" => up[x] \in dirs' \ {kernel_directory} /\ idx[x] = USER_DIR
                      /\ k2[x] = "user" => up[x] \in dirs' /\ idx[x] = USER
                      /\ k2[x] = "page" => k2[up[x]] = "user"
    BY DEF Parents
  <2>1. x \notin G /\ k2[x] = kind[x] /\ up[x] \in Frame
    BY <1>3
  <2>2. /\ kind[x] \in {"heap", "self", "user", "page"} => mem[up[x]][idx[x]] = x
        /\ kind[x] = "heap" => up[x] = HeapTable
        /\ kind[x] = "self" => up[x] \in dirs \ {kernel_directory} /\ idx[x] = USER_DIR
        /\ kind[x] = "user" => up[x] \in dirs /\ idx[x] = USER
        /\ kind[x] = "page" => kind[up[x]] = "user"
    BY DEF Roles, Parents
  <2>3. kind[x] \in {"self", "user"} => up[x] # d
    BY <1>5, <2>1
  <2>4. kind[x] = "page" => k2[up[x]] = "user"
    BY <1>3, <1>5, <2>1, <2>2
  <2> QED
    BY <2>1, <2>2, <2>3, <2>4
<1>9. Children(k2, up, idx)'
  <2>1. ASSUME NEW x \in Frame, NEW l \in Entry, NEW g, Child(kind, up, idx, x, l, g),
               mem[x][l] \notin G
        PROVE  Child(k2, up, idx, x, l, g)'
    BY <1>3, <2>1 DEF Child
  <2>2. ASSUME NEW x \in Frame, k2[x] = "user", NEW l \in Entry, mem[x][l] # 0
        PROVE  Child(k2, up, idx, x, l, "page")'
    <3>1. kind[x] = "user" /\ x \notin G
      BY <1>3, <2>2
    <3>2. Child(kind, up, idx, x, l, "page")
      BY <2>2, <3>1 DEF Roles, Children
    <3>3. PICK y \in Frame : y = mem[x][l] /\ kind[y] = "page" /\ up[y] = x
      BY <3>2 DEF Child
    <3>4. up[x] # d
      BY <1>5, <3>1
    <3>5. y \notin G
      BY <1>5, <3>3, <3>4
    <3> QED
      BY <2>1, <3>2, <3>3, <3>5
  <2>3. ASSUME NEW l \in Entry, mem[HeapTable][l] # 0
        PROVE  Child(k2, up, idx, HeapTable, l, "heap")'
    <3>1. Child(kind, up, idx, HeapTable, l, "heap") /\ HeapTable \in Frame
      BY <2>3 DEF Roles, Children
    <3>2. mem[HeapTable][l] \notin G
      BY <1>5, <3>1 DEF Child
    <3> QED
      BY <2>1, <3>1, <3>2
  <2>4. ASSUME NEW e \in dirs' \ {kernel_directory}
        PROVE  Child(k2, up, idx, e, USER_DIR, "self")'
    <3>1. e \in dirs \ {kernel_directory} /\ e # d /\ e \in Frame /\ USER_DIR \in Entry
      BY <1>4, <2>4, Places
    <3>2. Child(kind, up, idx, e, USER_DIR, "self")
      BY <3>1 DEF Roles, Children
    <3>3. mem[e][USER_DIR] \notin G
      BY <1>5, <3>1, <3>2 DEF Child
    <3> QED
      BY <2>1, <3>1, <3>2, <3>3
  <2>5. ASSUME NEW e \in dirs', mem[e][USER] # 0
        PROVE  \/ Child(k2, up, idx, e, USER, "user")'
               \/ e # kernel_directory /\ mem[e][USER] = mem[kernel_directory][USER]
    <3>1. e \in dirs /\ e # d /\ e \in Frame /\ USER \in Entry
      BY <1>4, <2>5, Places
    <3>2. \/ Child(kind, up, idx, e, USER, "user")
          \/ e # kernel_directory /\ mem[e][USER] = mem[kernel_directory][USER]
      BY <2>5, <3>1 DEF Roles, Children
    <3>3. ASSUME Child(kind, up, idx, e, USER, "user") PROVE mem[e][USER] \notin G
      BY <1>5, <3>1, <3>3 DEF Child
    <3> QED
      BY <2>1, <3>1, <3>2, <3>3
  <2> QED
    BY <2>2, <2>3, <2>4, <2>5 DEF Children
<1> QED
  BY <1>6, <1>7, <1>8, <1>9 DEF Labelled, Roles

\* The pages in the words js of the table t, whose contents is w, then t.
PagesThenTable(w, js, t) == Append([k \in DOMAIN js |-> w[js[k]]], t)

\* What is freed with a table t: its pages, once each, and t.
LEMMA FreedWithTable ==
  ASSUME NEW t \in Frame, NEW S \in SUBSET Entry, NEW js \in Ascending(S),
         NEW w, \A j \in S : w[j] \in Frame /\ w[j] # t,
         \A j, l \in S : w[j] = w[l] => j = l,
         NEW s, s = PagesThenTable(w, js, t)
  PROVE  /\ s \in Seq(Frame) /\ IsInjective(s)
         /\ \A x : x \in ToSet(s) <=> x = t \/ \E j \in S : x = w[j]
<1> USE Constants
<1> DEFINE p == [k \in DOMAIN js |-> w[js[k]]]
<1>1. PICK n \in Nat : n = Cardinality(S)
  <2>1. LAST \in Nat
    BY Places
  <2>2. IsFiniteSet(Entry)
    BY <2>1, FS_Interval DEF Entry
  <2>3. IsFiniteSet(S)
    BY <2>2, FS_Subset
  <2> QED
    BY <2>3, FS_CardinalityType
<1>2. /\ js \in [1 .. n -> S] /\ ToSet(js) = S /\ DOMAIN js = 1 .. n
      /\ \A a, b \in 1 .. n : a < b => js[a] < js[b]
  BY <1>1 DEF Ascending
<1>3. S \subseteq Nat
  BY Places DEF Entry
<1>4. \A a, b \in 1 .. n : js[a] = js[b] => a = b
  <2> SUFFICES ASSUME NEW a \in 1 .. n, NEW b \in 1 .. n, js[a] = js[b] PROVE a = b
    OBVIOUS
  <2>1. js[a] \in Nat /\ js[b] \in Nat
    BY <1>2, <1>3
  <2>2. ~(a < b) /\ ~(b < a)
    BY <1>2, <2>1
  <2> QED
    BY <2>2
<1>5. p \in Seq(Frame) /\ DOMAIN p = 1 .. n /\ \A k \in 1 .. n : p[k] = w[js[k]]
  <2>1. p \in [1 .. n -> Frame]
    BY <1>2
  <2> QED
    BY <1>2, <2>1
<1>6. s = Append(p, t)
  BY DEF PagesThenTable
<1> HIDE DEF p
<1>7. IsInjective(p)
  BY <1>2, <1>4, <1>5 DEF IsInjective
<1>8. \A x : x \in ToSet(p) <=> \E j \in S : x = w[j]
  <2>1. \A k \in 1 .. n : js[k] \in S
    BY <1>2
  <2>2. \A j \in S : \E k \in 1 .. n : js[k] = j
    BY <1>2 DEF ToSet
  <2>3. ToSet(p) = {p[k] : k \in 1 .. n}
    BY <1>5 DEF ToSet
  <2>4. ASSUME NEW x, x \in ToSet(p) PROVE \E j \in S : x = w[j]
    <3>1. PICK k \in 1 .. n : x = p[k]
      BY <2>3, <2>4
    <3>2. x = w[js[k]] /\ js[k] \in S
      BY <1>5, <2>1, <3>1
    <3> QED
      BY <3>2
  <2>5. ASSUME NEW x, NEW j \in S, x = w[j] PROVE x \in ToSet(p)
    <3>1. PICK k \in 1 .. n : js[k] = j
      BY <2>2
    <3>2. x = p[k]
      BY <1>5, <2>5, <3>1
    <3> QED
      BY <2>3, <3>2
  <2> QED
    BY <2>4, <2>5
<1>9. t \notin ToSet(p)
  BY <1>8
<1>10. s \in Seq(Frame) /\ IsInjective(s) /\ ToSet(s) = ToSet(p) \cup {t}
  BY <1>5, <1>6, <1>7, <1>9, Pushed
<1> QED
  BY <1>8, <1>10

\* The table that mounts the directory in itself maps nothing else.
LEMMA FreedSelf ==
  ASSUME TypeOK, Layout, NEW kind, NEW up, NEW idx, Roles(kind, up, idx),
         NEW d \in dirs \ {kernel_directory}, NEW s \in FreedOf(d, USER_DIR)
  PROVE  /\ s \in Seq(Frame) /\ IsInjective(s)
         /\ ToSet(s) = {x \in Frame : kind[x] = "self" /\ up[x] = d}
<1> USE Constants
<1>1. PICK t : t = mem[d][USER_DIR]
  OBVIOUS
<1>2. t \in Frame /\ kind[t] = "self" /\ up[t] = d
  BY <1>1, KindOf
<1>3. TableFreed(d, USER_DIR)
  <2>1. mem[kernel_directory][USER_DIR] = 0
    BY DEF Layout
  <2> QED
    BY <1>1, <1>2, <2>1, Places DEF TableFreed, HasTable, Linked
<1>4. {j \in Entry : PageFreed(USER_DIR, j, mem[t][j])} = {}
  BY <1>1 DEF Layout, PageFreed
<1>5. PICK js \in Ascending({}) : s = Append([k \in DOMAIN js |-> mem[t][js[k]]], t)
  BY <1>1, <1>3, <1>4 DEF FreedOf
<1>6. PICK w : w = mem[t]
  OBVIOUS
<1>7. s \in Seq(Frame) /\ IsInjective(s) /\ ToSet(s) = {t}
  <2>1. s = PagesThenTable(w, js, t)
    BY <1>5, <1>6 DEF PagesThenTable
  <2>2. PICK S \in SUBSET Entry : S = {}
    OBVIOUS
  <2>3. /\ js \in Ascending(S)
        /\ \A j \in S : w[j] \in Frame /\ w[j] # t
        /\ \A j, l \in S : w[j] = w[l] => j = l
    BY <2>2
  <2>4. /\ s \in Seq(Frame) /\ IsInjective(s)
        /\ \A x : x \in ToSet(s) <=> x = t \/ \E j \in S : x = w[j]
    BY <1>2, <2>1, <2>3, FreedWithTable
  <2> QED
    BY <2>2, <2>4
<1>8. \A x \in Frame : kind[x] = "self" /\ up[x] = d => x = t
  BY <1>1 DEF Roles, Parents
<1> QED
  BY <1>2, <1>7, <1>8

\* The user table and its pages, unless the table is the kernel's.
LEMMA FreedUser ==
  ASSUME TypeOK, Layout, NEW kind, NEW up \in [Frame -> Frame],
         NEW idx \in [Frame -> Entry], Roles(kind, up, idx),
         NEW d \in dirs \ {kernel_directory}, NEW s \in FreedOf(d, USER)
  PROVE  /\ s \in Seq(Frame) /\ IsInjective(s)
         /\ ToSet(s) = {x \in Frame : \/ kind[x] = "user" /\ up[x] = d
                                      \/ kind[x] = "page" /\ up[up[x]] = d}
<1> USE Constants
<1> DEFINE K == kernel_directory
<1>1. PICK t : t = mem[d][USER]
  OBVIOUS
<1>2. \A x \in Frame : kind[x] = "user" /\ up[x] = d => x = t
  BY <1>1 DEF Roles, Parents
<1>3. \A x \in Frame : kind[x] = "page" =>
        /\ up[x] \in Frame /\ idx[x] \in Entry
        /\ kind[up[x]] = "user" /\ mem[up[x]][idx[x]] = x
  BY DEF Roles, Parents
<1>4. mem[K][USER] # 0 => mem[K][USER] \in Frame /\ up[mem[K][USER]] = K
  BY DEF Roles, Children, Child, TypeOK
<1>5. t # 0 => \/ t \in Frame /\ kind[t] = "user" /\ up[t] = d
               \/ t = mem[K][USER]
  BY <1>1 DEF Roles, Children, Child
<1>6. CASE t = 0 \/ t = mem[K][USER]
  <2>1. s = << >>
    BY <1>1, <1>6 DEF FreedOf, TableFreed, HasTable, Linked
  <2>2. t # 0 => t \in Frame /\ up[t] # d
    BY <1>4, <1>6
  <2>3. \A x \in Frame : ~(kind[x] = "user" /\ up[x] = d)
    BY <1>2, <2>2
  <2>4. \A x \in Frame : ~(kind[x] = "page" /\ up[up[x]] = d)
    BY <1>3, <2>3
  <2>5. s \in Seq(Frame) /\ IsInjective(s) /\ ToSet(s) = {}
    BY <2>1, SmallSets
  <2> QED
    BY <2>3, <2>4, <2>5
<1>7. CASE t # 0 /\ t # mem[K][USER]
  <2>1. t \in Frame /\ kind[t] = "user" /\ up[t] = d
    BY <1>5, <1>7
  <2>2. TableFreed(d, USER)
    BY <1>1, <1>7, Places DEF TableFreed, HasTable, Linked
  <2>3. PICK S \in SUBSET Entry : S = {j \in Entry : mem[t][j] # 0}
    OBVIOUS
  <2>4. {j \in Entry : PageFreed(USER, j, mem[t][j])} = S
    BY <2>3, Places DEF PageFreed
  <2>5. PICK js : /\ js \in Ascending({j \in Entry : PageFreed(USER, j, mem[t][j])})
                  /\ s = Append([k \in DOMAIN js |-> mem[t][js[k]]], t)
    <3> DEFINE u == mem[d][USER]
    <3>1. PICK js : /\ js \in Ascending({j \in Entry : PageFreed(USER, j, mem[u][j])})
                    /\ s = Append([k \in DOMAIN js |-> mem[u][js[k]]], u)
      BY <2>2 DEF FreedOf
    <3> HIDE DEF u
    <3>2. u = t
      BY <1>1 DEF u
    <3> QED
      BY <3>1, <3>2
  <2>6. PICK w : w = mem[t]
    OBVIOUS
  <2>7. \A j \in S : w[j] \in Frame /\ kind[w[j]] = "page" /\ up[w[j]] = t /\ idx[w[j]] = j
    BY <2>1, <2>3, <2>6 DEF Roles, Children, Child
  <2>8. (\A j \in S : w[j] \in Frame /\ w[j] # t) /\ \A j, l \in S : w[j] = w[l] => j = l
    <3>1. ASSUME NEW j \in S, NEW l \in S, w[j] = w[l] PROVE j = l
      <4>1. idx[w[j]] = j /\ idx[w[l]] = l
        BY <2>7
      <4> QED
        BY <3>1, <4>1
    <3> QED
      BY <2>1, <2>7, <3>1
  <2>9. s = PagesThenTable(w, js, t)
    BY <2>5, <2>6 DEF PagesThenTable
  <2>10. /\ s \in Seq(Frame) /\ IsInjective(s)
         /\ \A x : x \in ToSet(s) <=> x = t \/ \E j \in S : x = w[j]
    <3>1. js \in Ascending(S)
      BY <2>4, <2>5
    <3>2. \A j \in S : w[j] \in Frame /\ w[j] # t
      BY <2>8
    <3>3. \A j, l \in S : w[j] = w[l] => j = l
      BY <2>8
    <3>4. t \in Frame
      BY <2>1
    <3> QED
      BY <2>9, <3>1, <3>2, <3>3, <3>4, FreedWithTable, SMT
  <2>11. ASSUME NEW x \in Frame, kind[x] = "page", up[up[x]] = d
         PROVE  \E j \in S : x = w[j]
    <3>1. up[x] = t /\ mem[t][idx[x]] = x /\ idx[x] \in Entry
      BY <1>2, <1>3, <2>11
    <3>2. idx[x] \in S /\ w[idx[x]] = x
      BY <2>3, <2>6, <3>1
    <3> QED
      BY <3>2
  <2>12. ASSUME NEW x, \E j \in S : x = w[j]
         PROVE  x \in Frame /\ kind[x] = "page" /\ up[up[x]] = d
    BY <2>1, <2>7, <2>12
  <2>13. \A x : x \in ToSet(s) <=>
            x \in Frame /\ (\/ kind[x] = "user" /\ up[x] = d
                            \/ kind[x] = "page" /\ up[up[x]] = d)
    <3>1. ASSUME NEW x \in ToSet(s)
          PROVE  x \in Frame /\ (\/ kind[x] = "user" /\ up[x] = d
                                 \/ kind[x] = "page" /\ up[up[x]] = d)
      <4>1. x = t \/ \E j \in S : x = w[j]
        BY <2>10, <3>1
      <4> QED
        BY <2>1, <2>12, <4>1
    <3>2. ASSUME NEW x \in Frame, \/ kind[x] = "user" /\ up[x] = d
                                  \/ kind[x] = "page" /\ up[up[x]] = d
          PROVE  x \in ToSet(s)
      <4>1. x = t \/ \E j \in S : x = w[j]
        BY <1>2, <2>11, <3>2
      <4> QED
        BY <2>10, <4>1
    <3> QED
      BY <3>1, <3>2
  <2> QED
    BY <2>10, <2>13
<1> QED
  BY <1>5, <1>6, <1>7

-----------------------------------------------------------------------------
(* The invariant is kept                                                   *)

\* After boot the free frames are those that init_vmm() has not taken.
LEMMA VmInit == Init => VmInv
<1> SUFFICES ASSUME Init PROVE VmInv
  OBVIOUS
<1> USE Constants
<1>1. TypeOK
  <2>1. BootTables \in [Entry -> Frame \cup {0, Junk}]
    BY Places DEF BootTables, Zero
  <2>2. [Zero EXCEPT ![LAST] = kernel_directory] \in [Entry -> Frame \cup {0, Junk}]
    BY Places DEF Zero
  <2>3. Zero \in [Entry -> Frame \cup {0, Junk}]
    BY DEF Zero
  <2>4. init_vmm \in [Frame -> [Entry -> Frame \cup {0, Junk}]]
    BY <2>1, <2>2, <2>3 DEF init_vmm
  <2>5. free \in Seq(Frame)
    <3>1. free \in [1 .. Frames - 4 -> Frame]
      BY DEF Init, Frame
    <3>2. Frames - 4 \in Nat
      OBVIOUS
    <3> QED
      BY <3>1, <3>2
  <2> QED
    BY <2>4, <2>5, VirtMemAssumption DEF Init, TypeOK
<1>2. /\ DOMAIN free = 1 .. Frames - 4
      /\ \A k \in 1 .. Frames - 4 : free[k] = 4 + k
  BY DEF Init
<1>3. IsInjective(free)
  BY <1>2 DEF IsInjective
<1>4. \A x \in Frame : x \in ToSet(free) <=> x > 4
  <2>1. \A x \in Frame : x > 4 => x - 4 \in 1 .. Frames - 4 /\ x = 4 + (x - 4)
    BY DEF Frame
  <2>2. \A k \in 1 .. Frames - 4 : 4 + k > 4
    OBVIOUS
  <2>3. ToSet(free) = {4 + k : k \in 1 .. Frames - 4}
    BY <1>2 DEF ToSet
  <2> QED
    BY <2>1, <2>2, <2>3
<1>5. /\ mem[1] = BootTables /\ mem[3] = [Zero EXCEPT ![LAST] = 1]
      /\ mem[2] = Zero /\ mem[4] = Zero
  BY DEF Init, init_vmm
<1>6. \A k \in Entry :
        /\ mem[1][k] = IF k = LOWMEM THEN 2 ELSE IF k = MOUNT_DIR THEN 3
                       ELSE IF k = KHEAP THEN 4 ELSE IF k = KERNEL_TABLES THEN 1 ELSE 0
        /\ mem[3][k] = IF k = LAST THEN 1 ELSE 0
        /\ mem[2][k] = 0 /\ mem[4][k] = 0
  BY <1>5, Places DEF BootTables, Zero
<1>7. dirs = {1}
  BY DEF Init
<1>8. Layout
  BY <1>6, <1>7, Places DEF Layout
<1>9. Labelled
  <2>1. PICK kind \in [Frame -> Kind] :
          kind = [x \in Frame |-> IF x <= 4 THEN "boot" ELSE "free"]
    BY DEF Kind
  <2>2. PICK up \in [Frame -> Frame] : up = [x \in Frame |-> 1]
    OBVIOUS
  <2>3. PICK idx \in [Frame -> Entry] : idx = [x \in Frame |-> USER]
    BY Places
  <2>4. \A x \in Frame : kind[x] = IF x <= 4 THEN "boot" ELSE "free"
    BY <2>1
  <2>5. Kinds(kind)
    BY <1>4, <1>7, <2>4 DEF Kinds
  <2>6. Parents(kind, up, idx)
    BY <2>4 DEF Parents
  <2>7. mem[1][USER] = 0
    BY <1>6, Places
  <2>8. Children(kind, up, idx)
    BY <1>6, <1>7, <2>4, <2>7 DEF Children
  <2> QED
    BY <2>5, <2>6, <2>8 DEF Labelled, Roles
<1> QED
  BY <1>1, <1>3, <1>8, <1>9 DEF VmInv, Init

\* A step that touches no frame, as a panic.
LEMMA FramesUntouched ==
  ASSUME Layout, Labelled, UNCHANGED <<mem, free, dirs>>
  PROVE  Layout' /\ Labelled'
BY DEF Layout, Labelled, Roles, Kinds, Parents, Children, Child

\* A panic other than for want of a mount point.
LEMMA PanicKeeps ==
  ASSUME VmInv, NEW why \in {"memory", "copied"}, panic(why)
  PROVE  VmInv'
<1>1. UNCHANGED <<mem, free, dirs, current_directory, old_dir, execs>> /\ fault' = why
  BY DEF panic
<1>2. Layout' /\ Labelled'
  BY <1>1, FramesUntouched DEF VmInv
<1>3. TypeOK' /\ IsInjective(free)'
  BY <1>1 DEF VmInv, TypeOK
<1> QED
  BY <1>1, <1>2, <1>3 DEF VmInv

\* map() of a page of the heap or of a program.
LEMMA AllocateKeeps ==
  ASSUME VmInv, NEW i \in {USER, KHEAP}, NEW j \in Entry, AllocatePage(i, j)
  PROVE  VmInv'
<1> USE Constants
<1>0. TypeOK /\ IsInjective(free) /\ Layout
  BY DEF VmInv
<1>1. PICK kind \in [Frame -> Kind], up \in [Frame -> Frame], idx \in [Frame -> Entry] :
        Roles(kind, up, idx)
  BY DEF VmInv, Labelled
<1>2. PICK c \in dirs : c = current_directory
  BY <1>0 DEF TypeOK
<1>3. /\ Len(free) \in Nat /\ mem \in [Frame -> [Entry -> Frame \cup {0, Junk}]]
      /\ c \in Frame /\ USER \in Entry /\ Data \in [Entry -> Frame \cup {0, Junk}]
  BY <1>0, <1>2, Places DEF TypeOK, Data
<1>4. CASE HasTable(c, i)
  <2>1. CASE Len(free) < 1
    BY <1>2, <1>4, <2>1, PanicKeeps DEF AllocatePage
  <2>2. CASE Len(free) >= 1
    <3>1. PICK t : t = mem[c][i]
      OBVIOUS
    <3>2. t \in Frame /\ (t = HeapTable \/ kind[t] = "user")
      <4>1. CASE i = KHEAP
        BY <1>0, <1>2, <3>1, <4>1 DEF Layout
      <4>2. CASE i = USER
        <5>1. mem[c][USER] # 0
          BY <1>4, <4>2 DEF HasTable
        <5>2. mem[c][USER] \in Frame /\ kind[mem[c][USER]] = "user"
          BY <1>0, <1>1, <1>2, <5>1, KindOf
        <5> QED
          BY <3>1, <4>2, <5>2
      <4> QED
        BY <4>1, <4>2
    <3>3. mem[t][j] = 0
      BY <1>2, <1>4, <3>1 DEF AllocatePage, get_mapping
    <3>4. PICK f : f = Top(0)
      OBVIOUS
    <3>5. /\ f \in Frame /\ f \in ToSet(free) /\ Popped(1) \in Seq(Frame)
          /\ IsInjective(Popped(1)) /\ ToSet(Popped(1)) = ToSet(free) \ {f}
      BY <1>0, <2>2, <3>4, PoppedOne
    <3>6. /\ MapOld(f, i, j) /\ free' = Popped(1)
          /\ UNCHANGED <<dirs, current_directory, old_dir, execs, fault>>
      BY <1>2, <1>3, <1>4, <2>2, <3>4 DEF AllocatePage
    <3>7. PageAdded(f, t, j)
      BY <1>2, <3>1, <3>6 DEF MapOld, PageAdded
    <3>8. Layout' /\ Labelled'
      BY <1>0, <1>1, <3>2, <3>3, <3>5, <3>6, <3>7, AddPage
    <3>9. mem' \in [Frame -> [Entry -> Frame \cup {0, Junk}]]
      BY <1>3, <3>2, <3>5, <3>7 DEF PageAdded
    <3>10. TypeOK' /\ IsInjective(free)'
      BY <1>0, <3>5, <3>6, <3>9 DEF TypeOK
    <3> QED
      BY <3>6, <3>8, <3>10 DEF VmInv
  <2> QED
    BY <1>3, <2>1, <2>2
<1>5. CASE ~HasTable(c, i)
  <2>0. i = USER /\ mem[c][USER] = 0
    BY <1>0, <1>2, <1>5 DEF HasTable, Layout
  <2>1. CASE Len(free) < 2
    BY <1>2, <1>5, <2>1, PanicKeeps DEF AllocatePage
  <2>2. CASE Len(free) >= 2
    <3>1. PICK f : f = Top(0)
      OBVIOUS
    <3>2. PICK t : t = Top(1)
      OBVIOUS
    <3>3. /\ f \in Frame /\ f \in ToSet(free) /\ t \in Frame /\ t \in ToSet(free) /\ f # t
          /\ Popped(2) \in Seq(Frame) /\ IsInjective(Popped(2))
          /\ ToSet(Popped(2)) = ToSet(free) \ {f, t}
      BY <1>0, <2>2, <3>1, <3>2, PoppedTwo
    <3>4. /\ MapNew(f, t, USER, j) /\ free' = Popped(2)
          /\ UNCHANGED <<dirs, current_directory, old_dir, execs, fault>>
      BY <1>2, <1>3, <1>5, <2>0, <2>2, <3>1, <3>2 DEF AllocatePage
    <3>5. Layout' /\ Labelled'
      BY <1>0, <1>1, <1>2, <2>0, <3>3, <3>4, AddTable
    <3>6. mem' \in [Frame -> [Entry -> Frame \cup {0, Junk}]]
      <4>1. [Zero EXCEPT ![j] = f] \in [Entry -> Frame \cup {0, Junk}]
        BY <3>3 DEF Zero
      <4>2. mem' = [mem EXCEPT ![c][USER] = t, ![t] = [Zero EXCEPT ![j] = f], ![f] = Data]
        BY <1>2, <3>4 DEF MapNew
      <4> QED
        BY <1>3, <3>3, <4>1, <4>2
    <3>7. TypeOK' /\ IsInjective(free)'
      BY <1>0, <3>3, <3>4, <3>6 DEF TypeOK
    <3> QED
      BY <3>4, <3>5, <3>7 DEF VmInv
  <2> QED
    BY <1>3, <2>1, <2>2
<1> QED
  BY <1>4, <1>5

\* free_chunk() of the heap.
LEMMA HeapShrinkKeeps ==
  ASSUME VmInv, HeapShrink
  PROVE  VmInv'
<1> USE Constants
<1>0. TypeOK /\ IsInjective(free) /\ Layout
  BY DEF VmInv
<1>1. PICK kind \in [Frame -> Kind], up \in [Frame -> Frame], idx \in [Frame -> Entry] :
        Roles(kind, up, idx)
  BY DEF VmInv, Labelled
<1>2. mem[current_directory][KHEAP] = HeapTable
  BY <1>0 DEF TypeOK, Layout
<1>3. PICK j \in Entry : /\ mem[HeapTable][j] # 0
                         /\ free' = Append(free, mem[HeapTable][j])
                         /\ mem' = [mem EXCEPT ![HeapTable][j] = 0]
  BY <1>2 DEF HeapShrink, get_mapping
<1>4. PICK f : f = mem[HeapTable][j]
  OBVIOUS
<1>5. f \in Frame /\ kind[f] = "heap"
  BY <1>1, <1>3, <1>4 DEF Roles, Children, Child
<1>6. f \notin ToSet(free)
  BY <1>1, <1>5 DEF Roles, Kinds
<1>7. /\ free' \in Seq(Frame) /\ IsInjective(free') /\ ToSet(free') = ToSet(free) \cup {f}
  BY <1>0, <1>3, <1>4, <1>5, <1>6, Pushed DEF TypeOK
<1>8. UNCHANGED <<dirs, current_directory, old_dir, execs, fault>>
  BY DEF HeapShrink
<1>9. Layout' /\ Labelled'
  BY <1>0, <1>1, <1>3, <1>4, <1>5, <1>7, <1>8, DropPage
<1>10. mem' \in [Frame -> [Entry -> Frame \cup {0, Junk}]]
  BY <1>0, <1>3 DEF TypeOK
<1>11. TypeOK' /\ IsInjective(free)'
  BY <1>0, <1>7, <1>8, <1>10 DEF TypeOK
<1> QED
  BY <1>8, <1>9, <1>11 DEF VmInv

\* exec_elf() up to the switch to the new directory.
LEMMA ExecElfKeeps ==
  ASSUME VmInv, ExecElf, fault' # "stale"
  PROVE  VmInv'
<1> USE Constants
<1>0. TypeOK /\ IsInjective(free) /\ Layout
  BY DEF VmInv
<1>1. PICK kind \in [Frame -> Kind], up \in [Frame -> Frame], idx \in [Frame -> Entry] :
        Roles(kind, up, idx)
  BY DEF VmInv, Labelled
<1>2. clone_directory /\ fault = "no" /\ execs < MaxExecs
  BY DEF ExecElf
<1>3. ~(Cardinality(FreeMounts(current_directory)) < 2)
  <2>1. PICK c \in dirs : c = current_directory
    BY <1>0 DEF TypeOK
  <2>2. PICK n : n = Cardinality(FreeMounts(c))
    OBVIOUS
  <2>3. n \in Nat
    <3>1. FreeMounts(c) \subseteq 5 .. 4 + Mounts
      BY <1>0, <2>1, MountPoints
    <3>2. IsFiniteSet(5 .. 4 + Mounts)
      BY FS_Interval
    <3> QED
      BY <2>2, <3>1, <3>2, FS_Subset, FS_CardinalityType
  <2>4. n >= Mounts - 2
    BY <1>0, <2>1, <2>2, MountsLeft
  <2>5. ~(n < 2)
    BY <2>3, <2>4
  <2> QED
    BY <2>1, <2>2, <2>5
<1>4. CASE fault' # fault
  <2>1. \E why \in {"memory", "copied"} : panic(why)
    BY <1>2, <1>3, <1>4 DEF clone_directory
  <2> QED
    BY <2>1, PanicKeeps
<1>5. CASE fault' = fault
  <2>1. PICK f : f = Top(0)
    OBVIOUS
  <2>2. PICK t : t = Top(1)
    OBVIOUS
  <2>3. /\ ClonesTo(f, t) /\ mem' \in [Frame -> [Entry -> Frame \cup {0, Junk}]]
        /\ free' \in Seq(Frame) /\ IsInjective(free')
        /\ current_directory' = f /\ old_dir' = kernel_directory /\ execs' = execs + 1
    BY <1>0, <1>1, <1>2, <1>5, <2>1, <2>2, Cloned
  <2>4. Layout' /\ Labelled'
    BY <1>0, <1>1, <2>3, AddDirectory
  <2>5. dirs' = dirs \cup {f} /\ f \in Frame
    BY <2>3 DEF ClonesTo
  <2>6. execs' \in 0 .. MaxExecs
    BY <1>0, <1>2, <2>3, VirtMemAssumption DEF TypeOK
  <2>7. TypeOK' /\ IsInjective(free)'
    BY <1>0, <1>5, <2>3, <2>5, <2>6 DEF TypeOK
  <2> QED
    BY <1>2, <1>5, <2>4, <2>7 DEF VmInv
<1> QED
  BY <1>4, <1>5

\* The end of exec_elf(), and the scheduler's switches.
LEMMA SwitchKeeps ==
  ASSUME VmInv, ExecElfReturn \/ switch_page_directory
  PROVE  VmInv'
<1>1. UNCHANGED <<mem, free, dirs, execs, fault>>
  BY DEF ExecElfReturn, switch_page_directory
<1>2. Layout' /\ Labelled'
  BY <1>1, FramesUntouched DEF VmInv
<1>3. current_directory' \in dirs /\ old_dir' \in dirs \cup {0}
  BY DEF ExecElfReturn, switch_page_directory, VmInv, TypeOK
<1>4. TypeOK' /\ IsInjective(free)'
  BY <1>1, <1>3 DEF VmInv, TypeOK
<1> QED
  BY <1>1, <1>2, <1>4 DEF VmInv

\* destroy_directory(), which gives back exactly what belongs to d.
LEMMA DestroyKeeps ==
  ASSUME VmInv, NEW d \in dirs \ {kernel_directory, current_directory}, destroy_directory(d)
  PROVE  VmInv'
<1> USE Constants
<1>0. TypeOK /\ IsInjective(free) /\ Layout /\ free \in Seq(Frame) /\ d \in Frame
  BY DEF VmInv, TypeOK
<1>1. PICK kind \in [Frame -> Kind], up \in [Frame -> Frame], idx \in [Frame -> Entry] :
        Roles(kind, up, idx)
  BY DEF VmInv, Labelled
<1>2. FreeMounts(current_directory) # {}
  BY <1>0, MountsLeft DEF TypeOK
<1>3. PICK low \in FreedOf(d, LOWMEM), user \in FreedOf(d, USER),
           self \in FreedOf(d, USER_DIR), tables \in FreedOf(d, USER_TABLES) :
        free' = Append(free \o low \o user \o self \o tables, d)
  BY <1>2 DEF destroy_directory
<1>4. dirs' = dirs \ {d} /\ UNCHANGED <<mem, current_directory, old_dir, execs, fault>>
  BY <1>2 DEF destroy_directory
<1>5. low = << >> /\ tables = << >>
  <2>1. Linked(d, LOWMEM)
    BY <1>0 DEF Linked, Layout, TypeOK
  <2> QED
    BY <2>1 DEF FreedOf, TableFreed
<1>6. /\ user \in Seq(Frame) /\ IsInjective(user)
      /\ ToSet(user) = {x \in Frame : \/ kind[x] = "user" /\ up[x] = d
                                      \/ kind[x] = "page" /\ up[up[x]] = d}
  BY <1>0, <1>1, FreedUser
<1>7. /\ self \in Seq(Frame) /\ IsInjective(self)
      /\ ToSet(self) = {x \in Frame : kind[x] = "self" /\ up[x] = d}
  BY <1>0, <1>1, FreedSelf
<1>8. /\ \A x \in Frame : x \in ToSet(free) <=> kind[x] = "free"
      /\ kind[d] = "dir"
  BY <1>0, <1>1 DEF Roles, Kinds
<1>9. PICK a : a = free \o user
  OBVIOUS
<1>10. PICK b : b = a \o self
  OBVIOUS
<1>11. a \in Seq(Frame) /\ ToSet(a) = ToSet(free) \cup ToSet(user) /\ IsInjective(a)
  <2>1. ToSet(free) \cap ToSet(user) = {}
    BY <1>6, <1>8
  <2> QED
    BY <1>0, <1>6, <1>9, <2>1, Concatenated
<1>12. b \in Seq(Frame) /\ ToSet(b) = ToSet(a) \cup ToSet(self) /\ IsInjective(b)
  <2>1. ToSet(a) \cap ToSet(self) = {}
    BY <1>6, <1>7, <1>8, <1>11
  <2> QED
    BY <1>7, <1>10, <1>11, <2>1, Concatenated
<1>13. free' = Append(b, d)
  <2>1. free \o << >> = free /\ b \o << >> = b
    BY <1>0, <1>12
  <2> QED
    BY <1>3, <1>5, <1>9, <1>10, <2>1
<1>14. d \notin ToSet(b)
  BY <1>0, <1>6, <1>7, <1>8, <1>11, <1>12
<1>15. free' \in Seq(Frame) /\ IsInjective(free') /\ ToSet(free') = ToSet(b) \cup {d}
  BY <1>0, <1>12, <1>13, <1>14, Pushed
<1>16. ToSet(free') = ToSet(free) \cup Gone(kind, up, d)
  BY <1>0, <1>6, <1>7, <1>11, <1>12, <1>15 DEF Gone
<1>17. Layout' /\ Labelled'
  BY <1>0, <1>1, <1>4, <1>16, DropDirectory
<1>18. old_dir = 0
  BY DEF destroy_directory
<1>19. TypeOK' /\ IsInjective(free)'
  BY <1>0, <1>4, <1>15, <1>18 DEF TypeOK
<1> QED
  BY <1>4, <1>17, <1>19 DEF VmInv

\* clone_directory() has been given a table with old contents.
Lost == fault = "stale"

\* No step of the kernel breaks the invariant, but for a clone_directory() that
\* is given a table with old contents.
LEMMA VmStep == VmInv /\ [Next]_vars => (Lost \/ VmInv)'
<1> SUFFICES ASSUME VmInv, [Next]_vars, fault' # "stale" PROVE VmInv'
  BY DEF Lost
<1>1. CASE allocate_range
  BY <1>1, Constants, AllocateKeeps DEF allocate_range
<1>2. CASE HeapGrow
  BY <1>2, Constants, AllocateKeeps DEF HeapGrow
<1>3. CASE HeapShrink
  BY <1>3, HeapShrinkKeeps
<1>4. CASE ExecElf
  BY <1>4, ExecElfKeeps
<1>5. CASE ExecElfReturn \/ switch_page_directory
  BY <1>5, SwitchKeeps
<1>6. CASE \E d \in dirs \ {kernel_directory, current_directory} : destroy_directory(d)
  BY <1>6, DestroyKeeps
<1>7. CASE UNCHANGED vars
  <2>1. Layout' /\ Labelled'
    BY <1>7, FramesUntouched DEF VmInv, vars
  <2> QED
    BY <1>7, <2>1 DEF VmInv, TypeOK, vars
<1> QED
  BY <1>1, <1>2, <1>3, <1>4, <1>5, <1>6, <1>7 DEF Next, Halted

\* After which the kernel is not followed.
LEMMA LostStays == Lost /\ [Next]_vars => Lost'
BY DEF Lost, Next, allocate_range, HeapGrow, AllocatePage, HeapShrink, ExecElf, ExecElfReturn,
       switch_page_directory, destroy_directory, Halted, vars

\* So it holds until then.
LEMMA VmSafe == Spec => [](Lost \/ VmInv)
<1> QED
  BY VmInit, VmStep, LostStays, PTL DEF Spec

-----------------------------------------------------------------------------
(* What the address spaces reach                                           *)

\* The frames that can be reached in the address space d, by what they are for.
Reached(kind, up, d, x) ==
  /\ x \in Frame
  /\ \/ kind[x] \in {"boot", "heap"}
     \/ x = d
     \/ x = mem[d][USER]
     \/ kind[x] = "self" /\ up[x] = d
     \/ kind[x] = "page" /\ up[x] = mem[d][USER]

\* The words of the directory d.
LEMMA DirectoryWords ==
  ASSUME TypeOK, Layout, NEW kind, NEW up, NEW idx, Roles(kind, up, idx), NEW d \in dirs
  PROVE  \A i \in Entry : mem[d][i] # 0 => Reached(kind, up, d, mem[d][i])
<1> USE Constants
<1> SUFFICES ASSUME NEW i \in Entry, mem[d][i] # 0 PROVE Reached(kind, up, d, mem[d][i])
  OBVIOUS
<1>1. /\ kind[LowTable] = "boot" /\ kind[MountTable] = "boot" /\ kind[HeapTable] = "boot"
      /\ kind[kernel_directory] = "boot" /\ d \in Frame
      /\ d # kernel_directory =>
           mem[d][USER_DIR] \in Frame /\ kind[mem[d][USER_DIR]] = "self"
           /\ up[mem[d][USER_DIR]] = d
      /\ mem[d][USER] # 0 => mem[d][USER] \in Frame
  BY KindOf DEF TypeOK
<1>2. CASE i \in {LOWMEM, KHEAP, MOUNT_DIR, KERNEL_TABLES}
  BY <1>1, <1>2 DEF Layout, Reached
<1>3. CASE i = USER
  BY <1>1, <1>3 DEF Reached
<1>4. CASE i \in {USER_DIR, USER_TABLES}
  BY <1>1, <1>4 DEF Layout, Reached
<1>5. CASE i \in MOUNT_TABS
  BY <1>1, <1>5 DEF Layout, Reached
<1> QED
  BY <1>2, <1>3, <1>4, <1>5, Places

\* The words of its tables.
LEMMA TableWords ==
  ASSUME TypeOK, Layout, NEW kind, NEW up, NEW idx, Roles(kind, up, idx), NEW d \in dirs,
         NEW i \in {LOWMEM, USER, USER_DIR, KHEAP, MOUNT_DIR}, mem[d][i] # 0,
         NEW j \in Entry, mem[mem[d][i]][j] # 0
  PROVE  Reached(kind, up, d, mem[mem[d][i]][j])
<1> USE Constants
<1>1. kind[kernel_directory] = "boot" /\ d \in Frame
  BY KindOf DEF TypeOK
<1>2. CASE i = LOWMEM
  BY <1>2 DEF Layout
<1>3. CASE i = KHEAP
  <2>1. mem[d][i] = HeapTable
    BY <1>3 DEF Layout
  <2>2. Child(kind, up, idx, HeapTable, j, "heap")
    BY <2>1 DEF Roles, Children
  <2> QED
    BY <2>1, <2>2 DEF Child, Reached
<1>4. CASE i = MOUNT_DIR
  <2>1. mem[mem[d][i]][j] = kernel_directory
    BY <1>4 DEF Layout
  <2> QED
    BY <1>1, <2>1 DEF Reached
<1>5. CASE i = USER_DIR
  <2>1. mem[mem[d][i]][j] = d
    BY <1>5 DEF Layout
  <2> QED
    BY <1>1, <2>1 DEF Reached
<1>6. CASE i = USER
  <2>1. PICK t \in Frame : t = mem[d][USER] /\ kind[t] = "user"
    BY <1>6, KindOf
  <2>2. Child(kind, up, idx, t, j, "page")
    BY <1>6, <2>1 DEF Roles, Children
  <2> QED
    BY <1>6, <2>1, <2>2 DEF Child, Reached
<1> QED
  BY <1>2, <1>3, <1>4, <1>5, <1>6

\* Reach() is exactly that.
LEMMA ReachIs ==
  ASSUME TypeOK, Layout, NEW kind, NEW up \in [Frame -> Frame],
         NEW idx \in [Frame -> Entry], Roles(kind, up, idx), NEW d \in dirs
  PROVE  \A x : x \in Reach(d) <=> Reached(kind, up, d, x)
<1> USE Constants
<1>0. d \in Frame /\ d # 0
  BY DEF TypeOK
<1>1. ASSUME NEW x \in Reach(d) PROVE Reached(kind, up, d, x)
  <2>1. CASE x = d
    BY <1>0, <2>1 DEF Reached
  <2>2. CASE \E i \in Entry : x = mem[d][i] /\ x # 0
    BY <2>2, DirectoryWords
  <2>3. CASE \E t \in TablesOf(d), j \in Entry : x = mem[t][j] /\ x # 0
    <3>1. PICK t \in TablesOf(d), j \in Entry : x = mem[t][j] /\ x # 0
      BY <2>3
    <3>2. PICK i \in {LOWMEM, USER, USER_DIR, KHEAP, MOUNT_DIR} : t = mem[d][i] /\ t # 0
      BY <3>1 DEF TablesOf
    <3> QED
      BY <3>1, <3>2, TableWords
  <2> QED
    BY <1>1, <2>1, <2>2, <2>3 DEF Reach
<1>2. ASSUME NEW x, Reached(kind, up, d, x) PROVE x \in Reach(d)
  <2>0. x \in Frame /\ x # 0
    BY <1>2 DEF Reached
  <2>1. ASSUME NEW i \in Entry, x = mem[d][i] PROVE x \in Reach(d)
    BY <2>0, <2>1 DEF Reach
  <2>2. ASSUME NEW i \in {LOWMEM, USER, USER_DIR, KHEAP, MOUNT_DIR}, mem[d][i] # 0,
               NEW j \in Entry, x = mem[mem[d][i]][j]
        PROVE  x \in Reach(d)
    <3>1. mem[d][i] \in TablesOf(d)
      BY <2>2 DEF TablesOf
    <3> QED
      BY <2>0, <2>2, <3>1 DEF Reach
  <2>3. /\ mem[d][LOWMEM] = LowTable /\ mem[d][KHEAP] = HeapTable
        /\ mem[d][MOUNT_DIR] = MountTable /\ mem[d][KERNEL_TABLES] = kernel_directory
    BY DEF Layout
  <2>4. CASE kind[x] = "boot"
    <3>1. x \in {1, 2, 3, 4}
      BY <2>0, <2>4 DEF Roles, Kinds
    <3> QED
      BY <2>1, <2>3, <3>1, Places
  <2>5. CASE kind[x] = "heap"
    <3>1. mem[HeapTable][idx[x]] = x /\ idx[x] \in Entry
      BY <2>0, <2>5 DEF Roles, Parents
    <3> QED
      BY <2>2, <2>3, <3>1
  <2>6. CASE x = d
    BY <2>0, <2>6 DEF Reach
  <2>7. CASE x = mem[d][USER]
    BY <2>1, <2>7, Places
  <2>8. CASE kind[x] = "self" /\ up[x] = d
    <3>1. x = mem[d][USER_DIR]
      BY <2>0, <2>8 DEF Roles, Parents
    <3> QED
      BY <2>1, <3>1, Places
  <2>9. CASE kind[x] = "page" /\ up[x] = mem[d][USER]
    <3>1. mem[up[x]][idx[x]] = x /\ idx[x] \in Entry /\ up[x] \in Frame
      BY <2>0, <2>9 DEF Roles, Parents
    <3>2. mem[mem[d][USER]][idx[x]] = x /\ mem[d][USER] # 0
      BY <2>9, <3>1
    <3> QED
      BY <2>2, <3>1, <3>2
  <2> QED
    BY <1>2, <2>4, <2>5, <2>6, <2>7, <2>8, <2>9 DEF Reached
<1> QED
  BY <1>1, <1>2

\* Of the free frames none is reached, and the others all are.
LEMMA Accounts == VmInv => TypeOK /\ FreeNotMapped /\ NothingLost
<1> SUFFICES ASSUME VmInv PROVE TypeOK /\ FreeNotMapped /\ NothingLost
  OBVIOUS
<1> USE Constants
<1>0. TypeOK /\ IsInjective(free) /\ Layout /\ kernel_directory \in dirs
  BY DEF VmInv, TypeOK
<1>1. PICK kind \in [Frame -> Kind], up \in [Frame -> Frame], idx \in [Frame -> Entry] :
        Roles(kind, up, idx)
  BY DEF VmInv, Labelled
<1>2. \A d \in dirs : \A x : x \in Reach(d) <=> Reached(kind, up, d, x)
  BY <1>0, <1>1, ReachIs
<1>3. /\ \A x \in Frame : kind[x] = "free" <=> x \in ToSet(free)
      /\ \A x \in Frame : kind[x] = "dir" => x \in dirs
  BY <1>1 DEF Roles, Kinds
<1>4. ASSUME NEW d \in dirs, NEW x, Reached(kind, up, d, x) PROVE x \notin ToSet(free)
  <2>1. d \in Frame /\ kind[d] # "free" /\ (mem[d][USER] # 0 => kind[mem[d][USER]] = "user")
    BY <1>0, <1>1, KindOf DEF TypeOK
  <2> QED
    BY <1>3, <1>4, <2>1 DEF Reached
<1>5. FreeNotMapped
  BY <1>0, <1>2, <1>4 DEF FreeNotMapped
<1>6. ASSUME NEW x \in Frame, x \notin ToSet(free) PROVE \E d \in dirs : Reached(kind, up, d, x)
  <2>1. /\ kind[x] \in {"self", "user", "page"} => mem[up[x]][idx[x]] = x
        /\ kind[x] = "self" => up[x] \in dirs
        /\ kind[x] = "user" => up[x] \in dirs /\ idx[x] = USER
        /\ kind[x] = "page" => kind[up[x]] = "user"
    BY <1>1 DEF Roles, Parents
  <2>2. CASE kind[x] \in {"boot", "heap"}
    BY <1>0, <2>2 DEF Reached
  <2>3. CASE kind[x] = "dir"
    BY <1>3, <2>3 DEF Reached
  <2>4. CASE kind[x] = "self"
    BY <2>1, <2>4 DEF Reached
  <2>5. CASE kind[x] = "user"
    BY <2>1, <2>5 DEF Reached
  <2>6. CASE kind[x] = "page"
    <3>1. PICK y \in Frame : y = up[x] /\ kind[y] = "user"
      BY <2>1, <2>6
    <3>2. up[y] \in dirs /\ mem[up[y]][USER] = y
      BY <1>1, <3>1 DEF Roles, Parents
    <3> QED
      BY <2>6, <3>1, <3>2 DEF Reached
  <2>7. kind[x] \in {"boot", "heap", "dir", "self", "user", "page"}
    BY <1>3, <1>6 DEF Kind
  <2> QED
    BY <2>2, <2>3, <2>4, <2>5, <2>6, <2>7
<1>7. NothingLost
  <2>1. ASSUME NEW x \in Frame PROVE x \in ToSet(free) \cup UNION {Reach(d) : d \in dirs}
    BY <1>2, <1>6
  <2>2. ASSUME NEW x \in ToSet(free) \cup UNION {Reach(d) : d \in dirs} PROVE x \in Frame
    <3>1. x \in ToSet(free) => x \in Frame
      BY <1>0 DEF TypeOK, ToSet
    <3>2. \A d \in dirs : x \in Reach(d) => x \in Frame
      BY <1>2 DEF Reached
    <3> QED
      BY <2>2, <3>1, <3>2
  <2> QED
    BY <2>1, <2>2 DEF NothingLost
<1> QED
  BY <1>0, <1>5, <1>7

-----------------------------------------------------------------------------
(* Theorems                                                                *)

\* exec_elf(), map(), the heap and destroy_directory() in any order, with and
\* without programs that follow a thread of the kernel: every frame is either
\* free, once, or mapped in some address space, and never both, up to the first
\* clone_directory() whose new table is a frame that is not clear.
THEOREM FramesAreAccounted == Spec => []FramesAccounted
<1>1. Lost \/ VmInv => FramesAccounted
  BY Accounts DEF FramesAccounted, Followed, Lost
<1> QED
  BY <1>1, VmSafe, PTL

\* The tables of the kernel that exist at boot are those of every directory, up
\* to the first clone_directory() whose new table is not clear.
THEOREM KernelIsShared == Spec => []KernelShared
<1>1. Lost \/ VmInv => KernelShared
  BY DEF VmInv, TypeOK, Layout, KernelShared, Followed, Lost
<1> QED
  BY <1>1, VmSafe, PTL

\* The addresses at which vmm.c reaches a directory and its tables lead there,
\* in every address space, up to the first clone_directory() whose new table is
\* not clear.
THEOREM DirectoryIsMounted == Spec => []SelfMounted
<1>1. Lost \/ VmInv => SelfMounted
  BY DEF VmInv, TypeOK, Layout, SelfMounted, Followed, Lost
<1> QED
  BY <1>1, VmSafe, PTL

\* Two mount points are all that is ever taken, so that find_mount_point() never
\* panics, up to the first clone_directory() whose new table is not clear.
THEOREM MountPointIsLeft == Spec => []MountPointLeft
<1>1. Lost \/ VmInv => MountPointLeft
  BY MountsLeft DEF VmInv, MountPointLeft, Followed, Lost
<1> QED
  BY <1>1, VmSafe, PTL

-----------------------------------------------------------------------------
(* Isolation                                                               *)

\* No program has the table of the kernel's threads.
Unlinked ==
  \A d \in dirs \ {kernel_directory} :
    mem[d][USER] # 0 => mem[d][USER] # mem[kernel_directory][USER]

\* A step that leaves the entry for user pages alone in every directory.
LEMMA UnlinkedKept ==
  ASSUME Unlinked, kernel_directory \in dirs, dirs' \subseteq dirs,
         \A d \in dirs : mem'[d][USER] = mem[d][USER]
  PROVE  Unlinked'
BY DEF Unlinked

\* map() enters a table that no directory has.
LEMMA AllocateUnlinked ==
  ASSUME VmInv, Unlinked, NEW i \in {USER, KHEAP}, NEW j \in Entry, AllocatePage(i, j)
  PROVE  Unlinked'
<1> USE Constants
<1>0. /\ TypeOK /\ IsInjective(free) /\ Layout /\ kernel_directory \in dirs
      /\ dirs \subseteq Frame /\ Len(free) \in Nat
      /\ mem \in [Frame -> [Entry -> Frame \cup {0, Junk}]] /\ USER \in Entry
  BY Places DEF VmInv, TypeOK
<1>1. PICK kind \in [Frame -> Kind], up \in [Frame -> Frame], idx \in [Frame -> Entry] :
        Roles(kind, up, idx)
  BY DEF VmInv, Labelled
<1>2. PICK c \in dirs : c = current_directory
  BY <1>0 DEF TypeOK
<1>3. /\ kind[HeapTable] = "boot" /\ \A d \in dirs : d = kernel_directory \/ kind[d] = "dir"
      /\ \A d \in dirs : d # HeapTable /\ kind[d] # "free" /\ kind[d] # "user"
      /\ \A d \in dirs : mem[d][USER] # 0 => mem[d][USER] \in Frame /\ kind[mem[d][USER]] = "user"
      /\ \A x \in Frame : x \in ToSet(free) => kind[x] = "free"
  <2>1. \A x \in Frame : x \in ToSet(free) => kind[x] = "free"
    BY <1>1 DEF Roles, Kinds
  <2> QED
    BY <1>0, <1>1, <2>1, KindOf
<1>4. CASE UNCHANGED <<mem, dirs>>
  BY <1>0, <1>4, UnlinkedKept
<1>5. CASE HasTable(c, i) /\ Len(free) >= 1
  <2>1. PICK t : t = mem[c][i]
    OBVIOUS
  <2>2. t \in Frame /\ (t = HeapTable \/ kind[t] = "user")
    <3>1. CASE i = KHEAP
      BY <1>0, <2>1, <3>1 DEF Layout
    <3>2. CASE i = USER
      BY <1>3, <1>5, <2>1, <3>2 DEF HasTable
    <3> QED
      BY <3>1, <3>2
  <2>3. PICK f : f = Top(0)
    OBVIOUS
  <2>4. f \in Frame /\ f \in ToSet(free)
    BY <1>0, <1>5, <2>3, PoppedOne
  <2>5. MapOld(f, i, j) /\ dirs' = dirs
    BY <1>0, <1>2, <1>5, <2>3 DEF AllocatePage
  <2>6. mem' = [mem EXCEPT ![t][j] = f, ![f] = Data]
    BY <1>2, <2>1, <2>5 DEF MapOld
  <2>7. \A d \in dirs : d # t /\ d # f
    BY <1>3, <2>2, <2>4
  <2>8. \A d \in dirs : mem'[d] = mem[d]
    BY <1>0, <2>6, <2>7
  <2> QED
    BY <1>0, <2>5, <2>8, UnlinkedKept
<1>6. CASE ~HasTable(c, i) /\ Len(free) >= 2
  <2>1. i = USER
    BY <1>0, <1>6 DEF HasTable, Layout
  <2>2. PICK f : f = Top(0)
    OBVIOUS
  <2>3. PICK t : t = Top(1)
    OBVIOUS
  <2>4. f \in Frame /\ f \in ToSet(free) /\ t \in Frame /\ t \in ToSet(free) /\ f # t
    BY <1>0, <1>6, <2>2, <2>3, PoppedTwo
  <2>5. MapNew(f, t, USER, j) /\ dirs' = dirs
    BY <1>0, <1>2, <1>6, <2>1, <2>2, <2>3 DEF AllocatePage
  <2>6. mem' = [mem EXCEPT ![c][USER] = t, ![t] = [Zero EXCEPT ![j] = f], ![f] = Data]
    BY <1>2, <2>5 DEF MapNew
  <2>7. kind[t] = "free" /\ kind[f] = "free" /\ \A d \in dirs : d # t /\ d # f
    <3>1. kind[t] = "free" /\ kind[f] = "free"
      BY <1>3, <2>4
    <3> QED
      BY <1>3, <3>1
  <2>8. ASSUME NEW d \in dirs PROVE mem'[d][USER] = IF d = c THEN t ELSE mem[d][USER]
    <3>1. d \in Frame /\ c \in Frame /\ d # t /\ d # f
      BY <1>0, <2>7
    <3>2. mem'[d] = IF d = c THEN [mem[d] EXCEPT ![USER] = t] ELSE mem[d]
      BY <1>0, <2>4, <2>6, <3>1
    <3>3. mem[d] \in [Entry -> Frame \cup {0, Junk}]
      BY <1>0, <3>1
    <3> QED
      BY <1>0, <3>2, <3>3
  <2>9. ASSUME NEW d \in dirs PROVE mem[d][USER] # t
    <3>1. mem[d][USER] = 0 \/ kind[mem[d][USER]] = "user"
      BY <1>3
    <3> QED
      BY <2>4, <2>7, <3>1
  <2> SUFFICES ASSUME NEW d \in dirs \ {kernel_directory}, mem'[d][USER] # 0
               PROVE  mem'[d][USER] # mem'[kernel_directory][USER]
    BY <2>5 DEF Unlinked
  <2>10. mem[d][USER] # 0 => mem[d][USER] # mem[kernel_directory][USER]
    BY DEF Unlinked
  <2> QED
    BY <1>0, <2>8, <2>9, <2>10
<1> QED
  BY <1>0, <1>2, <1>4, <1>5, <1>6 DEF AllocatePage, panic

\* exec_elf() clones the kernel's directory while it has no user table.
LEMMA ExecElfUnlinked ==
  ASSUME ~AnyOrder, VmInv, Unlinked, ExecElf, fault' # "stale"
  PROVE  Unlinked'
<1> USE Constants
<1>0. /\ TypeOK /\ IsInjective(free) /\ Layout /\ kernel_directory \in dirs
      /\ dirs \subseteq Frame
  BY DEF VmInv, TypeOK
<1>1. PICK kind \in [Frame -> Kind], up \in [Frame -> Frame], idx \in [Frame -> Entry] :
        Roles(kind, up, idx)
  BY DEF VmInv, Labelled
<1>2. clone_directory /\ fault = "no" /\ mem[kernel_directory][USER] = 0
  BY DEF ExecElf, HasTable
<1>3. CASE fault' # fault
  <2>1. UNCHANGED <<mem, dirs>>
    BY <1>3 DEF ExecElf, clone_directory, panic
  <2> QED
    BY <1>0, <2>1, UnlinkedKept
<1>4. CASE fault' = fault
  <2>1. PICK f : f = Top(0)
    OBVIOUS
  <2>2. PICK t : t = Top(1)
    OBVIOUS
  <2>3. ClonesTo(f, t)
    BY <1>0, <1>1, <1>2, <1>4, <2>1, <2>2, Cloned
  <2>4. /\ f \in Frame /\ t \in Frame /\ f \in ToSet(free) /\ t \in ToSet(free)
        /\ \A x \in Frame : x # f /\ x # t => mem'[x] = mem[x]
        /\ mem'[f][USER] = mem[kernel_directory][USER]
        /\ dirs' = dirs \cup {f}
    BY <2>3 DEF ClonesTo
  <2>5. \A d \in dirs : d # f /\ d # t
    <3>1. \A d \in dirs : kind[d] # "free"
      BY <1>0, <1>1, KindOf
    <3>2. kind[f] = "free" /\ kind[t] = "free"
      BY <1>1, <2>4 DEF Roles, Kinds
    <3> QED
      BY <3>1, <3>2
  <2>6. \A d \in dirs : mem'[d] = mem[d]
    BY <1>0, <2>4, <2>5
  <2>7. mem'[f][USER] = 0
    BY <1>2, <2>4
  <2> QED
    BY <1>0, <2>4, <2>6, <2>7 DEF Unlinked
<1> QED
  BY <1>3, <1>4

\* No step links the kernel's user table to a program.
LEMMA UnlinkedStep ==
  ASSUME ~AnyOrder
  PROVE  VmInv /\ Unlinked /\ [Next]_vars => (Lost \/ Unlinked)'
<1> SUFFICES ASSUME VmInv, Unlinked, [Next]_vars, fault' # "stale" PROVE Unlinked'
  BY DEF Lost
<1>0. /\ kernel_directory \in dirs /\ TypeOK /\ Layout
      /\ dirs \subseteq Frame /\ mem \in [Frame -> [Entry -> Frame \cup {0, Junk}]]
  BY DEF VmInv, TypeOK
<1>1. CASE allocate_range
  BY <1>1, Constants, AllocateUnlinked DEF allocate_range
<1>2. CASE HeapGrow
  BY <1>2, Constants, AllocateUnlinked DEF HeapGrow
<1>3. CASE HeapShrink
  <2>1. mem[current_directory][KHEAP] = HeapTable
    BY <1>0 DEF TypeOK, Layout
  <2>2. PICK j : mem' = [mem EXCEPT ![HeapTable][j] = 0]
    BY <1>3, <2>1 DEF HeapShrink
  <2>3. \A d \in dirs : d # HeapTable
    BY KindOf DEF VmInv, Labelled
  <2>4. \A d \in dirs : mem'[d] = mem[d]
    BY <1>0, <2>2, <2>3
  <2>5. dirs' = dirs
    BY <1>3 DEF HeapShrink
  <2> QED
    BY <1>0, <2>4, <2>5, UnlinkedKept
<1>4. CASE ExecElf
  BY <1>4, ExecElfUnlinked
<1>5. CASE mem' = mem /\ dirs' \subseteq dirs
  BY <1>0, <1>5, UnlinkedKept
<1>6. ExecElfReturn \/ switch_page_directory \/ Halted \/ UNCHANGED vars
        => mem' = mem /\ dirs' \subseteq dirs
  BY DEF ExecElfReturn, switch_page_directory, Halted, vars
<1>7. \A d \in dirs : destroy_directory(d) => mem' = mem /\ dirs' \subseteq dirs
  BY DEF destroy_directory, panic
<1> QED
  BY <1>1, <1>2, <1>3, <1>4, <1>5, <1>6, <1>7 DEF Next

\* What belongs to one directory is reached from no other.
LEMMA Isolates == VmInv /\ Unlinked => Isolation
<1> SUFFICES ASSUME VmInv, Unlinked PROVE Isolation
  OBVIOUS
<1> USE Constants
<1>0. TypeOK /\ Layout /\ kernel_directory \in dirs /\ dirs \subseteq Frame
  BY DEF VmInv, TypeOK
<1>1. PICK kind \in [Frame -> Kind], up \in [Frame -> Frame], idx \in [Frame -> Entry] :
        Roles(kind, up, idx)
  BY DEF VmInv, Labelled
<1>2. \A d \in dirs : \A x : x \in Reach(d) <=> Reached(kind, up, d, x)
  BY <1>0, <1>1, ReachIs
<1>3. \A d \in dirs : mem[d][USER] # 0 =>
        mem[d][USER] \in Frame /\ kind[mem[d][USER]] = "user" /\ up[mem[d][USER]] = d
  BY <1>0, <1>1 DEF Unlinked, Roles, Children, Child
<1>4. \A d \in dirs : d = kernel_directory \/ kind[d] = "dir"
  BY <1>0, <1>1, KindOf
<1>5. ASSUME NEW d \in dirs \ {kernel_directory}, NEW x \in Private(d)
      PROVE  /\ x \in Frame
             /\ \/ x = d
                \/ kind[x] = "self" /\ up[x] = d
                \/ kind[x] = "user" /\ up[x] = d
                \/ kind[x] = "page" /\ up[up[x]] = d
  <2>0. x # 0
    BY <1>5 DEF Private
  <2>1. /\ mem[d][USER_DIR] \in Frame /\ kind[mem[d][USER_DIR]] = "self"
        /\ up[mem[d][USER_DIR]] = d
    BY <1>0, <1>1, KindOf
  <2>2. CASE x = d
    BY <1>0, <2>2
  <2>3. CASE x = mem[d][USER] \/ x = mem[d][USER_DIR]
    BY <1>3, <2>0, <2>1, <2>3
  <2>4. CASE \E j \in Entry : x = mem[mem[d][USER_DIR]][j]
    <3>1. x = d
      BY <1>0, <2>0, <2>4 DEF Layout
    <3> QED
      BY <1>0, <3>1
  <2>5. CASE mem[d][USER] # 0 /\ \E j \in Entry : x = mem[mem[d][USER]][j]
    <3>1. PICK t \in Frame : t = mem[d][USER] /\ kind[t] = "user" /\ up[t] = d
      BY <1>3, <2>5
    <3>2. PICK j \in Entry : x = mem[t][j]
      BY <2>5, <3>1
    <3>3. Child(kind, up, idx, t, j, "page")
      BY <1>1, <2>0, <3>1, <3>2 DEF Roles, Children
    <3> QED
      BY <3>1, <3>2, <3>3 DEF Child
  <2> QED
    BY <1>5, <2>2, <2>3, <2>4, <2>5 DEF Private
<1>6. ASSUME NEW d \in dirs \ {kernel_directory}, NEW e \in dirs \ {d},
             NEW x \in Private(d), x \in Reach(e)
      PROVE  FALSE
  <2>1. Reached(kind, up, e, x)
    BY <1>2, <1>6
  <2>2. /\ x \in Frame
        /\ \/ x = d
           \/ kind[x] = "self" /\ up[x] = d
           \/ kind[x] = "user" /\ up[x] = d
           \/ kind[x] = "page" /\ up[up[x]] = d
    BY <1>5
  <2>3. /\ kind[d] = "dir" /\ (e = kernel_directory \/ kind[e] = "dir") /\ kind[e] # "user"
        /\ kind[e] \in {"boot", "dir"}
    <3>1. kind[kernel_directory] = "boot"
      BY <1>0, <1>1, KindOf
    <3> QED
      BY <1>4, <3>1
  <2>4. mem[e][USER] # 0 =>
          mem[e][USER] \in Frame /\ kind[mem[e][USER]] = "user" /\ up[mem[e][USER]] = e
    BY <1>3
  <2>5. CASE x = d
    BY <2>1, <2>2, <2>3, <2>4, <2>5 DEF Reached
  <2>6. CASE kind[x] = "self" /\ up[x] = d
    BY <2>1, <2>2, <2>3, <2>4, <2>6 DEF Reached
  <2>7. CASE kind[x] = "user" /\ up[x] = d
    BY <2>1, <2>2, <2>3, <2>4, <2>7 DEF Reached
  <2>8. CASE kind[x] = "page" /\ up[up[x]] = d
    <3>1. up[x] = mem[e][USER] /\ up[x] \in Frame
      BY <2>1, <2>2, <2>3, <2>4, <2>8 DEF Reached
    <3> QED
      BY <2>4, <2>8, <3>1
  <2> QED
    BY <2>2, <2>5, <2>6, <2>7, <2>8
<1> QED
  BY <1>6 DEF Isolation

\* As long as programs are started before the kernel's threads have user pages,
\* as kmain does, no program reaches a page, a table or the directory of another
\* address space, the kernel's own included, up to the first clone_directory()
\* whose new table is not clear.
THEOREM SpacesAreIsolated ==
  ASSUME ~AnyOrder
  PROVE  Spec => []Isolation
<1>1. Init => Unlinked
  BY DEF Init, Unlinked
<1>2. VmInv /\ Unlinked /\ [Next]_vars => (Lost \/ (VmInv /\ Unlinked))'
  BY UnlinkedStep, VmStep
<1>3. Lost => Isolation
  BY DEF Isolation, Followed, Lost
<1> QED
  BY <1>1, <1>2, <1>3, VmInit, LostStays, Isolates, PTL DEF Spec

=============================================================================

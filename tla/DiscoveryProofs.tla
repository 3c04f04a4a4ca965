---------------------------- MODULE DiscoveryProofs ----------------------------
(***************************************************************************)
(* What the search for data files finds, for every tree of directories,    *)
(* bundles and files and whatever fails in it.                             *)
(*                                                                         *)
(* The invariant is about each frame of the call stack on its own: what    *)
(* the nodes it has gone through have come to.  The definitions below take *)
(* the kinds k and the lost nodes L as parameters, as only the place of a  *)
(* frame changes in a step, and little of what is said of it.              *)
(***************************************************************************)
EXTENDS Discovery, WellFoundedInduction, SequenceTheorems, TLAPS

Data(k, n) ==
  /\ k[n] \in Extensions \ {".zip"}
  /\ GetDriver(k[n]) # NoDriver \/ k[n] = ".gdb"

Left(k, L) == {n \in Tree : Data(k, n) /\ Prefixes(n) \cap L = {}}

(* What the call for node c returns if only c and what is below it counts. *)
Yield(k, L, c) ==
  {n \in Left(k, L) :
     /\ IsPrefix(c, n)
     /\ \A z \in Prefixes(n) :
          IsPrefix(c, z) /\ k[z] = ".zip" => \A o \in Left(k, L) \cap Below(z) : ~Before(o, n)}

ArchiveOf(k, z) == {o \in Below(z) : \A b \in Below(z) : k[b] = ".zip" => ~IsStrictPrefix(b, o)}

(* The nodes a frame goes through, and those it is through with. *)
Entries(k, f) ==
  IF f.fn = "caller" THEN {Root}
  ELSE IF f.fn = "unpack" THEN ArchiveOf(k, f.node)
  ELSE Children(f.node)

Done(k, f) == Entries(k, f) \ f.todo

FrameOK(k, f) ==
  /\ f.todo \subseteq Entries(k, f)
  /\ f.fn = "caller" => f.node = Root
  /\ f.fn = "list" => k[f.node] = "dir"
  /\ f.fn \in {"unpack", "bundle"} => k[f.node] = ".zip"
  /\ f.fn # "unpack" => \A c \in Done(k, f), d \in f.todo : Before(c, d)

InOrder(q) == \A i, j \in DOMAIN q : i < j => Before(q[i], q[j])

(* q covers n: it holds n or a file that is before it. *)
Covered(q, n) == \E o \in ToSet(q) : o = n \/ Before(o, n)

FoundOK(k, L, f) ==
  /\ f.fn = "unpack" => f.found = <<>>
  /\ f.fn # "unpack" =>
       /\ InOrder(f.found)
       /\ ToSet(f.found) = UNION {Yield(k, L, c) : c \in Done(k, f)}
       /\ \A c \in Done(k, f) : \A n \in Left(k, L) : IsPrefix(c, n) => Covered(f.found, n)

(* All bundles above what is in node are unpacked, the innermost one wholly. *)
Unpacked(k, T, D, node) ==
  LET bundles == {z \in Prefixes(node) : k[z] = ".zip"}
  IN /\ bundles \subseteq T
     /\ bundles # {} => \E z \in bundles : /\ \A b \in bundles : IsPrefix(b, z)
                                           /\ ArchiveOf(k, z) \subseteq D

Exists(k, T, D, n) ==
  \A z \in Prefixes(n) \ {n} : k[z] = ".zip" => z \in T /\ n \in D

DiskOK(k, T, D, f) ==
  /\ f.fn \in {"list", "bundle"} => Unpacked(k, T, D, f.node)
  /\ f.fn = "unpack" =>
       /\ \A z \in Prefixes(f.node) : k[z] = ".zip" => z \in T
       /\ Done(k, f) \subseteq D
  /\ \A n \in ToSet(f.found) : Exists(k, T, D, n)

Frames == [fn : {"caller", "list", "unpack", "bundle"}, node : Tree,
           todo : SUBSET Tree, found : Seq(Tree)]

(* How the frames of stack s hang together. *)
FramesOK(k, s) ==
  /\ s \in Seq(Frames) /\ s # <<>>
  /\ \A i \in DOMAIN s : FrameOK(k, s[i])
  /\ \A i \in DOMAIN s : s[i].fn = "caller" <=> i = 1
  /\ \A i \in DOMAIN s : s[i].fn = "unpack" => i = Len(s)
  /\ \A i, j \in DOMAIN s :
       i < j => s[i].todo # {} /\ IsPrefix(First(s[i].todo), s[j].node)
  /\ \A i \in DOMAIN s : i # 1 => s[i].node = First(s[i - 1].todo)

(* The search on stack s is through with node p. *)
Behind(k, s, p) ==
  \E i \in DOMAIN s : s[i].fn # "unpack" /\ \E c \in Done(k, s[i]) : IsPrefix(c, p)

AllFound(k, L, s) == \A i \in DOMAIN s : FoundOK(k, L, s[i])
AllOnDisk(k, T, D, s) == \A i \in DOMAIN s : DiskOK(k, T, D, s[i])

StackInv ==
  /\ FramesOK(kind, stack)
  /\ status # "running" => Len(stack) = 1
  /\ status = "listed" => stack[1].todo = {}

FoundInv ==
  status # "failed" => AllFound(kind, lost, stack) /\ \A p \in lost : Behind(kind, stack, p)

DiskInv == AllOnDisk(kind, temps, disk, stack)

SearchInv == TypeOK /\ StackInv /\ FoundInv /\ DiskInv /\ LossesHaveAReason
-----------------------------------------------------------------------------
(* Nodes *)

LEMMA LeastNat ==
  ASSUME NEW T, T \subseteq Nat, T # {}
  PROVE  \E k \in T : \A j \in T : k <= j
<1> DEFINE R == OpToRel(<, Nat)
<1>1. IsWellFoundedOn(R, Nat)
  BY NatLessThanWellFounded, Zenon
<1>2. \A j, k \in Nat : j < k => <<j, k>> \in R
  BY DEF OpToRel
<1> HIDE DEF R
<1>3. PICK k \in T : \A j \in T : <<j, k>> \notin R
  BY <1>1, WFMin
<1>4. ASSUME NEW j \in T PROVE ~(j < k)
  BY <1>2, <1>3, Zenon
<1>5. \A j \in T : j \in Nat /\ k \in Nat
  OBVIOUS
<1>6. QED
  BY <1>4, <1>5

LEMMA UpTo ==
  ASSUME NEW x \in Seq(Nat), NEW k \in 0..Len(x)
  PROVE  /\ SubSeq(x, 1, k) \in Seq(Nat) /\ Len(SubSeq(x, 1, k)) = k
         /\ \A i \in 1..k : SubSeq(x, 1, k)[i] = x[i]
OBVIOUS

LEMMA UpToSame ==
  ASSUME NEW x \in Seq(Nat), NEW y \in Seq(Nat), NEW k \in Nat, k <= Len(x), k <= Len(y)
  PROVE  SubSeq(x, 1, k) = SubSeq(y, 1, k) <=> \A i \in 1..k : x[i] = y[i]
<1> DEFINE s == SubSeq(x, 1, k)
           t == SubSeq(y, 1, k)
<1>1. /\ s \in Seq(Nat) /\ Len(s) = k /\ \A i \in 1..k : s[i] = x[i]
      /\ t \in Seq(Nat) /\ Len(t) = k /\ \A i \in 1..k : t[i] = y[i]
  BY UpTo
<1> HIDE DEF s, t
<1>2. s = t <=> \A i \in 1..k : x[i] = y[i]
  BY <1>1, SeqEqual
<1>3. QED
  BY <1>2 DEF s, t

LEMMA PrefixIs ==
  ASSUME NEW a \in Seq(Nat), NEW b \in Seq(Nat)
  PROVE  IsPrefix(a, b) <=> Len(a) <= Len(b) /\ \A i \in 1..Len(a) : a[i] = b[i]
<1>1. CASE Len(a) <= Len(b)
  <2>1. SubSeq(a, 1, Len(a)) = a
    OBVIOUS
  <2>2. Len(a) \in Nat /\ Len(a) <= Len(a)
    OBVIOUS
  <2>3. SubSeq(a, 1, Len(a)) = SubSeq(b, 1, Len(a)) <=> \A i \in 1..Len(a) : a[i] = b[i]
    BY <1>1, <2>2, UpToSame
  <2>4. QED
    BY <1>1, <2>1, <2>3 DEF IsPrefix
<1>2. QED
  BY <1>1 DEF IsPrefix

LEMMA PrefixesAre ==
  ASSUME NEW a \in Seq(Nat), NEW b \in Seq(Nat)
  PROVE  a \in Prefixes(b) <=> IsPrefix(a, b)
<1>1. ASSUME NEW l \in 0..Len(b), a = SubSeq(b, 1, l)
      PROVE  IsPrefix(a, b)
  <2>1. Len(a) = l /\ \A i \in 1..l : a[i] = b[i]
    BY <1>1, UpTo
  <2>2. QED
    BY <2>1, PrefixIs, SMTT(30)
<1>2. ASSUME IsPrefix(a, b)
      PROVE  Len(a) \in 0..Len(b) /\ a = SubSeq(b, 1, Len(a))
  <2>1. Len(a) <= Len(b) /\ \A i \in 1..Len(a) : a[i] = b[i]
    BY <1>2, PrefixIs
  <2>2. Len(a) \in 0..Len(b)
    BY <2>1
  <2> DEFINE t == SubSeq(b, 1, Len(a))
  <2>3. t \in Seq(Nat) /\ Len(t) = Len(a) /\ \A i \in 1..Len(a) : t[i] = b[i]
    BY <2>1
  <2>4. a = t
    <3> HIDE DEF t
    <3> QED
      BY <2>1, <2>3, SeqEqual
  <2>5. QED
    BY <2>2, <2>4
<1>3. QED
  BY <1>1, <1>2 DEF Prefixes

(* What the paths of nodes are like. *)
LEMMA PrefixOrder ==
  ASSUME NEW a \in Tree, NEW b \in Tree, NEW c \in Tree
  PROVE  /\ IsPrefix(a, a)
         /\ IsPrefix(a, b) /\ IsPrefix(b, a) => a = b
         /\ IsPrefix(a, b) /\ IsPrefix(b, c) => IsPrefix(a, c)
         /\ IsPrefix(a, c) /\ IsPrefix(b, c) => IsPrefix(a, b) \/ IsPrefix(b, a)
<1>1. a \in Seq(Nat) /\ b \in Seq(Nat) /\ c \in Seq(Nat)
  BY TreeAssumption
<1>2. IsPrefix(a, a)
  BY <1>1, PrefixIs
<1>3. IsPrefix(a, b) /\ IsPrefix(b, a) => a = b
  <2>1. IsPrefix(a, b) /\ IsPrefix(b, a) => Len(a) = Len(b) /\ \A i \in 1..Len(a) : a[i] = b[i]
    BY <1>1, PrefixIs
  <2>2. QED
    BY <1>1, <2>1, SeqEqual
<1>4. IsPrefix(a, b) /\ IsPrefix(b, c) => IsPrefix(a, c)
  BY <1>1, PrefixIs, SMTT(30)
<1>5. IsPrefix(a, c) /\ IsPrefix(b, c) => IsPrefix(a, b) \/ IsPrefix(b, a)
  BY <1>1, PrefixIs, SMTT(30)
<1>6. QED
  BY <1>2, <1>3, <1>4, <1>5

LEMMA PrefixNode ==
  ASSUME NEW n \in Tree
  PROVE  /\ \A p : p \in Prefixes(n) <=> p \in Tree /\ IsPrefix(p, n)
         /\ \A m : m \in Below(n) <=> m \in Tree /\ IsPrefix(n, m) /\ n # m
<1>1. Prefixes(n) \subseteq Tree /\ \A m \in Tree : m \in Seq(Nat)
  BY TreeAssumption
<1>2. QED
  BY <1>1, PrefixesAre DEF Below, IsStrictPrefix

LEMMA RootIsAbove ==
  ASSUME NEW n \in Tree
  PROVE  Root \in Tree /\ IsPrefix(Root, n)
<1>1. n \in Seq(Nat) /\ Root \in Tree /\ Root \in Seq(Nat)
  BY TreeAssumption
<1>2. Len(Root) = 0
  BY DEF Root
<1>3. Len(Root) <= Len(n) /\ \A i \in 1..Len(Root) : Root[i] = n[i]
  BY <1>1, <1>2
<1>4. QED
  BY <1>1, <1>3, PrefixIs

LEMMA ChildIs ==
  ASSUME NEW n \in Tree, NEW d \in Children(n)
  PROVE  /\ d \in Tree /\ IsPrefix(n, d) /\ d # n /\ Len(d) = Len(n) + 1
         /\ \A m \in Tree : IsPrefix(n, m) /\ IsPrefix(m, d) => m = n \/ m = d
         /\ \A c \in Children(n) : IsPrefix(c, d) => c = d
<1>1. d \in Tree /\ IsPrefix(n, d) /\ d # n /\ Len(d) = Len(n) + 1
  BY PrefixNode DEF Children
<1>2. \A m \in Tree : m \in Seq(Nat)
  BY TreeAssumption
<1>3. ASSUME NEW m \in Tree, IsPrefix(n, m), IsPrefix(m, d) PROVE m = n \/ m = d
  <2>1. Len(n) <= Len(m) /\ Len(m) <= Len(d) /\ Len(n) \in Nat /\ Len(m) \in Nat
    BY <1>1, <1>2, <1>3, PrefixIs
  <2>2. CASE Len(m) = Len(n)
    BY <1>1, <1>2, <1>3, <2>2, PrefixIs, SeqEqual
  <2>3. CASE Len(m) = Len(d)
    BY <1>1, <1>2, <1>3, <2>3, PrefixIs, SeqEqual
  <2>4. QED
    BY <1>1, <2>1, <2>2, <2>3
<1>4. ASSUME NEW c \in Children(n), IsPrefix(c, d) PROVE c = d
  <2>1. c \in Tree /\ Len(c) = Len(n) + 1
    BY PrefixNode DEF Children
  <2>2. QED
    BY <1>1, <1>2, <1>4, <2>1, PrefixIs, SeqEqual
<1>5. QED
  BY <1>1, <1>3, <1>4

(* Below n means at or below one of its children. *)
LEMMA ByChild ==
  ASSUME NEW n \in Tree, NEW m \in Below(n)
  PROVE  \E d \in Children(n) : IsPrefix(d, m)
<1> DEFINE d == SubSeq(m, 1, Len(n) + 1)
<1>1. m \in Tree /\ IsPrefix(n, m) /\ n # m /\ n \in Seq(Nat) /\ m \in Seq(Nat)
  BY PrefixNode, TreeAssumption
<1>2. Len(n) \in Nat /\ Len(m) \in Nat /\ Len(n) < Len(m) /\ \A i \in 1..Len(n) : n[i] = m[i]
  BY <1>1, PrefixIs, SeqEqual
<1>3. d \in Prefixes(m)
  BY <1>2 DEF Prefixes
<1>4. d \in Tree /\ IsPrefix(d, m)
  BY <1>1, <1>3, PrefixNode
<1>5. d \in Seq(Nat) /\ Len(d) = Len(n) + 1 /\ \A i \in 1..Len(n) : d[i] = m[i]
  BY <1>1, <1>2
<1> HIDE DEF d
<1>6. IsPrefix(n, d) /\ n # d
  BY <1>1, <1>2, <1>5, PrefixIs, SMTT(30)
<1>7. d \in Children(n)
  BY <1>4, <1>5, <1>6, PrefixNode DEF Children
<1>8. QED
  BY <1>4, <1>7

LEMMA BeforeOrder ==
  ASSUME NEW a \in Tree, NEW b \in Tree, NEW c \in Tree
  PROVE  /\ ~Before(a, a)
         /\ Before(a, b) /\ Before(b, c) => Before(a, c)
<1>1. \A n \in Tree : n \in Seq(Nat)
  BY TreeAssumption
<1> DEFINE Less(x, y, k) == /\ k \in DOMAIN x \cap DOMAIN y /\ x[k] < y[k]
                            /\ \A i \in 1..(k - 1) : x[i] = y[i]
<1>2. ASSUME NEW x \in Tree, NEW y \in Tree
      PROVE  Before(x, y) <=> (IsPrefix(x, y) /\ x # y) \/ \E k \in Nat : Less(x, y, k)
  <2>1. x \in Seq(Nat) /\ y \in Seq(Nat)
    BY <1>1
  <2>2. ASSUME NEW k \in DOMAIN x \cap DOMAIN y
        PROVE  SubSeq(x, 1, k - 1) = SubSeq(y, 1, k - 1) <=> \A i \in 1..(k - 1) : x[i] = y[i]
    <3>1. k - 1 \in Nat /\ k - 1 <= Len(x) /\ k - 1 <= Len(y)
      BY <2>1
    <3>2. QED
      BY <2>1, <3>1, UpToSame
  <2>3. \A k \in DOMAIN x : k \in Nat
    BY <2>1
  <2>4. QED
    BY <2>2, <2>3, Zenon DEF Before, IsStrictPrefix
<1>3. ~Before(a, a)
  <2>1. \A k \in DOMAIN a : a[k] \in Nat
    BY <1>1
  <2>2. QED
    BY <1>2, <2>1
<1>4. ASSUME Before(a, b), Before(b, c) PROVE Before(a, c)
  <2>1. a \in Seq(Nat) /\ b \in Seq(Nat) /\ c \in Seq(Nat)
    BY <1>1
  <2>2. CASE IsPrefix(a, b) /\ a # b /\ IsPrefix(b, c) /\ b # c
    BY <1>2, <2>2, PrefixOrder
  <2>3. ASSUME IsPrefix(a, b), a # b, NEW k \in Nat, Less(b, c, k) PROVE Before(a, c)
    <3>1. Len(a) \in Nat /\ Len(b) \in Nat /\ Len(a) <= Len(b) /\ \A i \in 1..Len(a) : a[i] = b[i]
      BY <2>1, <2>3, PrefixIs
    <3>2. CASE k <= Len(a)
      <4>1. Less(a, c, k)
        BY <2>1, <2>3, <3>1, <3>2
      <4>2. QED
        BY <1>2, <4>1
    <3>3. CASE k > Len(a)
      <4>1. k <= Len(c) /\ \A i \in 1..(k - 1) : b[i] = c[i]
        BY <2>1, <2>3
      <4>2. Len(c) \in Nat /\ Len(a) < Len(c) /\ \A i \in 1..Len(a) : a[i] = c[i]
        BY <2>1, <2>3, <3>1, <3>3, <4>1
      <4>3. IsPrefix(a, c) /\ a # c
        BY <2>1, <4>2, PrefixIs
      <4>4. QED
        BY <1>2, <4>3
    <3>4. QED
      BY <3>1, <3>2, <3>3
  <2>4. ASSUME NEW k \in Nat, Less(a, b, k), IsPrefix(b, c), b # c PROVE Before(a, c)
    <3>1. Less(a, c, k)
      BY <2>1, <2>4, PrefixIs, SMTT(30)
    <3>2. QED
      BY <1>2, <3>1
  <2>5. ASSUME NEW j \in Nat, NEW k \in Nat, Less(a, b, j), Less(b, c, k) PROVE Before(a, c)
    <3>1. CASE j <= k
      <4>1. j \in DOMAIN a /\ j \in DOMAIN b /\ j \in DOMAIN c
        BY <2>1, <2>5, <3>1
      <4>2. b[j] <= c[j] /\ a[j] < c[j]
        BY <2>1, <2>5, <3>1, <4>1, SMTT(30)
      <4>3. Less(a, c, j)
        BY <2>1, <2>5, <3>1, <4>1, <4>2
      <4>4. QED
        BY <1>2, <4>3
    <3>2. CASE k < j
      <4>1. Less(a, c, k)
        BY <2>1, <2>5, <3>2, SMTT(30)
      <4>2. QED
        BY <1>2, <4>1
    <3>3. QED
      BY <3>1, <3>2
  <2>6. QED
    BY <1>2, <1>4, <2>2, <2>3, <2>4, <2>5
<1>5. QED
  BY <1>3, <1>4

(* The order of two nodes that are not on one path is that of what is in them. *)
LEMMA BeforeBelow ==
  ASSUME NEW a \in Tree, NEW b \in Tree, Before(a, b), ~IsPrefix(a, b),
         NEW x \in Tree, NEW y \in Tree, IsPrefix(a, x), IsPrefix(b, y)
  PROVE  Before(x, y)
<1>1. a \in Seq(Nat) /\ b \in Seq(Nat) /\ x \in Seq(Nat) /\ y \in Seq(Nat)
  BY TreeAssumption
<1>2. PICK k \in DOMAIN a \cap DOMAIN b :
        a[k] < b[k] /\ SubSeq(a, 1, k - 1) = SubSeq(b, 1, k - 1)
  BY DEF Before, IsStrictPrefix
<1>3. /\ k \in Nat /\ 1 <= k /\ k <= Len(a) /\ k <= Len(b)
      /\ Len(a) <= Len(x) /\ Len(b) <= Len(y)
      /\ \A i \in 1..Len(a) : a[i] = x[i]
      /\ \A i \in 1..Len(b) : b[i] = y[i]
  <2>1. k \in 1..Len(a) /\ k \in 1..Len(b)
    BY <1>1
  <2>2. /\ Len(a) <= Len(x) /\ \A i \in 1..Len(a) : a[i] = x[i]
        /\ Len(b) <= Len(y) /\ \A i \in 1..Len(b) : b[i] = y[i]
    BY <1>1, PrefixIs
  <2>3. QED
    BY <1>1, <2>1, <2>2
<1>4. SubSeq(x, 1, k - 1) = SubSeq(y, 1, k - 1)
  <2>1. k - 1 \in Nat /\ k - 1 <= Len(a) /\ k - 1 <= Len(b) /\ k - 1 <= Len(x) /\ k - 1 <= Len(y)
    BY <1>1, <1>3, SMTT(30)
  <2>2. \A i \in 1..(k - 1) : a[i] = b[i]
    BY <1>1, <1>2, <2>1, UpToSame
  <2>3. \A i \in 1..(k - 1) : x[i] = y[i]
    <3>1. Len(a) \in Nat /\ Len(b) \in Nat
      BY <1>1
    <3>2. \A i \in 1..(k - 1) : i \in 1..Len(a) /\ i \in 1..Len(b)
      BY <1>3, <3>1
    <3>3. QED
      BY <1>3, <2>2, <3>2
  <2>4. QED
    BY <1>1, <2>1, <2>3, UpToSame
<1>5. k \in DOMAIN x /\ k \in DOMAIN y
  BY <1>1, <1>3, SMTT(30)
<1>6. x[k] = a[k] /\ y[k] = b[k]
  BY <1>1, <1>3, SMTT(30)
<1>7. QED
  BY <1>2, <1>4, <1>5, <1>6 DEF Before

(* First picks the first of some siblings. *)
LEMMA FirstOf ==
  ASSUME NEW n \in Tree, NEW S, S \subseteq Children(n), S # {}
  PROVE  First(S) \in S /\ \A o \in S \ {First(S)} : Before(First(S), o)
<1> DEFINE l == Len(n) + 1
           T == {c[l] : c \in S}
<1>1. \A c \in S : c \in Tree /\ c \in Seq(Nat) /\ Len(c) = l /\ IsPrefix(n, c)
  BY ChildIs, TreeAssumption
<1>2. n \in Seq(Nat) /\ l \in Nat /\ l >= 1
  BY TreeAssumption
<1> HIDE DEF l
<1>3. T \subseteq Nat /\ T # {}
  BY <1>1, <1>2
<1>4. PICK least \in T : \A t \in T : least <= t
  BY <1>3, LeastNat
<1>5. PICK c \in S : c[l] = least
  BY <1>4
<1>6. ASSUME NEW o \in S, o # c PROVE Before(c, o)
  <2>1. c[l] <= o[l] /\ c[l] \in Nat /\ o[l] \in Nat
    BY <1>1, <1>2, <1>4, <1>5
  <2>2. \A i \in 1..(l - 1) : c[i] = o[i]
    BY <1>1, <1>2, PrefixIs DEF l
  <2>3. c[l] < o[l]
    BY <1>1, <1>2, <1>6, <2>1, <2>2, SeqEqual
  <2>4. SubSeq(c, 1, l - 1) = SubSeq(o, 1, l - 1)
    <3>1. l - 1 \in Nat /\ l - 1 <= Len(c) /\ l - 1 <= Len(o)
      BY <1>1, <1>2
    <3>2. QED
      BY <1>1, <2>2, <3>1, UpToSame
  <2>5. l \in DOMAIN c \cap DOMAIN o
    BY <1>1, <1>2
  <2>6. QED
    BY <2>3, <2>4, <2>5 DEF Before
<1>7. \E m \in S : \A o \in S \ {m} : Before(m, o)
  BY <1>6
<1>8. QED
  BY <1>7 DEF First
-----------------------------------------------------------------------------
(* Frames *)

LEMMA Siblings ==
  ASSUME NEW n \in Tree, NEW c \in Children(n), NEW d \in Children(n), NEW x \in Tree,
         IsPrefix(c, x), IsPrefix(d, x)
  PROVE  c = d
<1>1. c \in Tree /\ d \in Tree
  BY ChildIs
<1>2. IsPrefix(c, d) \/ IsPrefix(d, c)
  BY <1>1, PrefixOrder
<1>3. QED
  BY <1>2, ChildIs

LEMMA EntryIs ==
  ASSUME NEW k, NEW f \in Frames, f.fn # "unpack", f.fn = "caller" => f.node = Root,
         NEW c \in Entries(k, f)
  PROVE  /\ c \in Tree /\ IsPrefix(f.node, c)
         /\ \A d \in Entries(k, f), x \in Tree : IsPrefix(c, x) /\ IsPrefix(d, x) => c = d
<1>1. f.node \in Tree
  BY DEF Frames
<1>2. CASE f.fn = "caller"
  BY <1>1, <1>2, RootIsAbove DEF Entries
<1>3. CASE f.fn # "caller"
  BY <1>1, <1>3, ChildIs, Siblings DEF Entries
<1>4. QED
  BY <1>2, <1>3

LEMMA NextEntry ==
  ASSUME NEW k, NEW f \in Frames, f.fn # "unpack", FrameOK(k, f), f.todo # {}
  PROVE  LET e == First(f.todo)
         IN /\ e \in f.todo /\ e \in Entries(k, f) /\ e \in Tree /\ IsPrefix(f.node, e)
            /\ \A o \in f.todo \ {e} : Before(e, o)
            /\ \A c \in Done(k, f) : Before(c, e) /\ c \in Tree
            /\ \A c \in Done(k, f), x \in Tree : ~(IsPrefix(c, x) /\ IsPrefix(e, x))
<1> DEFINE e == First(f.todo)
<1>1. f.todo \subseteq Entries(k, f) /\ f.node \in Tree /\ (f.fn = "caller" => f.node = Root)
  BY DEF FrameOK, Frames
<1>2. e \in f.todo /\ \A o \in f.todo \ {e} : Before(e, o)
  <2>1. CASE f.fn = "caller"
    <3>1. f.todo = {Root}
      BY <1>1, <2>1 DEF Entries
    <3>2. First({Root}) = Root
      BY DEF First
    <3>3. QED
      BY <3>1, <3>2
  <2>2. CASE f.fn # "caller"
    BY <1>1, <2>2, FirstOf DEF Entries
  <2>3. QED
    BY <2>1, <2>2
<1> HIDE DEF e
<1>3. e \in Entries(k, f)
  BY <1>1, <1>2
<1>4. e \in Tree /\ IsPrefix(f.node, e)
  BY <1>1, <1>3, EntryIs
<1>5. ASSUME NEW c \in Done(k, f)
      PROVE  /\ Before(c, e) /\ c \in Tree
             /\ \A x \in Tree : ~(IsPrefix(c, x) /\ IsPrefix(e, x))
  <2>1. c \in Entries(k, f) /\ c # e
    BY <1>2 DEF Done
  <2>2. QED
    BY <1>1, <1>2, <1>3, <2>1, EntryIs DEF FrameOK
<1>6. QED
  BY <1>2, <1>3, <1>4, <1>5 DEF e

(* Losing node e costs what is at or below it. *)
LEMMA LeftWithout ==
  ASSUME NEW k, NEW L, NEW e \in Tree
  PROVE  Left(k, L \cup {e}) = {n \in Left(k, L) : ~IsPrefix(e, n)}
BY PrefixNode DEF Left

(* The result for a node depends on what is at or below it only. *)
LEMMA YieldSame ==
  ASSUME NEW k, NEW L, NEW M, NEW c \in Tree,
         \A n \in Tree : IsPrefix(c, n) => (n \in Left(k, L) <=> n \in Left(k, M))
  PROVE  Yield(k, L, c) = Yield(k, M, c)
<1>1. ASSUME NEW z \in Tree, IsPrefix(c, z)
      PROVE  Left(k, L) \cap Below(z) = Left(k, M) \cap Below(z)
  <2>1. \A o \in Below(z) : o \in Tree /\ IsPrefix(c, o)
    BY <1>1, PrefixNode, PrefixOrder
  <2>2. QED
    BY <2>1
<1>2. \A n \in Left(k, L) \cup Left(k, M) : n \in Tree /\ Prefixes(n) \subseteq Tree
  BY PrefixNode DEF Left
<1>3. QED
  BY <1>1, <1>2 DEF Yield

LEMMA YieldIs ==
  ASSUME NEW k, NEW L, NEW c \in Tree, NEW n \in Yield(k, L, c)
  PROVE  n \in Left(k, L) /\ n \in Tree /\ IsPrefix(c, n) /\ Data(k, n)
BY DEF Yield, Left

(* What a frame has found stays right when a node is lost that the frame is *)
(* not through with.                                                        *)
LEMMA LossAhead ==
  ASSUME NEW k, NEW L, NEW f \in Frames, FrameOK(k, f), FoundOK(k, L, f),
         NEW e \in Tree, f.todo # {}, f.fn # "unpack" => IsPrefix(First(f.todo), e)
  PROVE  FoundOK(k, L \cup {e}, f)
<1>1. CASE f.fn = "unpack"
  BY <1>1 DEF FoundOK
<1>2. CASE f.fn # "unpack"
  <2> DEFINE d == First(f.todo)
  <2>1. /\ d \in Tree
        /\ \A c \in Done(k, f) : c \in Tree
        /\ \A c \in Done(k, f), x \in Tree : ~(IsPrefix(c, x) /\ IsPrefix(d, x))
    BY <1>2, NextEntry
  <2>2. ASSUME NEW c \in Done(k, f), NEW n \in Tree, IsPrefix(c, n)
        PROVE  n \in Left(k, L) <=> n \in Left(k, L \cup {e})
    <3>1. ~IsPrefix(e, n)
      BY <1>2, <2>1, <2>2, PrefixOrder
    <3>2. QED
      BY <3>1, LeftWithout
  <2>3. \A c \in Done(k, f) : Yield(k, L, c) = Yield(k, L \cup {e}, c)
    BY <2>1, <2>2, YieldSame
  <2>4. \A n \in Left(k, L \cup {e}) : n \in Left(k, L)
    BY LeftWithout
  <2>5. QED
    BY <1>2, <2>3, <2>4 DEF FoundOK
<1>3. QED
  BY <1>1, <1>2

LEMMA ConcatRange ==
  ASSUME NEW q \in Seq(Tree), NEW r \in Seq(Tree)
  PROVE  ToSet(q \o r) = ToSet(q) \cup ToSet(r)
<1> DEFINE s == q \o r
<1>1. \A i \in 1..(Len(q) + Len(r)) : s[i] = IF i <= Len(q) THEN q[i] ELSE r[i - Len(q)]
  OBVIOUS
<1>2. /\ DOMAIN s = 1..(Len(q) + Len(r)) /\ Len(q) \in Nat /\ Len(r) \in Nat
      /\ DOMAIN q = 1..Len(q) /\ DOMAIN r = 1..Len(r)
  OBVIOUS
<1> HIDE DEF s
<1>3. \A i \in DOMAIN q : i \in DOMAIN s /\ s[i] = q[i]
  BY <1>1, <1>2
<1>4. \A i \in DOMAIN r : Len(q) + i \in DOMAIN s /\ s[Len(q) + i] = r[i]
  BY <1>1, <1>2
<1>5. \A i \in DOMAIN s :
        \/ i \in DOMAIN q /\ s[i] = q[i]
        \/ i - Len(q) \in DOMAIN r /\ s[i] = r[i - Len(q)]
  BY <1>1, <1>2
<1>6. ToSet(s) = ToSet(q) \cup ToSet(r)
  BY <1>3, <1>4, <1>5 DEF ToSet
<1>7. QED
  BY <1>6 DEF s

LEMMA InOrderAppend ==
  ASSUME NEW q \in Seq(Tree), NEW r \in Seq(Tree), InOrder(q), InOrder(r),
         \A a \in ToSet(q), b \in ToSet(r) : Before(a, b)
  PROVE  /\ InOrder(q \o r) /\ q \o r \in Seq(Tree)
         /\ ToSet(q \o r) = ToSet(q) \cup ToSet(r)
<1> DEFINE s == q \o r
<1>1. /\ s \in Seq(Tree) /\ Len(s) = Len(q) + Len(r) /\ Len(q) \in Nat /\ Len(r) \in Nat
      /\ \A i \in 1..Len(q) : s[i] = q[i]
      /\ \A i \in 1..Len(r) : s[Len(q) + i] = r[i]
  OBVIOUS
<1>2. DOMAIN s = 1..Len(s) /\ DOMAIN q = 1..Len(q) /\ DOMAIN r = 1..Len(r)
  BY <1>1
<1> HIDE DEF s
<1>3. \A i \in DOMAIN s :
        \/ i \in DOMAIN q /\ s[i] = q[i]
        \/ i - Len(q) \in DOMAIN r /\ i > Len(q) /\ s[i] = r[i - Len(q)]
  BY <1>1, <1>2
<1>4. ToSet(s) = ToSet(q) \cup ToSet(r)
  BY ConcatRange DEF s
<1>5. ASSUME NEW i \in DOMAIN s, NEW j \in DOMAIN s, i < j PROVE Before(s[i], s[j])
  <2>1. CASE i \in DOMAIN q /\ s[i] = q[i] /\ j \in DOMAIN q /\ s[j] = q[j]
    BY <1>5, <2>1 DEF InOrder
  <2>2. CASE i \in DOMAIN q /\ s[i] = q[i] /\ j - Len(q) \in DOMAIN r /\ s[j] = r[j - Len(q)]
    BY <2>2 DEF ToSet
  <2>3. CASE /\ i - Len(q) \in DOMAIN r /\ s[i] = r[i - Len(q)]
             /\ j - Len(q) \in DOMAIN r /\ s[j] = r[j - Len(q)]
    <3>1. i \in Nat /\ j \in Nat /\ Len(q) \in Nat
      BY <1>1, <1>2
    <3>2. i - Len(q) < j - Len(q)
      BY <1>5, <3>1
    <3>3. QED
      BY <2>3, <3>2 DEF InOrder
  <2>4. ~(i > Len(q) /\ j \in DOMAIN q)
    BY <1>1, <1>2, <1>5
  <2>5. QED
    BY <1>3, <1>5, <2>1, <2>2, <2>3, <2>4
<1>6. QED
  BY <1>1, <1>4, <1>5 DEF InOrder, s

(* files is the right result of the call for node c. *)
RightFor(k, L, c, files) ==
  /\ files \in Seq(Tree) /\ InOrder(files)
  /\ ToSet(files) = Yield(k, L, c)
  /\ \A n \in Left(k, L) : IsPrefix(c, n) => Covered(files, n)

(* Frame f with the result for the node it was at. *)
Onward(f, files) == [f EXCEPT !.todo = @ \ {First(@)}, !.found = @ \o files]

LEMMA FrameAnswered ==
  ASSUME NEW k, NEW L, NEW f \in Frames, f.fn # "unpack", f.todo # {},
         FrameOK(k, f), FoundOK(k, L, f),
         NEW files, RightFor(k, L, First(f.todo), files)
  PROVE  /\ Onward(f, files) \in Frames /\ FrameOK(k, Onward(f, files))
         /\ FoundOK(k, L, Onward(f, files))
         /\ Done(k, Onward(f, files)) = Done(k, f) \cup {First(f.todo)}
         /\ Onward(f, files).fn = f.fn /\ Onward(f, files).node = f.node
         /\ Onward(f, files).found = f.found \o files
<1> DEFINE e == First(f.todo)
           g == Onward(f, files)
<1>1. /\ e \in f.todo /\ e \in Entries(k, f) /\ e \in Tree
      /\ \A o \in f.todo \ {e} : Before(e, o)
      /\ \A c \in Done(k, f) : Before(c, e) /\ c \in Tree
      /\ \A c \in Done(k, f), x \in Tree : ~(IsPrefix(c, x) /\ IsPrefix(e, x))
  BY NextEntry
<1>2. RightFor(k, L, e, files)
  OBVIOUS
<1> HIDE DEF e
<1>3. /\ f.fn \in {"caller", "list", "unpack", "bundle"} /\ f.node \in Tree
      /\ f.todo \subseteq Tree /\ f.found \in Seq(Tree)
  BY DEF Frames
<1>4. g.fn = f.fn /\ g.node = f.node /\ g.todo = f.todo \ {e} /\ g.found = f.found \o files
  BY DEF Frames, Onward, e
<1>5. /\ InOrder(f.found) /\ ToSet(f.found) = UNION {Yield(k, L, c) : c \in Done(k, f)}
      /\ \A c \in Done(k, f) : \A n \in Left(k, L) : IsPrefix(c, n) => Covered(f.found, n)
  BY DEF FoundOK
<1>6. \A a \in ToSet(f.found), b \in ToSet(files) : Before(a, b)
  <2> SUFFICES ASSUME NEW a \in ToSet(f.found), NEW b \in ToSet(files) PROVE Before(a, b)
    OBVIOUS
  <2>1. PICK c \in Done(k, f) : a \in Yield(k, L, c)
    BY <1>5
  <2>2. b \in Yield(k, L, e)
    BY <1>2 DEF RightFor
  <2>3. a \in Tree /\ IsPrefix(c, a) /\ b \in Tree /\ IsPrefix(e, b)
    BY <1>1, <2>1, <2>2, YieldIs
  <2>4. ~IsPrefix(c, e)
    BY <1>1, PrefixOrder
  <2>5. QED
    BY <1>1, <2>3, <2>4, BeforeBelow
<1>7. /\ InOrder(f.found \o files) /\ f.found \o files \in Seq(Tree)
      /\ ToSet(f.found \o files) = ToSet(f.found) \cup ToSet(files)
  BY <1>2, <1>3, <1>5, <1>6, InOrderAppend DEF RightFor
<1>8. g \in Frames
  BY <1>3, <1>7 DEF Frames, Onward
<1> HIDE DEF g
<1>9. Entries(k, g) = Entries(k, f)
  BY <1>4 DEF Entries
<1>10. Done(k, g) = Done(k, f) \cup {e}
  BY <1>1, <1>4, <1>9 DEF Done
<1>11. FrameOK(k, g)
  BY <1>1, <1>4, <1>9, <1>10 DEF FrameOK
<1>12. FoundOK(k, L, g)
  <2>1. ToSet(g.found) = UNION {Yield(k, L, c) : c \in Done(k, g)}
    BY <1>2, <1>4, <1>5, <1>7, <1>10 DEF RightFor
  <2>2. ASSUME NEW c \in Done(k, g), NEW n \in Left(k, L), IsPrefix(c, n)
        PROVE  Covered(g.found, n)
    <3>1. Covered(f.found, n) \/ Covered(files, n)
      BY <1>2, <1>5, <1>10, <2>2 DEF RightFor
    <3>2. QED
      BY <1>4, <1>7, <3>1 DEF Covered
  <2>3. QED
    BY <1>4, <1>7, <2>1, <2>2 DEF FoundOK
<1>13. QED
  BY <1>4, <1>8, <1>10, <1>11, <1>12 DEF e, g

LEMMA DiskStays ==
  ASSUME NEW k, NEW T, NEW D, NEW T2, NEW D2, T \subseteq T2, D \subseteq D2,
         NEW f, DiskOK(k, T, D, f)
  PROVE  DiskOK(k, T2, D2, f)
<1>1. Unpacked(k, T, D, f.node) => Unpacked(k, T2, D2, f.node)
  BY Zenon DEF Unpacked
<1>2. \A n : Exists(k, T, D, n) => Exists(k, T2, D2, n)
  BY DEF Exists
<1>3. QED
  BY <1>1, <1>2 DEF DiskOK
-----------------------------------------------------------------------------
(* The stack *)

LEMMA LastIs ==
  ASSUME NEW k, NEW s, FramesOK(k, s)
  PROVE  /\ Len(s) \in Nat /\ Len(s) >= 1 /\ DOMAIN s = 1..Len(s)
         /\ Last(s) = s[Len(s)] /\ Last(s) \in Frames /\ FrameOK(k, Last(s))
         /\ \A i \in DOMAIN s : s[i] \in Frames
<1>1. s \in Seq(Frames) /\ s # <<>>
  BY DEF FramesOK
<1>2. Len(s) \in Nat /\ Len(s) >= 1 /\ DOMAIN s = 1..Len(s) /\ \A i \in DOMAIN s : s[i] \in Frames
  BY <1>1
<1>3. QED
  BY <1>2 DEF FramesOK, Last

LEMMA LastReplaced ==
  ASSUME NEW S, NEW s \in Seq(S), s # <<>>, NEW g \in S, NEW t, t = [s EXCEPT ![Len(s)] = g]
  PROVE  /\ t \in Seq(S) /\ DOMAIN t = DOMAIN s /\ Len(t) = Len(s)
         /\ t[Len(s)] = g /\ \A i \in DOMAIN s : i # Len(s) => t[i] = s[i]
<1>1. Len(s) \in 1..Len(s) /\ DOMAIN s = 1..Len(s)
  OBVIOUS
<1>2. /\ t \in Seq(S) /\ Len(t) = Len(s)
      /\ \A j \in 1..Len(s) : t[j] = IF j = Len(s) THEN g ELSE s[j]
  BY <1>1, ExceptSeq
<1>3. DOMAIN t = 1..Len(s)
  BY <1>2
<1>4. QED
  BY <1>1, <1>2, <1>3

(* Stack s when its last frame has had an answer. *)
Answered(s, files) == [s EXCEPT ![Len(s)] = Onward(@, files)]

(* With its last frame at node e, stack s can have an answer that may lose e. *)
CanAnswer(k, L, M, T, D, s, files) ==
  LET e == First(Last(s).todo)
  IN /\ FramesOK(k, s) /\ AllFound(k, L, s) /\ AllOnDisk(k, T, D, s)
     /\ Last(s).fn # "unpack" /\ Last(s).todo # {}
     /\ M = L \/ M = L \cup {e}
     /\ \A p \in L : Behind(k, s, p) \/ IsPrefix(e, p)
     /\ RightFor(k, M, e, files) /\ \A n \in ToSet(files) : Exists(k, T, D, n)

LEMMA StackAnswered ==
  ASSUME NEW k, NEW L, NEW M, NEW T, NEW D, NEW s, NEW files, CanAnswer(k, L, M, T, D, s, files)
  PROVE  LET t == Answered(s, files)
         IN /\ FramesOK(k, t) /\ AllFound(k, M, t) /\ AllOnDisk(k, T, D, t)
            /\ Len(t) = Len(s) /\ \A p \in M : Behind(k, t, p)
<1> DEFINE e == First(Last(s).todo)
           s2 == Answered(s, files)
<1>0. /\ FramesOK(k, s) /\ AllFound(k, L, s) /\ AllOnDisk(k, T, D, s)
      /\ Last(s).fn # "unpack" /\ Last(s).todo # {} /\ e = First(Last(s).todo)
      /\ M = L \/ M = L \cup {e}
      /\ \A p \in L : Behind(k, s, p) \/ IsPrefix(e, p)
      /\ RightFor(k, M, e, files) /\ \A n \in ToSet(files) : Exists(k, T, D, n)
      /\ s2 = Answered(s, files)
  BY DEF CanAnswer
<1> HIDE DEF e, s2
<1> DEFINE f == s[Len(s)]
           g == Onward(f, files)
<1>1. /\ Len(s) \in Nat /\ Len(s) >= 1 /\ DOMAIN s = 1..Len(s)
      /\ Last(s) = f /\ f \in Frames /\ FrameOK(k, f)
      /\ \A i \in DOMAIN s : s[i] \in Frames
  BY <1>0, LastIs
<1>2. s \in Seq(Frames) /\ \A i \in DOMAIN s : FrameOK(k, s[i])
  BY <1>0 DEF FramesOK
<1>3. \A i, j \in DOMAIN s :
        i < j => s[i].todo # {} /\ IsPrefix(First(s[i].todo), s[j].node) /\ s[i].fn # "unpack"
  BY <1>0, <1>1 DEF FramesOK
<1>4. e \in Tree /\ IsPrefix(f.node, e) /\ f.node \in Tree
  BY <1>0, <1>1, NextEntry DEF Frames
<1>5. ASSUME NEW i \in DOMAIN s PROVE FoundOK(k, M, s[i])
  <2>1. CASE M = L
    BY <1>0, <2>1 DEF AllFound
  <2>2. CASE M = L \cup {e}
    <3>1. CASE i = Len(s)
      BY <1>0, <1>1, <1>2, <1>4, <2>2, <3>1, PrefixOrder, LossAhead DEF AllFound
    <3>2. CASE i # Len(s)
      <4>1. /\ s[i].todo # {} /\ IsPrefix(First(s[i].todo), f.node)
            /\ s[i].fn # "unpack" /\ s[i] \in Frames
        BY <1>0, <1>1, <1>3, <3>2
      <4>2. First(s[i].todo) \in Tree
        BY <1>0, <1>2, <4>1, NextEntry
      <4>3. IsPrefix(First(s[i].todo), e)
        BY <1>0, <1>4, <4>1, <4>2, PrefixOrder
      <4>4. QED
        BY <1>0, <1>2, <1>4, <2>2, <4>1, <4>3, LossAhead DEF AllFound
    <3>3. QED
      BY <1>0, <3>1, <3>2
  <2>3. QED
    BY <1>0, <2>1, <2>2
<1>6. /\ g \in Frames /\ FrameOK(k, g) /\ FoundOK(k, M, g) /\ Done(k, g) = Done(k, f) \cup {e}
      /\ g.fn = f.fn /\ g.node = f.node /\ g.found = f.found \o files
  <2>1. f.fn # "unpack" /\ f.todo # {} /\ e = First(f.todo) /\ RightFor(k, M, First(f.todo), files)
    BY <1>0, <1>1
  <2>2. FoundOK(k, M, f) /\ f \in Frames /\ FrameOK(k, f)
    BY <1>0, <1>1, <1>5
  <2> HIDE DEF f
  <2>3. QED
    BY <1>0, <2>1, <2>2, FrameAnswered
<1>7. s2 = [s EXCEPT ![Len(s)] = g]
  BY <1>0, <1>1, <1>2 DEF Answered
<1> HIDE DEF g
<1>8. s # <<>> /\ g \in Frames
  BY <1>0, <1>6 DEF FramesOK
<1>9. /\ s2 \in Seq(Frames) /\ DOMAIN s2 = DOMAIN s /\ Len(s2) = Len(s)
      /\ s2[Len(s)] = g /\ \A i \in DOMAIN s : i # Len(s) => s2[i] = s[i]
  BY <1>0, <1>2, <1>7, <1>8, LastReplaced
<1>10. \A i \in DOMAIN s : s2[i].fn = s[i].fn /\ s2[i].node = s[i].node
  BY <1>0, <1>1, <1>6, <1>9
<1>11. \A i \in DOMAIN s : s[i].fn = "caller" <=> i = 1
  BY <1>0 DEF FramesOK
<1>12. \A i \in DOMAIN s : s[i].fn = "unpack" => i = Len(s)
  BY <1>0 DEF FramesOK
<1>13. \A i \in DOMAIN s : i # 1 => s[i].node = First(s[i - 1].todo) /\ i - 1 \in DOMAIN s /\ i - 1 # Len(s)
  BY <1>0, <1>1 DEF FramesOK
<1>14. FramesOK(k, s2)
  <2>1. s2 # <<>>
    BY <1>0, <1>1, <1>9
  <2>2. \A i \in DOMAIN s2 : FrameOK(k, s2[i])
    BY <1>0, <1>1, <1>2, <1>6, <1>9
  <2>3. ASSUME NEW i \in DOMAIN s2, NEW j \in DOMAIN s2, i < j
        PROVE  s2[i].todo # {} /\ IsPrefix(First(s2[i].todo), s2[j].node)
    <3>1. i # Len(s)
      BY <1>0, <1>1, <1>9, <2>3
    <3>2. s2[i] = s[i]
      BY <1>0, <1>9, <2>3, <3>1
    <3>3. QED
      BY <1>0, <1>3, <1>9, <1>10, <2>3, <3>2
  <2>4. ASSUME NEW i \in DOMAIN s2, i # 1 PROVE s2[i].node = First(s2[i - 1].todo)
    BY <1>0, <1>9, <1>10, <1>13, <2>4
  <2>5. QED
    BY <1>0, <1>9, <1>10, <1>11, <1>12, <2>1, <2>2, <2>3, <2>4 DEF FramesOK
<1>15. AllFound(k, M, s2)
  BY <1>0, <1>5, <1>6, <1>9 DEF AllFound
<1>16. AllOnDisk(k, T, D, s2)
  <2>1. \A i \in DOMAIN s : DiskOK(k, T, D, s[i])
    BY <1>0 DEF AllOnDisk
  <2>2. DiskOK(k, T, D, f)
    BY <1>0, <1>1, <2>1
  <2>3. ToSet(g.found) = ToSet(f.found) \cup ToSet(files)
    <3>1. f.found \in Seq(Tree) /\ files \in Seq(Tree)
      BY <1>0, <1>1 DEF Frames, RightFor
    <3>2. QED
      BY <1>0, <1>6, <3>1, ConcatRange
  <2>4. DiskOK(k, T, D, g)
    BY <1>0, <1>1, <1>6, <2>2, <2>3 DEF DiskOK
  <2>5. QED
    BY <1>0, <1>9, <2>1, <2>4 DEF AllOnDisk
<1>17. ASSUME NEW p \in M PROVE Behind(k, s2, p)
  <2>1. Len(s) \in DOMAIN s2 /\ s2[Len(s)].fn # "unpack" /\ e \in Done(k, s2[Len(s)])
    BY <1>0, <1>1, <1>6, <1>9
  <2>2. CASE p = e
    BY <1>0, <1>4, <2>1, <2>2, PrefixOrder DEF Behind
  <2>3. CASE p \in L /\ IsPrefix(e, p)
    BY <1>0, <2>1, <2>3 DEF Behind
  <2>4. CASE Behind(k, s, p)
    <3>1. PICK i \in DOMAIN s : s[i].fn # "unpack" /\ \E c \in Done(k, s[i]) : IsPrefix(c, p)
      BY <1>0, <2>4 DEF Behind
    <3>2. Done(k, s[i]) \subseteq Done(k, s2[i])
      BY <1>0, <1>6, <1>9, <3>1
    <3>3. QED
      BY <1>0, <1>9, <1>10, <3>1, <3>2 DEF Behind
  <2>5. QED
    BY <1>0, <1>17, <2>2, <2>3, <2>4
<1>18. QED
  BY <1>9, <1>14, <1>15, <1>16, <1>17 DEF s2

LEMMA AnswerIs ==
  ASSUME NEW s \in Seq(Frames), s # <<>>, NEW files,
         stack' = [s EXCEPT ![Len(s)].todo = @ \ {First(@)}, ![Len(s)].found = @ \o files]
  PROVE  stack' = Answered(s, files)
BY DEF Answered, Onward

(* A call returns: its frame goes. *)
LEMMA Popped ==
  ASSUME NEW k, NEW s, FramesOK(k, s), Last(s).fn # "caller"
  PROVE  LET t == Front(s)
         IN /\ FramesOK(k, t) /\ Len(t) = Len(s) - 1 /\ \A i \in DOMAIN t : i \in DOMAIN s /\ t[i] = s[i]
            /\ Last(t) = s[Len(s) - 1] /\ Last(t).fn # "unpack" /\ Last(t).todo # {}
            /\ First(Last(t).todo) = Last(s).node
            /\ \A p \in Tree : Behind(k, s, p) =>
                 Behind(k, t, p) \/ (Last(s).fn # "unpack" /\ IsPrefix(Last(s).node, p))
<1> DEFINE t == Front(s)
<1>1. /\ Len(s) \in Nat /\ Len(s) >= 1 /\ DOMAIN s = 1..Len(s)
      /\ Last(s) = s[Len(s)] /\ \A i \in DOMAIN s : s[i] \in Frames
  BY LastIs
<1>2. s \in Seq(Frames) /\ Len(s) # 1
  BY <1>1 DEF FramesOK
<1>3. /\ t \in Seq(Frames) /\ Len(t) = Len(s) - 1 /\ DOMAIN t = 1..(Len(s) - 1)
      /\ \A i \in 1..(Len(s) - 1) : t[i] = s[i]
  BY <1>1, <1>2 DEF Front
<1>4. Len(s) \in DOMAIN s /\ Len(s) - 1 \in DOMAIN s /\ \A i \in DOMAIN t : i \in DOMAIN s /\ t[i] = s[i]
  BY <1>1, <1>2, <1>3
<1>5. Len(t) >= 1 /\ t # <<>> /\ Last(t) = s[Len(s) - 1]
  BY <1>1, <1>2, <1>3 DEF Last
<1> HIDE DEF t
<1>6. FramesOK(k, t)
  <2>1. \A i \in DOMAIN t : i # 1 => i - 1 \in DOMAIN t
    BY <1>1, <1>3
  <2>2. \A i \in DOMAIN t : i # Len(s) /\ s[i].fn # "unpack"
    BY <1>1, <1>3, <1>4 DEF FramesOK
  <2>3. QED
    BY <1>3, <1>4, <1>5, <2>1, <2>2 DEF FramesOK
<1>7. /\ Last(t).fn # "unpack" /\ Last(t).todo # {}
      /\ First(Last(t).todo) = Last(s).node
  <2>1. Len(s) \in Nat /\ Len(s) # 1 /\ \A n \in Nat : n - 1 < n /\ n - 1 # n
    <3>1. \A n \in Nat : n - 1 < n /\ n - 1 # n
      OBVIOUS
    <3>2. QED
      BY <1>1, <1>2, <3>1
  <2>2. s[Len(s) - 1].todo # {} /\ s[Len(s) - 1].fn # "unpack"
    BY <1>4, <2>1 DEF FramesOK
  <2>3. s[Len(s)].node = First(s[Len(s) - 1].todo)
    BY <1>4, <2>1 DEF FramesOK
  <2>4. QED
    BY <1>1, <1>5, <2>2, <2>3
<1>8. ASSUME NEW p \in Tree, Behind(k, s, p)
      PROVE  Behind(k, t, p) \/ (Last(s).fn # "unpack" /\ IsPrefix(Last(s).node, p))
  <2>1. PICK i \in DOMAIN s : s[i].fn # "unpack" /\ \E c \in Done(k, s[i]) : IsPrefix(c, p)
    BY <1>8 DEF Behind
  <2>2. CASE i # Len(s)
    BY <1>1, <1>3, <1>4, <2>1, <2>2 DEF Behind
  <2>3. CASE i = Len(s)
    <3>1. PICK c \in Entries(k, s[i]) : IsPrefix(c, p)
      BY <2>1 DEF Done
    <3>2. c \in Tree /\ IsPrefix(s[i].node, c) /\ s[i].node \in Tree
      <4>1. s[i] \in Frames /\ s[i].fn # "caller"
        BY <1>1, <2>3
      <4>2. QED
        BY <2>1, <4>1, EntryIs DEF Frames
    <3>3. QED
      BY <1>1, <1>8, <2>1, <2>3, <3>1, <3>2, PrefixOrder
  <2>4. QED
    BY <2>2, <2>3
<1>9. QED
  BY <1>3, <1>4, <1>5, <1>6, <1>7, <1>8 DEF t

(* A call is made for the node that the last frame is at. *)
LEMMA Pushed ==
  ASSUME NEW k, NEW L, NEW T, NEW D, NEW T2, NEW D2, NEW s, NEW f \in Frames,
         FramesOK(k, s), AllFound(k, L, s), AllOnDisk(k, T, D, s), T \subseteq T2, D \subseteq D2,
         Last(s).fn # "unpack", Last(s).todo # {}, f.node = First(Last(s).todo), f.fn # "caller",
         FrameOK(k, f), FoundOK(k, L, f), DiskOK(k, T2, D2, f)
  PROVE  LET t == Append(s, f)
         IN /\ FramesOK(k, t) /\ AllFound(k, L, t) /\ AllOnDisk(k, T2, D2, t)
            /\ Len(t) = Len(s) + 1 /\ \A p : Behind(k, s, p) => Behind(k, t, p)
<1> DEFINE t == Append(s, f)
<1>1. /\ Len(s) \in Nat /\ Len(s) >= 1 /\ DOMAIN s = 1..Len(s)
      /\ Last(s) = s[Len(s)] /\ \A i \in DOMAIN s : s[i] \in Frames
  BY LastIs
<1>2. s \in Seq(Frames) /\ \A i \in DOMAIN s : FrameOK(k, s[i])
  BY DEF FramesOK
<1>3. /\ t \in Seq(Frames) /\ Len(t) = Len(s) + 1 /\ DOMAIN t = 1..(Len(s) + 1)
      /\ t[Len(s) + 1] = f /\ \A i \in 1..Len(s) : t[i] = s[i]
  BY <1>2, AppendProperties
<1> HIDE DEF t
<1>4. \A i \in DOMAIN t : (i \in DOMAIN s /\ t[i] = s[i]) \/ (i = Len(s) + 1 /\ t[i] = f)
  BY <1>1, <1>3
<1>5. First(Last(s).todo) \in Tree /\ IsPrefix(Last(s).node, First(Last(s).todo)) /\ Last(s).node \in Tree
  <2>1. Last(s) \in Frames /\ FrameOK(k, Last(s))
    BY LastIs
  <2>2. QED
    BY <2>1, NextEntry DEF Frames
<1>6. \A i \in DOMAIN s : s[i].fn # "unpack"
  BY <1>1 DEF FramesOK
<1>7. ASSUME NEW i \in DOMAIN s
      PROVE  s[i].todo # {} /\ IsPrefix(First(s[i].todo), f.node)
  <2>1. CASE i = Len(s)
    BY <1>1, <1>5, <2>1, PrefixOrder
  <2>2. CASE i # Len(s)
    <3>1. s[i].todo # {} /\ IsPrefix(First(s[i].todo), Last(s).node)
      BY <1>1, <2>2 DEF FramesOK
    <3>2. First(s[i].todo) \in Tree
      BY <1>1, <1>2, <1>6, <3>1, NextEntry
    <3>3. QED
      BY <1>5, <3>1, <3>2, PrefixOrder
  <2>3. QED
    BY <2>1, <2>2
<1>8. FramesOK(k, t)
  <2>1. ASSUME NEW i \in DOMAIN t, NEW j \in DOMAIN t, i < j
        PROVE  t[i].todo # {} /\ IsPrefix(First(t[i].todo), t[j].node)
    <3>1. i \in DOMAIN s /\ t[i] = s[i]
      BY <1>1, <1>3, <1>4, <2>1
    <3>2. CASE j \in DOMAIN s /\ t[j] = s[j]
      BY <2>1, <3>1, <3>2 DEF FramesOK
    <3>3. CASE t[j] = f
      BY <1>7, <3>1, <3>3
    <3>4. QED
      BY <1>4, <3>2, <3>3
  <2>2. ASSUME NEW i \in DOMAIN t, i # 1 PROVE t[i].node = First(t[i - 1].todo)
    <3>1. i - 1 \in DOMAIN s /\ t[i - 1] = s[i - 1]
      BY <1>1, <1>3, <2>2
    <3>2. CASE i \in DOMAIN s /\ t[i] = s[i]
      BY <2>2, <3>1, <3>2 DEF FramesOK
    <3>3. CASE i = Len(s) + 1 /\ t[i] = f
      BY <1>1, <3>1, <3>3
    <3>4. QED
      BY <1>4, <3>2, <3>3
  <2>3. \A i \in DOMAIN t : t[i].fn = "caller" <=> i = 1
    BY <1>1, <1>4 DEF FramesOK
  <2>4. \A i \in DOMAIN t : t[i].fn = "unpack" => i = Len(t)
    BY <1>3, <1>4, <1>6
  <2>5. \A i \in DOMAIN t : FrameOK(k, t[i])
    BY <1>2, <1>4
  <2>6. t # <<>>
    BY <1>1, <1>3
  <2>7. QED
    BY <1>3, <2>1, <2>2, <2>3, <2>4, <2>5, <2>6 DEF FramesOK
<1>9. AllFound(k, L, t)
  BY <1>4 DEF AllFound
<1>10. AllOnDisk(k, T2, D2, t)
  BY <1>4, DiskStays DEF AllOnDisk
<1>11. \A p : Behind(k, s, p) => Behind(k, t, p)
  BY <1>1, <1>3 DEF Behind
<1>12. QED
  BY <1>3, <1>8, <1>9, <1>10, <1>11 DEF t
-----------------------------------------------------------------------------
(* Right answers *)

(* What the search is through with is apart from the node it is at. *)
LEMMA AheadNotBehind ==
  ASSUME NEW k, NEW s, FramesOK(k, s), Last(s).fn # "unpack", Last(s).todo # {},
         NEW p \in Tree, Behind(k, s, p)
  PROVE  LET e == First(Last(s).todo)
         IN e \in Tree /\ ~IsPrefix(e, p) /\ ~IsPrefix(p, e)
<1> DEFINE e == First(Last(s).todo)
<1>1. /\ Len(s) \in Nat /\ Len(s) >= 1 /\ DOMAIN s = 1..Len(s)
      /\ Last(s) = s[Len(s)] /\ \A i \in DOMAIN s : s[i] \in Frames
  BY LastIs
<1>2. \A i \in DOMAIN s : FrameOK(k, s[i]) /\ s[i].fn # "unpack"
  BY <1>1 DEF FramesOK
<1>3. e \in Tree /\ IsPrefix(Last(s).node, e) /\ Last(s).node \in Tree
  <2>1. Last(s) \in Frames /\ FrameOK(k, Last(s))
    BY LastIs
  <2>2. QED
    BY <2>1, NextEntry DEF Frames
<1>4. PICK i \in DOMAIN s : \E c \in Done(k, s[i]) : IsPrefix(c, p)
  BY DEF Behind
<1>5. PICK c \in Done(k, s[i]) : IsPrefix(c, p)
  BY <1>4
<1> DEFINE d == First(s[i].todo)
<1>6. s[i].todo # {} /\ IsPrefix(d, e)
  <2>1. CASE i = Len(s)
    BY <1>1, <1>3, <2>1, PrefixOrder
  <2>2. CASE i # Len(s)
    <3>1. s[i].todo # {} /\ IsPrefix(d, Last(s).node)
      BY <1>1, <2>2 DEF FramesOK
    <3>2. d \in Tree
      BY <1>1, <1>2, <3>1, NextEntry
    <3>3. QED
      BY <1>3, <3>1, <3>2, PrefixOrder
  <2>3. QED
    BY <2>1, <2>2
<1>7. d \in Tree /\ c \in Tree /\ \A x \in Tree : ~(IsPrefix(c, x) /\ IsPrefix(d, x))
  BY <1>1, <1>2, <1>6, NextEntry
<1> HIDE DEF d, e
<1>8. ~IsPrefix(e, p)
  BY <1>3, <1>5, <1>6, <1>7, PrefixOrder
<1>9. ~IsPrefix(p, e)
  BY <1>3, <1>5, <1>6, <1>7, PrefixOrder
<1>10. QED
  BY <1>3, <1>8, <1>9 DEF e

LEMMA RightNothing ==
  ASSUME NEW k, NEW L, NEW e \in Tree, \A n \in Left(k, L) : ~IsPrefix(e, n)
  PROVE  RightFor(k, L, e, <<>>)
<1>1. <<>> \in Seq(Tree) /\ InOrder(<<>>) /\ ToSet(<<>>) = {}
  BY DEF InOrder, ToSet
<1>2. Yield(k, L, e) = {}
  BY DEF Yield
<1>3. QED
  BY <1>1, <1>2 DEF RightFor

LEMMA FilesAreLeaves ==
  ASSUME NEW k \in Kinds, NEW e \in Tree, k[e] \notin {"dir", ".zip"}
  PROVE  \A n \in Tree : IsPrefix(e, n) => n = e
BY KindsAssumption DEF Parents, IsStrictPrefix

LEMMA RightFile ==
  ASSUME NEW k \in Kinds, NEW L, NEW e \in Tree, Data(k, e), Prefixes(e) \cap L = {}, k[e] # "dir"
  PROVE  RightFor(k, L, e, <<e>>)
<1>1. k[e] \notin {"dir", ".zip"}
  BY DEF Data
<1>2. \A n \in Tree : IsPrefix(e, n) <=> n = e
  BY <1>1, FilesAreLeaves, PrefixOrder
<1>3. e \in Left(k, L) /\ Left(k, L) \subseteq Tree
  BY DEF Left
<1>4. Yield(k, L, e) = {e}
  <2>1. \A z \in Prefixes(e) : IsPrefix(e, z) => z = e
    BY <1>2, PrefixNode
  <2>2. e \in Yield(k, L, e)
    BY <1>1, <1>2, <1>3, <2>1 DEF Yield
  <2>3. QED
    BY <1>2, <1>3, <2>2 DEF Yield
<1>5. <<e>> \in Seq(Tree) /\ DOMAIN <<e>> = 1..1 /\ <<e>>[1] = e
  OBVIOUS
<1>6. ToSet(<<e>>) = {e}
  BY <1>5 DEF ToSet
<1>7. InOrder(<<e>>)
  BY <1>5 DEF InOrder
<1>8. QED
  BY <1>2, <1>3, <1>4, <1>5, <1>6, <1>7 DEF RightFor, Covered

LEMMA RightDirectory ==
  ASSUME NEW k, NEW L, NEW f \in Frames, FoundOK(k, L, f), f.fn = "list", k[f.node] = "dir", f.todo = {}
  PROVE  RightFor(k, L, f.node, f.found)
<1> DEFINE e == f.node
<1>1. /\ Done(k, f) = Children(e) /\ e \in Tree /\ f.found \in Seq(Tree)
  BY DEF Done, Entries, Frames
<1>2. /\ InOrder(f.found) /\ ToSet(f.found) = UNION {Yield(k, L, c) : c \in Children(e)}
      /\ \A c \in Children(e) : \A n \in Left(k, L) : IsPrefix(c, n) => Covered(f.found, n)
  BY <1>1 DEF FoundOK
<1>3. k[e] = "dir"
  OBVIOUS
<1> HIDE DEF e
<1>4. ASSUME NEW n \in Left(k, L), IsPrefix(e, n)
      PROVE  n \in Tree /\ \E c \in Children(e) : IsPrefix(c, n)
  <2>1. n \in Tree /\ n # e
    BY <1>3 DEF Left, Data, Extensions
  <2>2. n \in Below(e)
    BY <1>1, <1>4, <2>1, PrefixNode
  <2>3. QED
    BY <1>1, <2>1, <2>2, ByChild
<1>5. ASSUME NEW n \in Yield(k, L, e)
      PROVE  \E c \in Children(e) : n \in Yield(k, L, c)
  <2>1. n \in Left(k, L) /\ n \in Tree /\ IsPrefix(e, n)
    BY <1>1, YieldIs
  <2>2. PICK c \in Children(e) : IsPrefix(c, n)
    BY <1>4, <2>1
  <2>3. \A z \in Prefixes(n) : IsPrefix(c, z) => IsPrefix(e, z)
    BY <1>1, <2>1, ChildIs, PrefixNode, PrefixOrder
  <2>4. n \in Yield(k, L, c)
    BY <1>5, <2>1, <2>2, <2>3 DEF Yield
  <2>5. QED
    BY <2>4
<1>6. ASSUME NEW c \in Children(e), NEW n \in Yield(k, L, c)
      PROVE  n \in Yield(k, L, e)
  <2>1. c \in Tree /\ IsPrefix(e, c) /\ n \in Left(k, L) /\ n \in Tree /\ IsPrefix(c, n)
    BY <1>1, ChildIs, YieldIs
  <2>2. IsPrefix(e, n)
    BY <1>1, <2>1, PrefixOrder
  <2>3. ASSUME NEW z \in Prefixes(n), IsPrefix(e, z), k[z] = ".zip"
        PROVE  IsPrefix(c, z)
    <3>1. z \in Tree /\ IsPrefix(z, n) /\ z # e
      BY <1>3, <2>1, <2>3, PrefixNode
    <3>2. IsPrefix(c, z) \/ IsPrefix(z, c)
      BY <2>1, <3>1, PrefixOrder
    <3>3. IsPrefix(z, c) => z = c
      BY <1>1, <2>3, <3>1, ChildIs
    <3>4. QED
      BY <2>1, <3>2, <3>3, PrefixOrder
  <2>4. QED
    BY <1>6, <2>1, <2>2, <2>3 DEF Yield
<1>7. Yield(k, L, e) = ToSet(f.found)
  BY <1>2, <1>5, <1>6
<1>8. QED
  BY <1>1, <1>2, <1>4, <1>7 DEF RightFor, e

(* One file stands for a bundle: the first. *)
LEMMA RightBundle ==
  ASSUME NEW k, NEW L, NEW f \in Frames, FoundOK(k, L, f), f.fn = "bundle", k[f.node] = ".zip",
         f.todo = {}, f.found # <<>>
  PROVE  RightFor(k, L, f.node, <<Head(f.found)>>) /\ Head(f.found) \in ToSet(f.found)
<1> DEFINE e == f.node
           h == Head(f.found)
<1>1. /\ Done(k, f) = Children(e) /\ e \in Tree /\ f.found \in Seq(Tree)
  BY DEF Done, Entries, Frames
<1>2. /\ InOrder(f.found) /\ ToSet(f.found) = UNION {Yield(k, L, c) : c \in Children(e)}
      /\ \A c \in Children(e) : \A n \in Left(k, L) : IsPrefix(c, n) => Covered(f.found, n)
  BY <1>1 DEF FoundOK
<1>3. k[e] = ".zip"
  OBVIOUS
<1>4. h = f.found[1] /\ 1 \in DOMAIN f.found /\ \A i \in DOMAIN f.found : i = 1 \/ 1 < i
  BY <1>1
<1>5. h \in ToSet(f.found) /\ \A o \in ToSet(f.found) : o = h \/ Before(h, o)
  BY <1>2, <1>4 DEF ToSet, InOrder
<1> HIDE DEF e, h
<1>6. PICK c \in Children(e) : h \in Yield(k, L, c)
  BY <1>2, <1>5
<1>7. c \in Tree /\ IsPrefix(e, c) /\ c # e /\ h \in Left(k, L) /\ h \in Tree /\ IsPrefix(c, h)
  BY <1>1, <1>6, ChildIs, YieldIs
<1>8. IsPrefix(e, h) /\ h # e /\ h \in Below(e)
  BY <1>1, <1>7, PrefixOrder, PrefixNode
(* h is the first of all that is left in the bundle. *)
<1>9. ASSUME NEW n \in Left(k, L), IsPrefix(e, n)
      PROVE  n \in Tree /\ (n = h \/ Before(h, n))
  <2>1. n \in Tree /\ n # e
    BY <1>3 DEF Left, Data
  <2>2. n \in Below(e)
    BY <1>1, <1>9, <2>1, PrefixNode
  <2>3. PICK d \in Children(e) : IsPrefix(d, n)
    BY <1>1, <2>2, ByChild
  <2>4. PICK o \in ToSet(f.found) : o = n \/ Before(o, n)
    BY <1>2, <2>3 DEF Covered
  <2>5. o \in Tree
    <3>1. \A i \in DOMAIN f.found : f.found[i] \in Tree
      BY <1>1
    <3>2. QED
      BY <2>4, <3>1 DEF ToSet
  <2>6. QED
    BY <1>5, <1>7, <2>1, <2>4, <2>5, BeforeOrder
<1>10. h \in Yield(k, L, e)
  <2>1. ASSUME NEW z \in Prefixes(h), IsPrefix(e, z), k[z] = ".zip", NEW o \in Left(k, L) \cap Below(z)
        PROVE  ~Before(o, h)
    <3>1. z \in Tree /\ o \in Tree /\ IsPrefix(z, o)
      BY <1>7, <2>1, PrefixNode
    <3>2. IsPrefix(e, o)
      BY <1>1, <2>1, <3>1, PrefixOrder
    <3>3. QED
      BY <1>7, <1>9, <3>1, <3>2, BeforeOrder
  <2>2. QED
    BY <1>7, <1>8, <2>1 DEF Yield
<1>11. ASSUME NEW n \in Yield(k, L, e) PROVE n = h
  <2>1. n \in Left(k, L) /\ n \in Tree /\ IsPrefix(e, n)
    BY <1>1, YieldIs
  <2>2. e \in Prefixes(n) /\ IsPrefix(e, e)
    BY <1>1, <2>1, PrefixNode, PrefixOrder
  <2>3. ~Before(h, n)
    BY <1>3, <1>7, <1>8, <1>11, <2>2 DEF Yield
  <2>4. QED
    BY <1>9, <2>1, <2>3
<1>12. <<h>> \in Seq(Tree) /\ DOMAIN <<h>> = 1..1 /\ <<h>>[1] = h
  BY <1>7
<1>13. ToSet(<<h>>) = {h}
  BY <1>12 DEF ToSet
<1>14. InOrder(<<h>>)
  BY <1>12 DEF InOrder
<1>15. RightFor(k, L, e, <<h>>)
  BY <1>9, <1>10, <1>11, <1>12, <1>13, <1>14 DEF RightFor, Covered
<1>16. QED
  BY <1>5, <1>15 DEF e, h
-----------------------------------------------------------------------------
(* What is on disk *)

LEMMA AboveEntry ==
  ASSUME NEW k, NEW f \in Frames, f.fn # "unpack", FrameOK(k, f), NEW e \in Entries(k, f)
  PROVE  /\ e \in Tree /\ f.node \in Tree /\ IsPrefix(f.node, e)
         /\ f.fn = "caller" => e = Root /\ Prefixes(e) = {e}
         /\ f.fn # "caller" => Prefixes(e) = Prefixes(f.node) \cup {e} /\ e # f.node
<1>1. e \in Tree /\ IsPrefix(f.node, e) /\ f.node \in Tree
  BY EntryIs DEF FrameOK, Frames
<1>2. CASE f.fn = "caller"
  <2>1. e = Root
    BY <1>2 DEF Entries
  <2>2. \A p \in Tree : IsPrefix(p, e) <=> p = e
    BY <1>1, <2>1, RootIsAbove, PrefixOrder
  <2>3. QED
    BY <1>1, <1>2, <2>1, <2>2, PrefixNode
<1>3. CASE f.fn # "caller"
  <2>1. e \in Children(f.node)
    BY <1>3 DEF Entries
  <2>2. \A p \in Tree : IsPrefix(p, e) <=> IsPrefix(p, f.node) \/ p = e
    BY <1>1, <2>1, ChildIs, PrefixOrder
  <2>3. e # f.node
    BY <1>1, <2>1, ChildIs
  <2>4. QED
    BY <1>1, <1>3, <2>2, <2>3, PrefixNode
<1>4. QED
  BY <1>1, <1>2, <1>3

LEMMA EntryOnDisk ==
  ASSUME NEW k, NEW T, NEW D, NEW f \in Frames, f.fn # "unpack", FrameOK(k, f), DiskOK(k, T, D, f),
         NEW e \in Entries(k, f)
  PROVE  /\ Exists(k, T, D, e)
         /\ \A z \in Prefixes(e) \ {e} : k[z] = ".zip" => z \in T
         /\ k[e] = "dir" => Unpacked(k, T, D, e)
<1>1. /\ e \in Tree /\ f.node \in Tree /\ IsPrefix(f.node, e)
      /\ f.fn = "caller" => e = Root /\ Prefixes(e) = {e}
      /\ f.fn # "caller" => Prefixes(e) = Prefixes(f.node) \cup {e} /\ e # f.node
  BY AboveEntry
<1>2. CASE f.fn = "caller"
  <2>1. k[e] = "dir" => {z \in Prefixes(e) : k[z] = ".zip"} = {}
    BY <1>1, <1>2
  <2>2. QED
    BY <1>1, <1>2, <2>1 DEF Exists, Unpacked
<1>3. CASE f.fn # "caller"
  <2> DEFINE bundles == {z \in Prefixes(f.node) : k[z] = ".zip"}
  <2>1. Unpacked(k, T, D, f.node)
    BY <1>3 DEF DiskOK, Frames
  <2>2. \A z \in Prefixes(e) \ {e} : k[z] = ".zip" => z \in bundles
    BY <1>1, <1>3
  <2>3. bundles \subseteq T
    BY <2>1 DEF Unpacked
  <2>4. ASSUME bundles # {} PROVE e \in D
    <3>1. PICK z \in bundles : (\A b \in bundles : IsPrefix(b, z)) /\ ArchiveOf(k, z) \subseteq D
      BY <2>1, <2>4 DEF Unpacked
    <3>2. z \in Tree /\ IsPrefix(z, f.node)
      BY <1>1, <3>1, PrefixNode
    <3>3. e \in Below(z)
      BY <1>1, <1>3, <3>2, PrefixNode, PrefixOrder
    <3>4. ASSUME NEW b \in Below(z), k[b] = ".zip" PROVE ~IsStrictPrefix(b, e)
      <4>1. b \in Tree /\ IsPrefix(z, b) /\ z # b
        BY <3>2, <3>4, PrefixNode
      <4>2. ASSUME IsStrictPrefix(b, e) PROVE FALSE
        <5>1. b \in Prefixes(e) /\ b # e
          BY <1>1, <4>1, <4>2, PrefixNode DEF IsStrictPrefix
        <5>2. b \in bundles
          BY <2>2, <3>4, <5>1
        <5>3. QED
          BY <3>1, <3>2, <4>1, <5>2, PrefixOrder
      <4>3. QED
        BY <4>2
    <3>5. e \in ArchiveOf(k, z)
      BY <3>3, <3>4 DEF ArchiveOf
    <3>6. QED
      BY <3>1, <3>5
  <2>5. Exists(k, T, D, e)
    BY <2>2, <2>3, <2>4 DEF Exists
  <2>6. ASSUME k[e] = "dir" PROVE Unpacked(k, T, D, e)
    <3>1. {z \in Prefixes(e) : k[z] = ".zip"} = bundles
      BY <1>1, <1>3, <2>6
    <3>2. QED
      BY <2>1, <3>1 DEF Unpacked
  <2>7. QED
    BY <2>2, <2>3, <2>5, <2>6
<1>4. QED
  BY <1>2, <1>3

(* What is directly in a bundle is in its archive. *)
LEMMA ChildrenUnpacked ==
  ASSUME NEW k, NEW z \in Tree
  PROVE  Children(z) \subseteq ArchiveOf(k, z)
<1> SUFFICES ASSUME NEW c \in Children(z) PROVE c \in ArchiveOf(k, z)
  OBVIOUS
<1>1. c \in Tree /\ c \in Below(z)
  BY ChildIs DEF Children
<1>2. ASSUME NEW b \in Below(z) PROVE ~IsStrictPrefix(b, c)
  BY <1>1, PrefixNode, ChildIs DEF IsStrictPrefix
<1>3. QED
  BY <1>1, <1>2 DEF ArchiveOf
-----------------------------------------------------------------------------
(* Steps *)

LEMMA Now ==
  ASSUME TypeOK, StackInv, FoundInv, DiskInv, status = "running"
  PROVE  /\ FramesOK(kind, stack) /\ AllFound(kind, lost, stack)
         /\ AllOnDisk(kind, temps, disk, stack) /\ \A p \in lost : Behind(kind, stack, p) /\ p \in Tree
         /\ Len(stack) \in DOMAIN stack /\ Top = stack[Len(stack)] /\ Last(stack) = Top /\ Top \in Frames
         /\ FrameOK(kind, Top) /\ FoundOK(kind, lost, Top) /\ DiskOK(kind, temps, disk, Top)
         /\ kind \in Kinds
<1>1. /\ FramesOK(kind, stack) /\ AllFound(kind, lost, stack)
      /\ AllOnDisk(kind, temps, disk, stack) /\ \A p \in lost : Behind(kind, stack, p) /\ p \in Tree
      /\ kind \in Kinds
  BY DEF StackInv, FoundInv, DiskInv, TypeOK
<1>2. /\ Len(stack) \in DOMAIN stack /\ Top = stack[Len(stack)] /\ Last(stack) = Top
      /\ Top \in Frames /\ FrameOK(kind, Top)
  BY <1>1, LastIs DEF Top
<1>3. QED
  BY <1>1, <1>2 DEF AllFound, AllOnDisk

LEMMA AnswerKeeps ==
  ASSUME NEW s, NEW files, CanAnswer(kind, lost, lost', temps', disk', s, files),
         Answer(s, files), kind' = kind, status' = "running"
  PROVE  StackInv' /\ FoundInv' /\ DiskInv' /\ stack' \in Seq(Frames) /\ stack' # <<>>
<1>1. stack' = Answered(s, files)
  BY AnswerIs DEF Answer, FramesOK, CanAnswer
<1>2. /\ FramesOK(kind, stack') /\ AllFound(kind, lost', stack') /\ AllOnDisk(kind, temps', disk', stack')
      /\ \A p \in lost' : Behind(kind, stack', p)
  BY <1>1, StackAnswered
<1>3. QED
  BY <1>2 DEF StackInv, FoundInv, DiskInv, FramesOK

LEMMA DataKinds ==
  ASSUME NEW k, NEW n
  PROVE  /\ k[n] \in supportedEXT \ {".zip"} => Data(k, n) /\ k[n] # "dir"
         /\ k[n] \in {e \in Extensions : ~IsSupported(e)} =>
              ~Data(k, n) /\ k[n] \notin {"dir", ".zip"}
BY DEF Data, supportedEXT, IsSupported, Extensions, GetDriver, NoDriver, PostGIS

(* Nothing the search is through with is above the node it is at or below it. *)
LEMMA NotLost ==
  ASSUME NEW k, NEW s, FramesOK(k, s), Last(s).fn # "unpack", Last(s).todo # {},
         NEW L, \A p \in L : p \in Tree /\ Behind(k, s, p)
  PROVE  LET e == First(Last(s).todo)
         IN e \in Tree /\ Prefixes(e) \cap L = {}
<1> DEFINE e == First(Last(s).todo)
<1>1. e \in Tree
  <2>1. Last(s) \in Frames /\ FrameOK(k, Last(s))
    BY LastIs
  <2>2. QED
    BY <2>1, NextEntry
<1>2. \A p \in L : ~IsPrefix(p, e)
  BY AheadNotBehind
<1>3. QED
  BY <1>1, <1>2, PrefixNode

LEMMA Answerable ==
  ASSUME TypeOK, StackInv, FoundInv, DiskInv, status = "running", Top.fn # "unpack", Top.todo # {},
         NEW M, NEW files, NEW T, NEW D, temps \subseteq T, disk \subseteq D,
         M = lost \/ M = lost \cup {Entry},
         RightFor(kind, M, Entry, files), \A n \in ToSet(files) : Exists(kind, T, D, n)
  PROVE  CanAnswer(kind, lost, M, T, D, stack, files)
<1>1. AllOnDisk(kind, T, D, stack)
  BY Now, DiskStays DEF AllOnDisk
<1>2. Entry = First(Last(stack).todo) /\ Last(stack) = Top
  BY Now DEF Entry
<1>3. QED
  BY <1>1, <1>2, Now DEF CanAnswer

(* The same when the innermost call returns. *)
LEMMA Returnable ==
  ASSUME TypeOK, StackInv, FoundInv, DiskInv, status = "running", Top.fn # "caller",
         NEW M, NEW files, NEW T, NEW D, temps \subseteq T, disk \subseteq D,
         M = lost \/ M = lost \cup {Top.node},
         RightFor(kind, M, Top.node, files), \A n \in ToSet(files) : Exists(kind, T, D, n)
  PROVE  /\ CanAnswer(kind, lost, M, T, D, Front(stack), files)
         /\ First(Last(Front(stack)).todo) = Top.node
<1> DEFINE t == Front(stack)
<1>1. FramesOK(kind, stack) /\ Last(stack) = Top /\ \A p \in lost : p \in Tree /\ Behind(kind, stack, p)
  BY Now
<1>2. /\ FramesOK(kind, t) /\ \A i \in DOMAIN t : i \in DOMAIN stack /\ t[i] = stack[i]
      /\ Last(t).fn # "unpack" /\ Last(t).todo # {} /\ First(Last(t).todo) = Top.node
      /\ \A p \in Tree : Behind(kind, stack, p) => Behind(kind, t, p) \/ IsPrefix(Top.node, p)
  BY <1>1, Popped
<1>3. AllFound(kind, lost, t)
  BY <1>2, Now DEF AllFound
<1>4. AllOnDisk(kind, T, D, t)
  BY <1>2, Now, DiskStays DEF AllOnDisk
<1>5. QED
  BY <1>1, <1>2, <1>3, <1>4 DEF CanAnswer

LEMMA InitKeeps == Init => SearchInv
<1> SUFFICES ASSUME Init PROVE SearchInv
  OBVIOUS
<1> DEFINE f == Frame("caller", Root, {Root})
<1>1. /\ f \in Frames /\ f.fn = "caller" /\ f.node = Root /\ f.todo = {Root} /\ f.found = <<>>
  BY TreeAssumption DEF Frame, Frames
<1> HIDE DEF f
<1>2. stack = <<f>> /\ lost = {} /\ status = "running"
  BY DEF Init, f
<1>3. stack \in Seq(Frames) /\ DOMAIN stack = {1} /\ stack[1] = f /\ Len(stack) = 1 /\ stack # <<>>
  BY <1>1, <1>2
<1>4. TypeOK
  BY <1>3 DEF Init, TypeOK, CtxTypeOK, Frames
<1>5. Entries(kind, f) = {Root} /\ Done(kind, f) = {}
  BY <1>1 DEF Entries, Done
<1>6. ToSet(f.found) = {} /\ InOrder(f.found)
  BY <1>1 DEF ToSet, InOrder
<1>7. FrameOK(kind, f) /\ FoundOK(kind, lost, f) /\ DiskOK(kind, temps, disk, f)
  BY <1>1, <1>5, <1>6 DEF FrameOK, FoundOK, DiskOK
<1>8. FramesOK(kind, stack)
  BY <1>1, <1>3, <1>7 DEF FramesOK
<1>9. QED
  BY <1>2, <1>3, <1>4, <1>7, <1>8
     DEF SearchInv, StackInv, FoundInv, DiskInv, AllFound, AllOnDisk, LossesHaveAReason

LEMMA NowAt ==
  ASSUME TypeOK, StackInv, FoundInv, DiskInv, NEW kinds, Visiting(kinds)
  PROVE  /\ status = "running" /\ Top.fn # "unpack" /\ Top.todo # {} /\ kind[Entry] \in kinds
         /\ Entry \in Tree /\ Entry \in Entries(kind, Top) /\ Prefixes(Entry) \cap lost = {}
         /\ Exists(kind, temps, disk, Entry)
<1>1. status = "running" /\ Top.fn # "unpack" /\ Top.todo # {} /\ kind[Entry] \in kinds
  BY DEF Visiting, Running
<1>2. Entry \in Tree /\ Entry \in Entries(kind, Top)
  BY <1>1, Now, NextEntry DEF Entry
<1>3. Prefixes(Entry) \cap lost = {}
  BY <1>1, Now, NotLost DEF Entry
<1>4. Exists(kind, temps, disk, Entry)
  BY <1>1, <1>2, Now, EntryOnDisk
<1>5. QED
  BY <1>1, <1>2, <1>3, <1>4

LEMMA EmptyAnswer == <<>> \in Seq(Tree) /\ ToSet(<<>>) = {}
BY DEF ToSet

LEMMA TakeFileKeeps ==
  ASSUME SearchInv, TakeFile
  PROVE  SearchInv'
<1>1. /\ Visiting(supportedEXT \ {".zip"}) /\ Answer(stack, <<Entry>>)
      /\ UNCHANGED <<canceled, trouble, kind, status, temps, disk, lost>>
  BY DEF TakeFile, ctxVars
<1>2. TypeOK /\ StackInv /\ FoundInv /\ DiskInv /\ LossesHaveAReason
  BY DEF SearchInv
<1>3. RightFor(kind, lost, Entry, <<Entry>>)
  BY <1>1, <1>2, NowAt, Now, DataKinds, RightFile
<1>4. \A n \in ToSet(<<Entry>>) : Exists(kind, temps, disk, n)
  <2>1. DOMAIN <<Entry>> = {1} /\ <<Entry>>[1] = Entry
    OBVIOUS
  <2>2. QED
    BY <1>1, <1>2, <2>1, NowAt DEF ToSet
<1>5. CanAnswer(kind, lost, lost, temps, disk, stack, <<Entry>>)
  BY <1>1, <1>2, <1>3, <1>4, NowAt, Answerable
<1>6. StackInv' /\ FoundInv' /\ DiskInv' /\ stack' \in Seq(Frames) /\ stack' # <<>>
  <2>1. status' = "running"
    BY <1>1, <1>2, NowAt
  <2>2. QED
    BY <1>1, <1>5, <2>1, AnswerKeeps
<1>7. TypeOK'
  BY <1>1, <1>2, <1>6 DEF TypeOK, CtxTypeOK, Frames
<1>8. LossesHaveAReason'
  BY <1>1, <1>2 DEF LossesHaveAReason, IsBundle, IsData
<1>9. QED
  BY <1>6, <1>7, <1>8 DEF SearchInv

LEMMA SkipOtherKeeps ==
  ASSUME SearchInv, SkipOther
  PROVE  SearchInv'
<1>1. /\ Visiting({e \in Extensions : ~IsSupported(e)}) /\ Answer(stack, <<>>)
      /\ UNCHANGED <<canceled, trouble, kind, status, temps, disk, lost>>
  BY DEF SkipOther, ctxVars
<1>2. TypeOK /\ StackInv /\ FoundInv /\ DiskInv /\ LossesHaveAReason
  BY DEF SearchInv
<1>3. RightFor(kind, lost, Entry, <<>>)
  <2>1. Entry \in Tree /\ ~Data(kind, Entry) /\ kind[Entry] \notin {"dir", ".zip"} /\ kind \in Kinds
    BY <1>1, <1>2, NowAt, Now, DataKinds
  <2>2. \A n \in Left(kind, lost) : ~IsPrefix(Entry, n)
    BY <2>1, FilesAreLeaves DEF Left
  <2>3. QED
    BY <2>1, <2>2, RightNothing
<1>4. CanAnswer(kind, lost, lost, temps, disk, stack, <<>>)
  BY <1>1, <1>2, <1>3, EmptyAnswer, NowAt, Answerable
<1>5. StackInv' /\ FoundInv' /\ DiskInv' /\ stack' \in Seq(Frames) /\ stack' # <<>>
  <2>1. status' = "running"
    BY <1>1, <1>2, NowAt
  <2>2. QED
    BY <1>1, <1>4, <2>1, AnswerKeeps
<1>6. TypeOK'
  BY <1>1, <1>2, <1>5 DEF TypeOK, CtxTypeOK, Frames
<1>7. LossesHaveAReason'
  BY <1>1, <1>2 DEF LossesHaveAReason, IsBundle, IsData
<1>8. QED
  BY <1>5, <1>6, <1>7 DEF SearchInv

LEMMA ReturnDirectoryKeeps ==
  ASSUME SearchInv, ReturnDirectory
  PROVE  SearchInv'
<1>1. /\ status = "running" /\ Top.fn = "list" /\ Top.todo = {} /\ Answer(Front(stack), Top.found)
      /\ UNCHANGED <<canceled, trouble, kind, status, temps, disk, lost>>
  BY DEF ReturnDirectory, Running, ctxVars
<1>2. TypeOK /\ StackInv /\ FoundInv /\ DiskInv /\ LossesHaveAReason
  BY DEF SearchInv
<1>3. RightFor(kind, lost, Top.node, Top.found)
  BY <1>1, <1>2, Now, RightDirectory DEF FrameOK
<1>4. \A n \in ToSet(Top.found) : Exists(kind, temps, disk, n)
  BY <1>1, <1>2, Now DEF DiskOK
<1>5. CanAnswer(kind, lost, lost, temps, disk, Front(stack), Top.found)
  BY <1>1, <1>2, <1>3, <1>4, Returnable
<1>6. StackInv' /\ FoundInv' /\ DiskInv' /\ stack' \in Seq(Frames) /\ stack' # <<>>
  <2>1. status' = "running"
    BY <1>1
  <2>2. QED
    BY <1>1, <1>5, <2>1, AnswerKeeps
<1>7. TypeOK'
  BY <1>1, <1>2, <1>6 DEF TypeOK, CtxTypeOK, Frames
<1>8. LossesHaveAReason'
  BY <1>1, <1>2 DEF LossesHaveAReason, IsBundle, IsData
<1>9. QED
  BY <1>6, <1>7, <1>8 DEF SearchInv

LEMMA ReturnBundleKeeps ==
  ASSUME SearchInv, ReturnBundle
  PROVE  SearchInv'
<1>1. /\ status = "running" /\ Top.fn = "bundle" /\ Top.todo = {} /\ Top.found # <<>>
      /\ Answer(Front(stack), <<Head(Top.found)>>)
      /\ UNCHANGED <<canceled, trouble, kind, status, temps, disk, lost>>
  BY DEF ReturnBundle, Running, ctxVars
<1>2. TypeOK /\ StackInv /\ FoundInv /\ DiskInv /\ LossesHaveAReason
  BY DEF SearchInv
<1>3. RightFor(kind, lost, Top.node, <<Head(Top.found)>>) /\ Head(Top.found) \in ToSet(Top.found)
  BY <1>1, <1>2, Now, RightBundle DEF FrameOK
<1>4. \A n \in ToSet(<<Head(Top.found)>>) : Exists(kind, temps, disk, n)
  <2>1. DOMAIN <<Head(Top.found)>> = {1} /\ <<Head(Top.found)>>[1] = Head(Top.found)
    OBVIOUS
  <2>2. Exists(kind, temps, disk, Head(Top.found))
    BY <1>1, <1>2, <1>3, Now DEF DiskOK
  <2>3. QED
    BY <2>1, <2>2 DEF ToSet
<1>5. CanAnswer(kind, lost, lost, temps, disk, Front(stack), <<Head(Top.found)>>)
  BY <1>1, <1>2, <1>3, <1>4, Returnable
<1>6. StackInv' /\ FoundInv' /\ DiskInv' /\ stack' \in Seq(Frames) /\ stack' # <<>>
  <2>1. status' = "running"
    BY <1>1
  <2>2. QED
    BY <1>1, <1>5, <2>1, AnswerKeeps
<1>7. TypeOK'
  BY <1>1, <1>2, <1>6 DEF TypeOK, CtxTypeOK, Frames
<1>8. LossesHaveAReason'
  BY <1>1, <1>2 DEF LossesHaveAReason, IsBundle, IsData
<1>9. QED
  BY <1>6, <1>7, <1>8 DEF SearchInv

LEMMA FailKeeps ==
  ASSUME NEW s, NEW e, e = First(Last(s).todo),
         CanAnswer(kind, lost, lost \cup {e}, temps', disk', s, <<>>),
         Fail(s), status = "running", kind' = kind
  PROVE  /\ StackInv' /\ FoundInv' /\ DiskInv' /\ stack' \in Seq(Frames) /\ stack' # <<>>
         /\ lost' = lost \cup {e} /\ status' \in {"running", "failed"}
<1>1. lost' = lost \cup {e}
  BY DEF Fail
<1>2. CASE Last(s).fn = "caller"
  <2>1. status' = "failed" /\ stack' = s
    BY <1>2 DEF Fail
  <2>2. FramesOK(kind, s) /\ AllOnDisk(kind, temps', disk', s)
    BY DEF CanAnswer
  <2>3. Len(s) = 1
    <3>1. Len(s) \in DOMAIN s /\ Last(s) = s[Len(s)]
      BY <2>2, LastIs
    <3>2. QED
      BY <1>2, <2>2, <3>1 DEF FramesOK
  <2>4. QED
    BY <1>1, <2>1, <2>2, <2>3 DEF StackInv, FoundInv, DiskInv, FramesOK
<1>3. CASE Last(s).fn # "caller"
  <2>1. Answer(s, <<>>) /\ status' = "running"
    BY <1>3 DEF Fail
  <2>2. QED
    BY <1>1, <2>1, AnswerKeeps
<1>4. QED
  BY <1>2, <1>3

LEMMA LostNode ==
  ASSUME NEW k, NEW L, NEW e \in Tree
  PROVE  RightFor(k, L \cup {e}, e, <<>>)
BY LeftWithout, RightNothing

LEMMA EntryFailsKeeps ==
  ASSUME SearchInv, EntryFails
  PROVE  SearchInv'
<1>1. /\ Visiting({"dir"} \cup Extensions) /\ Fail(stack)
      /\ UNCHANGED <<canceled, kind, temps, disk>> /\ trouble' = TRUE
  BY DEF EntryFails, Disturb
<1>2. TypeOK /\ StackInv /\ FoundInv /\ DiskInv
  BY DEF SearchInv
<1>3. CanAnswer(kind, lost, lost \cup {Entry}, temps, disk, stack, <<>>)
  BY <1>1, <1>2, LostNode, EmptyAnswer, NowAt, Answerable
<1>4. Entry = First(Last(stack).todo)
  BY DEF Entry, Top
<1>5. /\ StackInv' /\ FoundInv' /\ DiskInv' /\ stack' \in Seq(Frames) /\ stack' # <<>>
      /\ lost' = lost \cup {Entry} /\ status' \in {"running", "failed"}
  <2>1. status = "running"
    BY <1>1, <1>2, NowAt
  <2>2. QED
    BY <1>1, <1>3, <1>4, <2>1, FailKeeps
<1>6. Entry \in Tree
  BY <1>1, <1>2, NowAt
<1>7. TypeOK'
  BY <1>1, <1>2, <1>5, <1>6 DEF TypeOK, CtxTypeOK, Frames
<1>8. LossesHaveAReason'
  BY <1>1 DEF LossesHaveAReason
<1>9. QED
  BY <1>5, <1>7, <1>8 DEF SearchInv

LEMMA UnpackFailsKeeps ==
  ASSUME SearchInv, UnpackFails
  PROVE  SearchInv'
<1>1. /\ status = "running" /\ Top.fn = "unpack" /\ Fail(Front(stack))
      /\ disk' = disk \/ \E entry \in Top.todo : disk' = disk \cup {entry}
      /\ UNCHANGED <<canceled, kind, temps>> /\ trouble' = TRUE
  BY DEF UnpackFails, Running, Disturb
<1>2. TypeOK /\ StackInv /\ FoundInv /\ DiskInv
  BY DEF SearchInv
<1>3. Top.node \in Tree /\ Top.todo \subseteq Tree
  BY <1>1, <1>2, Now DEF Frames
<1>4. /\ CanAnswer(kind, lost, lost \cup {Top.node}, temps', disk', Front(stack), <<>>)
      /\ First(Last(Front(stack)).todo) = Top.node
  <2>1. temps \subseteq temps' /\ disk \subseteq disk' /\ Top.fn # "caller"
    BY <1>1
  <2>2. \A n \in ToSet(<<>>) : Exists(kind, temps', disk', n)
    BY EmptyAnswer
  <2>3. RightFor(kind, lost \cup {Top.node}, Top.node, <<>>)
    BY <1>3, LostNode
  <2>4. QED
    BY <1>1, <1>2, <2>1, <2>2, <2>3, Returnable
<1>5. /\ StackInv' /\ FoundInv' /\ DiskInv' /\ stack' \in Seq(Frames) /\ stack' # <<>>
      /\ lost' = lost \cup {Top.node} /\ status' \in {"running", "failed"}
  BY <1>1, <1>4, FailKeeps
<1>6. TypeOK'
  BY <1>1, <1>2, <1>3, <1>5 DEF TypeOK, CtxTypeOK, Frames
<1>7. LossesHaveAReason'
  BY <1>1 DEF LossesHaveAReason
<1>8. QED
  BY <1>5, <1>6, <1>7 DEF SearchInv

(* "cannot find gis files" is said of a bundle that has none, unless one was *)
(* lost before.                                                              *)
LEMMA EmptyBundleKeeps ==
  ASSUME SearchInv, EmptyBundle
  PROVE  SearchInv'
<1>1. /\ status = "running" /\ Top.fn = "bundle" /\ Top.todo = {} /\ Top.found = <<>> /\ Fail(Front(stack))
      /\ UNCHANGED <<canceled, trouble, kind, temps, disk>>
  BY DEF EmptyBundle, Running, ctxVars
<1>2. TypeOK /\ StackInv /\ FoundInv /\ DiskInv /\ LossesHaveAReason
  BY DEF SearchInv
<1> DEFINE e == Top.node
<1>3. e \in Tree /\ kind[e] = ".zip" /\ FoundOK(kind, lost, Top) /\ Done(kind, Top) = Children(e)
  BY <1>1, <1>2, Now DEF Frames, FrameOK, Done, Entries
<1>4. /\ CanAnswer(kind, lost, lost \cup {e}, temps', disk', Front(stack), <<>>)
      /\ First(Last(Front(stack)).todo) = e
  <2>1. temps \subseteq temps' /\ disk \subseteq disk' /\ Top.fn # "caller"
    BY <1>1
  <2>2. \A n \in ToSet(<<>>) : Exists(kind, temps', disk', n)
    BY EmptyAnswer
  <2>3. RightFor(kind, lost \cup {e}, e, <<>>)
    BY <1>3, LostNode
  <2>4. QED
    BY <1>1, <1>2, <2>1, <2>2, <2>3, Returnable
<1>5. /\ StackInv' /\ FoundInv' /\ DiskInv' /\ stack' \in Seq(Frames) /\ stack' # <<>>
      /\ lost' = lost \cup {e} /\ status' \in {"running", "failed"}
  BY <1>1, <1>4, FailKeeps
<1>6. TypeOK'
  BY <1>1, <1>2, <1>3, <1>5 DEF TypeOK, CtxTypeOK, Frames
<1>7. ASSUME ~trouble, NEW m \in Below(e), IsData(m) PROVE FALSE
  <2>1. m \in Tree /\ IsPrefix(e, m) /\ Data(kind, m)
    BY <1>3, <1>7, PrefixNode DEF IsData, Data
  <2>2. PICK c \in Children(e) : IsPrefix(c, m)
    BY <1>3, <1>7, ByChild
  <2>3. m \notin Left(kind, lost)
    BY <1>1, <1>3, <2>2, EmptyAnswer DEF FoundOK, Covered
  <2>4. PICK p \in lost : p \in Prefixes(m)
    BY <2>1, <2>3 DEF Left
  <2>5. kind[p] = ".zip" /\ \A o \in Below(p) : ~IsData(o)
    BY <1>2, <1>7, <2>4 DEF LossesHaveAReason, IsBundle
  <2>6. p \in Tree /\ IsPrefix(p, m) /\ p # m
    BY <2>1, <2>4, <2>5, PrefixNode DEF Data
  <2>7. m \in Below(p)
    BY <2>1, <2>6, PrefixNode
  <2>8. QED
    BY <1>7, <2>5, <2>7
<1>8. LossesHaveAReason'
  BY <1>1, <1>2, <1>3, <1>5, <1>7 DEF LossesHaveAReason, IsBundle, IsData
<1>9. QED
  BY <1>5, <1>6, <1>8 DEF SearchInv

LEMMA CallKeeps ==
  ASSUME NEW s, NEW f \in Frames,
         FramesOK(kind, s), AllFound(kind, lost, s), AllOnDisk(kind, temps, disk, s),
         Last(s).fn # "unpack", Last(s).todo # {}, f.node = First(Last(s).todo), f.fn # "caller",
         FrameOK(kind, f), FoundOK(kind, lost, f), DiskOK(kind, temps', disk', f),
         temps \subseteq temps', disk \subseteq disk', \A p \in lost : Behind(kind, s, p),
         stack' = Append(s, f), kind' = kind, lost' = lost, status' = "running"
  PROVE  StackInv' /\ FoundInv' /\ DiskInv' /\ stack' \in Seq(Frames) /\ stack' # <<>>
<1>1. AllOnDisk(kind, temps', disk', s)
  BY DiskStays DEF AllOnDisk
<1>2. /\ FramesOK(kind, stack') /\ AllFound(kind, lost, stack') /\ AllOnDisk(kind, temps', disk', stack')
      /\ \A p : Behind(kind, s, p) => Behind(kind, stack', p)
  BY <1>1, Pushed
<1>3. QED
  BY <1>2 DEF StackInv, FoundInv, DiskInv, FramesOK

LEMMA FreshFrame ==
  ASSUME NEW k, NEW L, NEW T, NEW D, NEW f, NEW fn \in {"list", "unpack", "bundle"}, NEW n \in Tree,
         f = Frame(fn, n, Entries(k, f)), Entries(k, f) \subseteq Tree,
         fn = "list" => k[n] = "dir", fn # "list" => k[n] = ".zip",
         fn = "unpack" => \A z \in Prefixes(n) : k[z] = ".zip" => z \in T,
         fn # "unpack" => Unpacked(k, T, D, n)
  PROVE  /\ f \in Frames /\ f.fn = fn /\ f.node = n
         /\ FrameOK(k, f) /\ FoundOK(k, L, f) /\ DiskOK(k, T, D, f)
<1> DEFINE todo == Entries(k, f)
<1>0. f = Frame(fn, n, todo) /\ todo \subseteq Tree
  OBVIOUS
<1> HIDE DEF todo
<1>1. f \in Frames /\ f.fn = fn /\ f.node = n /\ f.todo = Entries(k, f) /\ f.found = <<>>
  <2>1. f = [fn |-> fn, node |-> n, todo |-> todo, found |-> <<>>]
    BY <1>0 DEF Frame
  <2>2. f.fn = fn /\ f.node = n /\ f.todo = todo /\ f.found = <<>>
    BY <2>1
  <2>3. <<>> \in Seq(Tree)
    OBVIOUS
  <2>4. f \in Frames
    BY <1>0, <2>1, <2>3 DEF Frames
  <2>5. QED
    BY <2>2, <2>4 DEF todo
<1>2. ToSet(f.found) = {} /\ InOrder(f.found)
  BY <1>1, EmptyAnswer DEF InOrder
<1>3. Done(k, f) = {}
  BY <1>1, <1>2 DEF Done
<1>4. FrameOK(k, f)
  BY <1>1, <1>2, <1>3 DEF FrameOK
<1>5. FoundOK(k, L, f)
  BY <1>1, <1>2, <1>3 DEF FoundOK
<1>6. DiskOK(k, T, D, f)
  BY <1>1, <1>2, <1>3 DEF DiskOK
<1>7. QED
  BY <1>1, <1>4, <1>5, <1>6

LEMMA BelowInTree ==
  ASSUME NEW k, NEW n \in Tree
  PROVE  Children(n) \subseteq Tree /\ ArchiveOf(k, n) \subseteq Tree
BY DEF Children, ArchiveOf, Below

LEMMA EnterDirectoryKeeps ==
  ASSUME SearchInv, EnterDirectory
  PROVE  SearchInv'
<1> DEFINE f == Frame("list", Entry, Children(Entry))
<1>1. /\ Visiting({"dir"}) /\ stack' = Append(stack, f)
      /\ UNCHANGED <<canceled, trouble, kind, status, temps, disk, lost>>
  BY DEF EnterDirectory, ctxVars
<1>2. TypeOK /\ StackInv /\ FoundInv /\ DiskInv /\ LossesHaveAReason
  BY DEF SearchInv
<1>3. /\ f \in Frames /\ f.fn = "list" /\ f.node = Entry /\ FrameOK(kind, f) /\ FoundOK(kind, lost, f)
      /\ DiskOK(kind, temps, disk, f)
  <2>1. Entry \in Tree /\ kind[Entry] = "dir"
    BY <1>1, <1>2, NowAt
  <2>2. Unpacked(kind, temps, disk, Entry)
    BY <1>1, <1>2, <2>1, NowAt, Now, EntryOnDisk
  <2>3. f = Frame("list", Entry, Entries(kind, f)) /\ Entries(kind, f) \subseteq Tree
    BY <2>1, BelowInTree DEF Entries, Frame
  <2> HIDE DEF f
  <2>4. QED
    BY <2>1, <2>2, <2>3, FreshFrame, ZenonT(60)
<1> HIDE DEF f
<1>4. StackInv' /\ FoundInv' /\ DiskInv' /\ stack' \in Seq(Frames) /\ stack' # <<>>
  <2>1. /\ Last(stack).fn # "unpack" /\ Last(stack).todo # {} /\ Entry = First(Last(stack).todo)
        /\ status' = "running"
    BY <1>1, <1>2, NowAt, Now DEF Entry
  <2>2. /\ FramesOK(kind, stack) /\ AllFound(kind, lost, stack) /\ AllOnDisk(kind, temps, disk, stack)
        /\ \A p \in lost : Behind(kind, stack, p)
    BY <1>1, <1>2, NowAt, Now
  <2>3. QED
    BY <1>1, <1>3, <2>1, <2>2, CallKeeps
<1>5. TypeOK'
  BY <1>1, <1>2, <1>4 DEF TypeOK, CtxTypeOK, Frames
<1>6. LossesHaveAReason'
  BY <1>1, <1>2 DEF LossesHaveAReason, IsBundle, IsData
<1>7. QED
  BY <1>4, <1>5, <1>6 DEF SearchInv

LEMMA StartUnpackingKeeps ==
  ASSUME SearchInv, StartUnpacking
  PROVE  SearchInv'
<1> DEFINE f == Frame("unpack", Entry, Archive(Entry))
<1>1. /\ Visiting({".zip"} \cap supportedEXT) /\ stack' = Append(stack, f) /\ temps' = temps \cup {Entry}
      /\ UNCHANGED <<canceled, trouble, kind, status, disk, lost>>
  BY DEF StartUnpacking, ctxVars
<1>2. TypeOK /\ StackInv /\ FoundInv /\ DiskInv /\ LossesHaveAReason
  BY DEF SearchInv
<1>3. Entry \in Tree /\ kind[Entry] = ".zip"
  BY <1>1, <1>2, NowAt
<1>4. /\ f \in Frames /\ f.fn = "unpack" /\ f.node = Entry /\ FrameOK(kind, f) /\ FoundOK(kind, lost, f)
      /\ DiskOK(kind, temps', disk', f)
  <2>1. \A z \in Prefixes(Entry) : kind[z] = ".zip" => z \in temps'
    BY <1>1, <1>2, NowAt, Now, EntryOnDisk
  <2>2. Archive(Entry) = ArchiveOf(kind, Entry)
    BY DEF Archive, ArchiveOf, IsBundle
  <2>3. f = Frame("unpack", Entry, Entries(kind, f)) /\ Entries(kind, f) \subseteq Tree
    BY <1>3, <2>2, BelowInTree DEF Entries, Frame
  <2> HIDE DEF f
  <2>4. QED
    BY <1>3, <2>1, <2>3, FreshFrame
<1> HIDE DEF f
<1>5. StackInv' /\ FoundInv' /\ DiskInv' /\ stack' \in Seq(Frames) /\ stack' # <<>>
  <2>1. /\ Last(stack).fn # "unpack" /\ Last(stack).todo # {} /\ Entry = First(Last(stack).todo)
        /\ status' = "running"
    BY <1>1, <1>2, NowAt, Now DEF Entry
  <2>2. /\ FramesOK(kind, stack) /\ AllFound(kind, lost, stack) /\ AllOnDisk(kind, temps, disk, stack)
        /\ \A p \in lost : Behind(kind, stack, p)
    BY <1>1, <1>2, NowAt, Now
  <2>3. QED
    BY <1>1, <1>4, <2>1, <2>2, CallKeeps
<1>6. TypeOK'
  BY <1>1, <1>2, <1>3, <1>5 DEF TypeOK, CtxTypeOK, Frames
<1>7. LossesHaveAReason'
  BY <1>1, <1>2 DEF LossesHaveAReason, IsBundle, IsData
<1>8. QED
  BY <1>5, <1>6, <1>7 DEF SearchInv

LEMMA ListBundleKeeps ==
  ASSUME SearchInv, ListBundle
  PROVE  SearchInv'
<1> DEFINE z == Top.node
           f == Frame("bundle", z, Children(z) \cap disk)
           t == Front(stack)
<1>1. /\ status = "running" /\ Top.fn = "unpack" /\ Top.todo = {} /\ stack' = Append(t, f)
      /\ UNCHANGED <<canceled, trouble, kind, status, temps, disk, lost>>
  BY DEF ListBundle, Running, ctxVars
<1>2. TypeOK /\ StackInv /\ FoundInv /\ DiskInv /\ LossesHaveAReason
  BY DEF SearchInv
<1>3. z \in Tree /\ kind[z] = ".zip" /\ ArchiveOf(kind, z) \subseteq disk
  BY <1>1, <1>2, Now DEF Frames, FrameOK, DiskOK, Done, Entries
<1>4. /\ FramesOK(kind, t) /\ \A i \in DOMAIN t : i \in DOMAIN stack /\ t[i] = stack[i]
      /\ Last(t).fn # "unpack" /\ Last(t).todo # {} /\ First(Last(t).todo) = z
      /\ \A p \in lost : Behind(kind, t, p)
  BY <1>1, <1>2, Now, Popped
<1>5. AllFound(kind, lost, t) /\ AllOnDisk(kind, temps, disk, t)
  BY <1>1, <1>2, <1>4, Now DEF AllFound, AllOnDisk
<1>6. /\ f \in Frames /\ f.fn = "bundle" /\ f.node = z /\ FrameOK(kind, f) /\ FoundOK(kind, lost, f)
      /\ DiskOK(kind, temps, disk, f)
  <2>1. Children(z) \cap disk = Children(z)
    BY <1>3, ChildrenUnpacked
  <2>2. Unpacked(kind, temps, disk, z)
    <3> DEFINE bundles == {b \in Prefixes(z) : kind[b] = ".zip"}
    <3>1. bundles \subseteq temps
      BY <1>1, <1>2, Now DEF DiskOK
    <3>2. z \in bundles /\ \A b \in bundles : IsPrefix(b, z)
      BY <1>3, PrefixNode, PrefixOrder
    <3>3. QED
      BY <1>3, <3>1, <3>2 DEF Unpacked
  <2>3. f = Frame("bundle", z, Entries(kind, f)) /\ Entries(kind, f) \subseteq Tree
    BY <1>3, <2>1, BelowInTree DEF Entries, Frame
  <2> HIDE DEF f, z
  <2>4. QED
    BY <1>3, <2>2, <2>3, FreshFrame, ZenonT(60)
<1> HIDE DEF f, t, z
<1>7. StackInv' /\ FoundInv' /\ DiskInv' /\ stack' \in Seq(Frames) /\ stack' # <<>>
  BY <1>1, <1>4, <1>5, <1>6, CallKeeps
<1>8. TypeOK'
  BY <1>1, <1>2, <1>7 DEF TypeOK, CtxTypeOK, Frames
<1>9. LossesHaveAReason'
  BY <1>1, <1>2 DEF LossesHaveAReason, IsBundle, IsData
<1>10. QED
  BY <1>7, <1>8, <1>9 DEF SearchInv

LEMMA ExtractEntryKeeps ==
  ASSUME SearchInv, ExtractEntry
  PROVE  SearchInv'
<1>1. PICK entry \in Top.todo :
        disk' = disk \cup {entry} /\ stack' = [stack EXCEPT ![Len(stack)].todo = @ \ {entry}]
  BY DEF ExtractEntry
<1>2. /\ status = "running" /\ Top.fn = "unpack"
      /\ UNCHANGED <<canceled, trouble, kind, status, temps, lost>>
  BY DEF ExtractEntry, Running, ctxVars
<1>3. TypeOK /\ StackInv /\ FoundInv /\ DiskInv /\ LossesHaveAReason
  BY DEF SearchInv
<1> DEFINE l == Len(stack)
           g == [Top EXCEPT !.todo = @ \ {entry}]
<1>4. /\ FramesOK(kind, stack) /\ AllFound(kind, lost, stack) /\ AllOnDisk(kind, temps, disk, stack)
      /\ \A p \in lost : Behind(kind, stack, p)
      /\ l \in DOMAIN stack /\ Top = stack[l] /\ Top \in Frames
      /\ FrameOK(kind, Top) /\ FoundOK(kind, lost, Top) /\ DiskOK(kind, temps, disk, Top)
  BY <1>2, <1>3, Now
<1>5. stack \in Seq(Frames) /\ stack # <<>> /\ DOMAIN stack = 1..l /\ l \in Nat
  BY <1>4 DEF FramesOK
<1>6. /\ g \in Frames /\ g.fn = Top.fn /\ g.node = Top.node /\ g.todo = Top.todo \ {entry}
      /\ g.found = Top.found
  BY <1>4 DEF Frames
<1>7. stack' = [stack EXCEPT ![l] = g]
  BY <1>1, <1>4
<1> HIDE DEF g
<1>8. /\ stack' \in Seq(Frames) /\ DOMAIN stack' = DOMAIN stack /\ Len(stack') = l
      /\ stack'[l] = g /\ \A i \in DOMAIN stack : i # l => stack'[i] = stack[i]
  BY <1>5, <1>6, <1>7, LastReplaced
<1> HIDE DEF l
<1>9. entry \in Entries(kind, Top) /\ entry \in Tree /\ Entries(kind, g) = Entries(kind, Top)
  BY <1>1, <1>4, <1>6 DEF FrameOK, Frames, Entries
<1>10. Done(kind, g) = Done(kind, Top) \cup {entry}
  BY <1>1, <1>6, <1>9 DEF Done
<1>11. FrameOK(kind, g) /\ FoundOK(kind, lost, g)
  BY <1>2, <1>4, <1>6, <1>9 DEF FrameOK, FoundOK
<1>12. DiskOK(kind, temps, disk', g)
  <2>1. DiskOK(kind, temps, disk', Top)
    BY <1>1, <1>4, DiskStays
  <2>2. QED
    BY <1>1, <1>2, <1>6, <1>10, <2>1 DEF DiskOK
<1>13. \A i \in DOMAIN stack : stack'[i].fn = stack[i].fn /\ stack'[i].node = stack[i].node
  BY <1>4, <1>6, <1>8
<1>14. FramesOK(kind, stack')
  <2>1. \A i, j \in DOMAIN stack : i < j => i # l
    BY <1>5
  <2>2. \A i, j \in DOMAIN stack :
          i < j => stack'[i].todo # {} /\ IsPrefix(First(stack'[i].todo), stack'[j].node)
    BY <1>4, <1>8, <1>13, <2>1 DEF FramesOK
  <2>3. \A i \in DOMAIN stack : i # 1 => i - 1 \in DOMAIN stack /\ i - 1 # l
    BY <1>5
  <2>4. \A i \in DOMAIN stack : i # 1 => stack'[i].node = First(stack'[i - 1].todo)
    BY <1>4, <1>8, <1>13, <2>3 DEF FramesOK
  <2>5. \A i \in DOMAIN stack : stack[i].fn = "caller" <=> i = 1
    BY <1>4 DEF FramesOK
  <2>6. \A i \in DOMAIN stack : stack[i].fn = "unpack" => i = l
    BY <1>4 DEF FramesOK, l
  <2>7. \A i \in DOMAIN stack : FrameOK(kind, stack'[i])
    BY <1>4, <1>8, <1>11 DEF FramesOK
  <2>8. stack' # <<>>
    <3>1. l # 0
      BY <1>4, <1>5
    <3>2. QED
      BY <1>8, <3>1
  <2>9. QED
    BY <1>8, <1>13, <2>2, <2>4, <2>5, <2>6, <2>7, <2>8 DEF FramesOK
<1>15. AllFound(kind, lost, stack')
  BY <1>4, <1>8, <1>11 DEF AllFound
<1>16. AllOnDisk(kind, temps, disk', stack')
  <2>1. \A i \in DOMAIN stack : DiskOK(kind, temps, disk', stack[i])
    BY <1>1, <1>4, DiskStays DEF AllOnDisk
  <2>2. QED
    BY <1>8, <1>12, <2>1 DEF AllOnDisk
<1>17. \A p \in lost : Behind(kind, stack', p)
  <2>1. \A i \in DOMAIN stack : stack[i].fn # "unpack" => stack'[i] = stack[i]
    BY <1>2, <1>4, <1>8
  <2>2. QED
    BY <1>4, <1>8, <2>1 DEF Behind
<1>18. StackInv' /\ FoundInv' /\ DiskInv' /\ stack' \in Seq(Frames) /\ stack' # <<>>
  BY <1>2, <1>14, <1>15, <1>16, <1>17 DEF StackInv, FoundInv, DiskInv, FramesOK
<1>19. TypeOK'
  BY <1>1, <1>2, <1>3, <1>9, <1>18 DEF TypeOK, CtxTypeOK, Frames
<1>20. LossesHaveAReason'
  BY <1>2, <1>3 DEF LossesHaveAReason, IsBundle, IsData
<1>21. QED
  BY <1>18, <1>19, <1>20 DEF SearchInv

LEMMA ReturnFilesKeeps ==
  ASSUME SearchInv, ReturnFiles
  PROVE  SearchInv'
<1>1. /\ status = "running" /\ Top.fn = "caller" /\ Top.todo = {} /\ status' = "listed"
      /\ UNCHANGED <<canceled, trouble, kind, stack, temps, disk, lost>>
  BY DEF ReturnFiles, Running, ctxVars
<1>2. TypeOK /\ StackInv /\ FoundInv /\ DiskInv /\ LossesHaveAReason
  BY DEF SearchInv
<1>3. Len(stack) = 1 /\ stack[1].todo = {}
  BY <1>1, <1>2, Now DEF FramesOK
<1>4. StackInv' /\ FoundInv' /\ DiskInv'
  BY <1>1, <1>2, <1>3 DEF StackInv, FoundInv, DiskInv
<1>5. TypeOK'
  BY <1>1, <1>2 DEF TypeOK, CtxTypeOK
<1>6. LossesHaveAReason'
  BY <1>1, <1>2 DEF LossesHaveAReason, IsBundle, IsData
<1>7. QED
  BY <1>4, <1>5, <1>6 DEF SearchInv

LEMMA StepKeeps == SearchInv /\ [Next]_vars => SearchInv'
<1> SUFFICES ASSUME SearchInv, [Next]_vars PROVE SearchInv'
  OBVIOUS
<1>1. CASE UNCHANGED vars
  BY <1>1 DEF SearchInv, vars, ctxVars, TypeOK, CtxTypeOK, StackInv, FoundInv, DiskInv,
             LossesHaveAReason, IsBundle, IsData
<1>2. CASE Finished
  BY <1>1, <1>2 DEF Finished
<1>3. QED
  BY <1>1, <1>2, EntryFailsKeeps, TakeFileKeeps, SkipOtherKeeps, EnterDirectoryKeeps,
     ReturnDirectoryKeeps, StartUnpackingKeeps, ExtractEntryKeeps, UnpackFailsKeeps, ListBundleKeeps,
     ReturnBundleKeeps, EmptyBundleKeeps, ReturnFilesKeeps DEF Next

LEMMA SearchOK == Spec => []SearchInv
BY InitKeeps, StepKeeps, PTL DEF Spec
-----------------------------------------------------------------------------
(* The theorems *)

(* The frames of the search are well formed whatever it meets              *)
(* (utils.go:70-117, 167-192).                                             *)
THEOREM DiscoveryTyped == Spec => []TypeOK
<1>1. SearchInv => TypeOK
  BY DEF SearchInv
<1>2. QED
  BY <1>1, SearchOK, PTL

(* A file that is handed on exists: what came out of a bundle is there as  *)
(* long as the program runs, for every file of every call under way        *)
(* (utils.go:168-191).                                                     *)
THEOREM FoundFilesStay == Spec => []FoundFilesExist
<1>1. SearchInv => FoundFilesExist
  BY DEF SearchInv, DiskInv, AllOnDisk, DiskOK, Exists, FoundFilesExist, IsBundle
<1>2. QED
  BY <1>1, SearchOK, PTL

(* Without an outside failure nothing is lost but bundles that hold no     *)
(* data file at any depth (utils.go:187-190).                              *)
THEOREM LossesAreExplained == Spec => []LossesHaveAReason
<1>1. SearchInv => LossesHaveAReason
  BY DEF SearchInv
<1>2. QED
  BY <1>1, SearchOK, PTL

(* The search of any tree finds, in name order, the data files that are    *)
(* not at or below a node that failed and not shadowed by an earlier file  *)
(* of a bundle they are in, and nothing else (utils.go:72-74, 94-116,      *)
(* 181-191).                                                               *)
THEOREM SearchFindsAll == Spec => []FindsWhatIsThere
<1>1. ASSUME SearchInv, status = "listed" PROVE FindsWhatIsThere
  <2>1. TypeOK /\ FramesOK(kind, stack) /\ AllFound(kind, lost, stack) /\ Len(stack) = 1 /\ stack[1].todo = {}
    BY <1>1 DEF SearchInv, StackInv, FoundInv
  <2>2. Top = stack[1] /\ 1 \in DOMAIN stack /\ Top.fn = "caller" /\ Top.todo = {}
    <3>1. DOMAIN stack = 1..1 /\ Top = stack[1]
      BY <2>1, LastIs DEF Top
    <3>2. QED
      BY <2>1, <3>1 DEF FramesOK
  <2>3. InOrder(Top.found) /\ ToSet(Top.found) = UNION {Yield(kind, lost, c) : c \in Done(kind, Top)}
    BY <2>1, <2>2 DEF AllFound, FoundOK
  <2>4. Done(kind, Top) = {Root}
    BY <2>2 DEF Done, Entries
  <2>5. Left(kind, lost) = Usable
    BY DEF Left, Data, Usable, IsData
  <2>6. \A n \in Usable : \A z \in Prefixes(n) \cup {n} : IsPrefix(Root, z)
    BY PrefixNode, RootIsAbove DEF Usable
  <2>7. Yield(kind, lost, Root) = {n \in Usable : FirstOfItsBundles(n)}
    BY <2>5, <2>6 DEF Yield, FirstOfItsBundles, IsBundle
  <2>8. ToSet(Top.found) = {n \in Usable : FirstOfItsBundles(n)}
    BY <2>3, <2>4, <2>7
  <2>9. QED
    BY <2>3, <2>8 DEF FindsWhatIsThere, InOrder
<1>2. status # "listed" => FindsWhatIsThere
  BY DEF FindsWhatIsThere
<1>3. SearchInv => FindsWhatIsThere
  BY <1>1, <1>2
<1>4. QED
  BY <1>3, SearchOK, PTL
=============================================================================

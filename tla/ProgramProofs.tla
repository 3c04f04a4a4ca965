----------------------------- MODULE ProgramProofs -----------------------------
(***************************************************************************)
(* What the work of a command begins with, what it is refused for and what *)
(* it exits with, for any documents, environments and lists of options.    *)
(***************************************************************************)
EXTENDS Program, WalkProofs, WellFoundedInduction, SequenceTheorems, TLAPS

(* What FromConfig gives to New for the texts t. *)
ConfigOf(t) == [ZeroManager EXCEPT !.text = t, !.logger = "default"]

OptionFor(t) ==
  [part : {"logger", "geoserver", "datastore", "source"}, arg : {ConfigOf(t)}]

(* The Manager has the fields of one, whatever is in them. *)
ManagerShape ==
  m = [text |-> m.text, logger |-> m.logger, publishConcurrency |-> m.publishConcurrency]

(* An option FromConfig gives to New and that is still to be applied. *)
Ahead(s) == \E i \in DOMAIN todo : todo[i].part = s

(* FromConfig in the midst of New: what is not yet in m is still ahead. *)
OptionsInv ==
  /\ todo \in Seq(OptionFor(decoded))
  /\ m.logger = "default"
  /\ \A s \in DOMAIN Section :
       Ahead(s) \/ \A f \in Section[s] : m.text[f] = decoded[f]

Built == m.logger = "default" /\ \A f \in Fields : m.text[f] = decoded[f]

ConfigInv ==
  /\ ManagerShape
  /\ phase = "expand" => decoded = yamlFile.text
  /\ phase \in {"new", "options", "validate", "done"} =>
       decoded = Expanded(yamlFile.text)
  /\ phase = "options" => OptionsInv
  /\ phase = "validate" => Built
  /\ phase = "done" => Built /\ IsWhole(m)

Configured ==
  /\ phase = "done"
  /\ decoded = Expanded(yamlFile.text)
  /\ Built
  /\ IsWhole(m)

(* Where the work may have begun, and with what. *)
ProgramInv ==
  /\ prog \in {"gismanager", "layerSchema", "library"}
  /\ pc \in {"args", "stat"} => phase = "idle"
  /\ IsCommand /\ pc \in {"args", "stat", "config"} => ConfigInv
  /\ pc \in {"args", "stat", "config"} => ~WorkBegun
  /\ pc \in {"publish", "list", "encode"} => Configured
  /\ WorkBegun => Configured
-----------------------------------------------------------------------------
(* How a text is expanded *)

(* What holds at 1 and from one to the next holds up to n. *)
LEMMA UpToLast ==
  ASSUME NEW n \in Nat, NEW G, 1 \in G, \A i \in 2..n : i - 1 \in G => i \in G
  PROVE  \A i \in 1..n : i \in G
<1> DEFINE T == (1..n) \ G
           R == OpToRel(<, Nat)
<1>1. IsWellFoundedOn(R, Nat)
  BY NatLessThanWellFounded, Zenon
<1>2. \A j, k \in Nat : j < k => <<j, k>> \in R
  BY DEF OpToRel
<1> HIDE DEF R
<1>3. SUFFICES ASSUME T # {} PROVE FALSE
  OBVIOUS
<1>4. T \subseteq Nat
  OBVIOUS
<1>5. PICK k \in T : \A j \in T : <<j, k>> \notin R
  BY <1>1, <1>3, <1>4, WFMin
<1>6. k # 1 /\ k \in 2..n /\ k - 1 \in 1..n /\ k - 1 \in Nat /\ k \in Nat /\ k - 1 < k
  OBVIOUS
<1>7. k - 1 \in G
  BY <1>2, <1>5, <1>6
<1>8. QED
  BY <1>6, <1>7

FlattenRec(q, g, n) == g = [i \in 1..n |-> IF i = 1 THEN q[i] ELSE g[i - 1] \o q[i]]

LEMMA FlattenIs ==
  ASSUME NEW q, Len(q) # 0, NEW g, FlattenRec(q, g, Len(q)),
         \A h : FlattenRec(q, h, Len(q)) => h = g
  PROVE  FlattenSeq(q) = g[Len(q)]
BY DEF FlattenSeq, FlattenRec

LEMMA FlattenExists ==
  ASSUME NEW q, NEW n \in Nat \ {0}
  PROVE  \E g : FlattenRec(q, g, n)
<1> DEFINE G == {k \in 1..n : \E g : FlattenRec(q, g, k)}
<1>1. 1 \in G
  <2>1. FlattenRec(q, [i \in 1..1 |-> q[i]], 1)
    BY DEF FlattenRec
  <2>2. QED
    BY <2>1
<1>2. ASSUME NEW k \in 2..n, k - 1 \in G PROVE k \in G
  <2>1. PICK g : FlattenRec(q, g, k - 1)
    BY <1>2
  <2> DEFINE h == [i \in 1..k |-> IF i = k THEN g[k - 1] \o q[k] ELSE g[i]]
  <2>2. FlattenRec(q, h, k)
    <3>1. ASSUME NEW i \in 1..k PROVE h[i] = IF i = 1 THEN q[i] ELSE h[i - 1] \o q[i]
      <4>1. CASE i = k
        <5>1. k - 1 \in 1..k /\ k - 1 # k /\ i # 1
          BY <4>1
        <5>2. QED
          BY <4>1, <5>1
      <4>2. CASE i # k
        <5>1. i \in 1..(k - 1) /\ (i # 1 => i - 1 \in 1..k /\ i - 1 # k)
          BY <4>2
        <5>2. h[i] = g[i] /\ (i # 1 => h[i - 1] = g[i - 1])
          BY <4>2, <5>1
        <5>3. g[i] = IF i = 1 THEN q[i] ELSE g[i - 1] \o q[i]
          BY <2>1, <5>1 DEF FlattenRec
        <5>4. QED
          BY <5>2, <5>3
      <4>3. QED
        BY <4>1, <4>2
    <3> HIDE DEF h
    <3>2. h = [i \in 1..k |-> h[i]]
      BY DEF h
    <3>3. QED
      BY <3>1, <3>2 DEF FlattenRec
  <2>3. QED
    BY <1>2, <2>2
<1> HIDE DEF G
<1>3. n \in G
  BY <1>1, <1>2, UpToLast
<1>4. QED
  BY <1>3 DEF G

LEMMA FlattenUnique ==
  ASSUME NEW q, NEW n \in Nat \ {0}, NEW g, NEW h, FlattenRec(q, g, n), FlattenRec(q, h, n)
  PROVE  g = h
<1> DEFINE G == {i \in 1..n : g[i] = h[i]}
<1>1. \A i \in 1..n : /\ g[i] = IF i = 1 THEN q[i] ELSE g[i - 1] \o q[i]
                      /\ h[i] = IF i = 1 THEN q[i] ELSE h[i - 1] \o q[i]
  BY DEF FlattenRec
<1>2. 1 \in G
  BY <1>1
<1>3. ASSUME NEW i \in 2..n, i - 1 \in G PROVE i \in G
  BY <1>1, <1>3
<1> HIDE DEF G
<1>4. \A i \in 1..n : i \in G
  BY <1>2, <1>3, UpToLast
<1>5. g = [i \in 1..n |-> g[i]] /\ h = [i \in 1..n |-> h[i]]
  BY DEF FlattenRec
<1>6. \A i \in 1..n : g[i] = h[i]
  BY <1>4 DEF G
<1>7. QED
  BY <1>5, <1>6

(* FlattenSeq puts the sequences behind one another from left to right. *)
LEMMA FlattenSteps ==
  ASSUME NEW q, Len(q) \in Nat \ {0}
  PROVE  \E g : /\ FlattenSeq(q) = g[Len(q)] /\ g[1] = q[1]
                /\ \A i \in 2..Len(q) : g[i] = g[i - 1] \o q[i]
<1>1. PICK g : FlattenRec(q, g, Len(q))
  BY FlattenExists
<1>2. \A h : FlattenRec(q, h, Len(q)) => h = g
  BY <1>1, FlattenUnique
<1>3. FlattenSeq(q) = g[Len(q)]
  BY <1>1, <1>2, FlattenIs
<1>4. \A i \in 1..Len(q) : g[i] = IF i = 1 THEN q[i] ELSE g[i - 1] \o q[i]
  BY <1>1 DEF FlattenRec
<1>5. g[1] = q[1] /\ \A i \in 2..Len(q) : g[i] = g[i - 1] \o q[i]
  <2>1. 1 \in 1..Len(q) /\ \A i \in 2..Len(q) : i \in 1..Len(q) /\ i # 1
    OBVIOUS
  <2>2. QED
    BY <1>4, <2>1
<1>6. QED
  BY <1>3, <1>5

LEMMA FirstStays ==
  ASSUME NEW S, NEW x \in Seq(S), NEW y \in Seq(S), x # <<>>
  PROVE  /\ x \o y \in Seq(S) /\ x \o y # <<>> /\ (x \o y)[1] = x[1]
         /\ SubSeq(x, 1, 1) = <<x[1]>>
<1>1. Len(x) \in Nat \ {0} /\ Len(y) \in Nat /\ 1 \in 1..Len(x) /\ x[1] \in S
  OBVIOUS
<1>2. x \o y \in Seq(S) /\ Len(x \o y) = Len(x) + Len(y) /\ (x \o y)[1] = x[1]
  BY <1>1
<1>3. x \o y # <<>>
  BY <1>1, <1>2
<1>4. SubSeq(x, 1, 1) = <<x[1]>>
  <2>1. SubSeq(x, 1, 1) \in Seq(S) /\ Len(SubSeq(x, 1, 1)) = 1 /\ SubSeq(x, 1, 1)[1] = x[1]
    BY <1>1
  <2>2. PICK one \in Seq(S) : one = SubSeq(x, 1, 1)
    BY <2>1
  <2>3. /\ <<x[1]>> \in Seq(S) /\ Len(<<x[1]>>) = Len(one)
        /\ \A i \in 1..Len(one) : one[i] = <<x[1]>>[i]
    BY <1>1, <2>1, <2>2
  <2>4. QED
    BY <2>2, <2>3, SeqEqual
<1>5. QED
  BY <1>2, <1>3, <1>4

PieceSet == {"lit", "var"} \X STRING

(* What os.ExpandEnv puts in the place of a piece. *)
InPlaceOf(p) == IF p[1] = "var" THEN Getenv(p[2]) ELSE <<p>>

EnvironTyped == \A v \in DOMAIN environ : environ[v] \in Text

LEMMA InPlaceTyped ==
  ASSUME EnvironTyped, NEW p \in PieceSet
  PROVE  InPlaceOf(p) \in Seq(PieceSet)
<1>1. CASE p[1] = "var" /\ p[2] \in DOMAIN environ
  BY <1>1 DEF InPlaceOf, Getenv, EnvironTyped, Text, PieceSet
<1>2. CASE p[1] = "var" /\ p[2] \notin DOMAIN environ
  BY <1>2 DEF InPlaceOf, Getenv
<1>3. CASE p[1] # "var"
  BY <1>3 DEF InPlaceOf
<1>4. QED
  BY <1>1, <1>2, <1>3

(* The expansion of a text grows by one piece at a time. *)
LEMMA ExpandSteps ==
  ASSUME NEW text \in Text, text # <<>>
  PROVE  /\ Len(text) \in Nat \ {0} /\ \A i \in 1..Len(text) : text[i] \in PieceSet
         /\ \E g : /\ Expand(text) = g[Len(text)] /\ g[1] = InPlaceOf(text[1])
                   /\ \A i \in 2..Len(text) : g[i] = g[i - 1] \o InPlaceOf(text[i])
<1> DEFINE q == [i \in DOMAIN text |-> InPlaceOf(text[i])]
<1>1. /\ text \in Seq(PieceSet) /\ Len(text) \in Nat \ {0} /\ DOMAIN text = 1..Len(text)
      /\ \A i \in 1..Len(text) : text[i] \in PieceSet
  BY DEF Text, PieceSet
<1>2. Len(q) = Len(text)
  BY <1>1
<1>3. Expand(text) = FlattenSeq(q)
  BY DEF Expand, InPlaceOf
<1>4. \A i \in 1..Len(text) : q[i] = InPlaceOf(text[i])
  BY <1>1
<1> HIDE DEF q
<1>5. PICK g : /\ FlattenSeq(q) = g[Len(q)] /\ g[1] = q[1]
               /\ \A i \in 2..Len(q) : g[i] = g[i - 1] \o q[i]
  BY <1>1, <1>2, FlattenSteps
<1>6. 1 \in 1..Len(text) /\ \A i \in 2..Len(text) : i \in 1..Len(text)
  BY <1>1
<1>7. /\ Expand(text) = g[Len(text)] /\ g[1] = InPlaceOf(text[1])
      /\ \A i \in 2..Len(text) : g[i] = g[i - 1] \o InPlaceOf(text[i])
  BY <1>2, <1>3, <1>4, <1>5, <1>6
<1>8. QED
  BY <1>1, <1>7

LEMMA ExpandNothing == Expand(<<>>) = <<>>
BY DEF Expand, FlattenSeq

(* What is expanded is a text again. *)
LEMMA ExpandTyped ==
  ASSUME EnvironTyped, NEW text \in Text
  PROVE  Expand(text) \in Text
<1>1. CASE text = <<>>
  BY <1>1, ExpandNothing
<1>2. CASE text # <<>>
  <2>1. PICK g : /\ Expand(text) = g[Len(text)] /\ g[1] = InPlaceOf(text[1])
                 /\ \A i \in 2..Len(text) : g[i] = g[i - 1] \o InPlaceOf(text[i])
    BY <1>2, ExpandSteps
  <2>2. PICK n \in Nat \ {0} : n = Len(text) /\ \A i \in 1..n : InPlaceOf(text[i]) \in Seq(PieceSet)
    BY <1>2, ExpandSteps, InPlaceTyped
  <2> DEFINE G == {i \in 1..n : g[i] \in Seq(PieceSet)}
  <2>3. 1 \in G
    BY <2>1, <2>2
  <2>4. ASSUME NEW i \in 2..n, i - 1 \in G PROVE i \in G
    <3>1. g[i - 1] \in Seq(PieceSet) /\ InPlaceOf(text[i]) \in Seq(PieceSet) /\ i \in 1..n
      BY <2>2, <2>4
    <3>2. g[i] = g[i - 1] \o InPlaceOf(text[i])
      BY <2>1, <2>2
    <3>3. g[i - 1] \o InPlaceOf(text[i]) \in Seq(PieceSet)
      BY <3>1
    <3>4. QED
      BY <3>1, <3>2, <3>3
  <2> HIDE DEF G
  <2>5. n \in G
    BY <2>3, <2>4, UpToLast
  <2>6. QED
    BY <2>1, <2>2, <2>5 DEF G, Text, PieceSet
<1>3. QED
  BY <1>1, <1>2

LEMMA LiteralPiece ==
  ASSUME NEW p \in PieceSet, p[1] # "var"
  PROVE  InPlaceOf(p) = <<p>>
BY DEF InPlaceOf

(* A text without a reference is as it was. *)
LEMMA ExpandLiteral ==
  ASSUME NEW text \in Text, ~Refers(text)
  PROVE  Expand(text) = text
<1>1. CASE text = <<>>
  BY <1>1, ExpandNothing
<1>2. CASE text # <<>>
  <2>1. PICK g : /\ Expand(text) = g[Len(text)] /\ g[1] = InPlaceOf(text[1])
                 /\ \A i \in 2..Len(text) : g[i] = g[i - 1] \o InPlaceOf(text[i])
    BY <1>2, ExpandSteps
  <2>2. PICK n \in Nat \ {0} : n = Len(text)
    BY <1>2, ExpandSteps
  <2>3. text \in Seq(PieceSet) /\ \A i \in 1..n : text[i] \in PieceSet
    BY <2>2 DEF Text, PieceSet
  <2>4. \A i \in 1..n : InPlaceOf(text[i]) = <<text[i]>>
    BY <2>2, <2>3, LiteralPiece DEF Refers
  <2> DEFINE G == {i \in 1..n : g[i] = SubSeq(text, 1, i)}
  <2>5. 1 \in G
    <3>1. 1 \in 1..Len(text) /\ text[1] \in PieceSet
      BY <2>2, <2>3
    <3>2. SubSeq(text, 1, 1) = <<text[1]>>
      BY <1>2, <2>3, FirstStays
    <3>3. QED
      BY <2>1, <2>2, <2>4, <3>2
  <2>6. ASSUME NEW i \in 2..n, i - 1 \in G PROVE i \in G
    <3>1. i \in 2..Len(text) /\ i \in 1..n /\ g[i - 1] = SubSeq(text, 1, i - 1)
      BY <2>2, <2>6
    <3>2. g[i] = g[i - 1] \o InPlaceOf(text[i]) /\ InPlaceOf(text[i]) = <<text[i]>>
      BY <2>1, <2>4, <3>1
    <3>3. SubSeq(text, 1, i - 1) \o <<text[i]>> = SubSeq(text, 1, i)
      BY <2>2, <2>3, <2>6
    <3>4. QED
      BY <3>1, <3>2, <3>3
  <2> HIDE DEF G
  <2>7. n \in G
    BY <2>5, <2>6, UpToLast
  <2>8. SubSeq(text, 1, n) = text
    BY <2>2, <2>3
  <2>9. QED
    BY <2>1, <2>2, <2>7, <2>8 DEF G
<1>3. QED
  BY <1>1, <1>2

(* A text that is one reference is what the variable holds, as it is. *)
LEMMA ExpandReference ==
  ASSUME NEW v, <<<<"var", v>>>> \in Text
  PROVE  Expand(<<<<"var", v>>>>) = Getenv(v)
<1> DEFINE text == <<<<"var", v>>>>
<1>1. text # <<>> /\ Len(text) = 1 /\ text[1] = <<"var", v>>
  OBVIOUS
<1> HIDE DEF text
<1>2. Expand(text) = InPlaceOf(text[1])
  BY <1>1, ExpandSteps DEF text
<1>3. QED
  BY <1>1, <1>2 DEF InPlaceOf, text

BeginsLiteral(text) == text # <<>> /\ text[1][1] = "lit"

(* A text keeps the literal piece it begins with. *)
LEMMA ExpandKeepsFirst ==
  ASSUME EnvironTyped, NEW text \in Text, BeginsLiteral(text)
  PROVE  Expand(text)[1] = text[1]
<1>0. text # <<>>
  BY DEF BeginsLiteral
<1>1. PICK g : /\ Expand(text) = g[Len(text)] /\ g[1] = InPlaceOf(text[1])
               /\ \A i \in 2..Len(text) : g[i] = g[i - 1] \o InPlaceOf(text[i])
  BY <1>0, ExpandSteps
<1>2. PICK n \in Nat \ {0} : n = Len(text)
  BY <1>0, ExpandSteps
<1>3. \A i \in 1..n : text[i] \in PieceSet /\ InPlaceOf(text[i]) \in Seq(PieceSet)
  BY <1>0, <1>2, ExpandSteps, InPlaceTyped
<1>4. 1 \in 1..n /\ InPlaceOf(text[1]) = <<text[1]>>
  <2>1. text[1] \in PieceSet /\ text[1][1] # "var"
    BY <1>3 DEF BeginsLiteral
  <2>2. QED
    BY <2>1, LiteralPiece
<1> DEFINE G == {i \in 1..n : g[i] \in Seq(PieceSet) /\ g[i] # <<>> /\ g[i][1] = text[1]}
<1>5. 1 \in G
  <2>1. g[1] = InPlaceOf(text[1]) /\ InPlaceOf(text[1]) \in Seq(PieceSet)
    BY <1>1, <1>3, <1>4
  <2>2. g[1] # <<>> /\ g[1][1] = text[1]
    BY <1>4, <2>1
  <2>3. QED
    BY <2>1, <2>2
<1>6. ASSUME NEW i \in 2..n, i - 1 \in G PROVE i \in G
  <2>1. i \in 2..Len(text) /\ i \in 1..n
    BY <1>2, <1>6
  <2>2. g[i] = g[i - 1] \o InPlaceOf(text[i])
    BY <1>1, <2>1
  <2>3. /\ g[i - 1] \in Seq(PieceSet) /\ g[i - 1] # <<>> /\ g[i - 1][1] = text[1]
        /\ InPlaceOf(text[i]) \in Seq(PieceSet)
    BY <1>3, <1>6, <2>1
  <2>4. PICK x \in Seq(PieceSet), y \in Seq(PieceSet) : x = g[i - 1] /\ y = InPlaceOf(text[i])
    BY <2>3
  <2>5. x \o y \in Seq(PieceSet) /\ x \o y # <<>> /\ (x \o y)[1] = x[1]
    BY <2>3, <2>4, FirstStays
  <2>6. QED
    BY <2>1, <2>2, <2>3, <2>4, <2>5
<1> HIDE DEF G
<1>7. n \in G
  BY <1>5, <1>6, UpToLast
<1>8. QED
  BY <1>1, <1>2, <1>7 DEF G

RefersToNothing(text) == \A p \in ToSet(text) : p[1] = "var" /\ Getenv(p[2]) = <<>>

(* A text of references to what is empty or not set is empty. *)
LEMMA ExpandEmpty ==
  ASSUME NEW text \in Text, RefersToNothing(text)
  PROVE  Expand(text) = <<>>
<1>1. CASE text = <<>>
  BY <1>1, ExpandNothing
<1>2. CASE text # <<>>
  <2>1. PICK g : /\ Expand(text) = g[Len(text)] /\ g[1] = InPlaceOf(text[1])
                 /\ \A i \in 2..Len(text) : g[i] = g[i - 1] \o InPlaceOf(text[i])
    BY <1>2, ExpandSteps
  <2>2. PICK n \in Nat \ {0} : n = Len(text)
    BY <1>2, ExpandSteps
  <2>3. \A i \in 1..n : text[i] \in ToSet(text)
    BY <2>2 DEF ToSet, Text
  <2>4. \A i \in 1..n : InPlaceOf(text[i]) = <<>>
    BY <2>3 DEF InPlaceOf, RefersToNothing
  <2> DEFINE G == {i \in 1..n : g[i] = <<>>}
  <2>5. 1 \in G
    BY <2>1, <2>4
  <2>6. ASSUME NEW i \in 2..n, i - 1 \in G PROVE i \in G
    <3>1. i \in 2..Len(text) /\ i \in 1..n /\ g[i - 1] = <<>>
      BY <2>2, <2>6
    <3>2. g[i] = g[i - 1] \o InPlaceOf(text[i]) /\ InPlaceOf(text[i]) = <<>>
      BY <2>1, <2>4, <3>1
    <3>3. g[i] = <<>> \o <<>>
      BY <3>1, <3>2
    <3>4. QED
      BY <3>1, <3>3
  <2> HIDE DEF G
  <2>7. n \in G
    BY <2>5, <2>6, UpToLast
  <2>8. QED
    BY <2>1, <2>2, <2>7 DEF G
<1>3. QED
  BY <1>1, <1>2
-----------------------------------------------------------------------------
(* FromConfig *)

LEMMA SectionsCoverFields ==
  /\ Fields = UNION {Section[s] : s \in DOMAIN Section}
  /\ DOMAIN Section = {"geoserver", "datastore", "source"}
BY DEF Fields, FieldOrder, Section, Port, ToSet

LEMMA HeadAndTail ==
  ASSUME NEW S, NEW q \in Seq(S), q # <<>>
  PROVE  /\ Head(q) \in S /\ Head(q) = q[1] /\ Tail(q) \in Seq(S)
         /\ \A i \in DOMAIN q :
              i = 1 \/ (i - 1 \in DOMAIN Tail(q) /\ Tail(q)[i - 1] = q[i])
<1>1. /\ q[1] \in S /\ Head(q) = q[1] /\ Tail(q) \in Seq(S)
      /\ Len(q) \in Nat /\ DOMAIN q = 1..Len(q) /\ Len(Tail(q)) = Len(q) - 1
  OBVIOUS
<1>2. DOMAIN Tail(q) = 1..(Len(q) - 1) /\ \A i \in 1..(Len(q) - 1) : Tail(q)[i] = q[i + 1]
  BY <1>1
<1>3. QED
  BY <1>1, <1>2

(* Each option FromConfig gives takes over its part and leaves the rest. *)
LEMMA OptionApplied ==
  ASSUME ConfigInv, ApplyOption
  PROVE  ManagerShape' /\ OptionsInv'
<1>1. /\ OptionsInv /\ ManagerShape
      /\ todo # <<>> /\ todo' = Tail(todo) /\ m' = Apply(m, Head(todo))
      /\ decoded' = decoded
  BY DEF ConfigInv, ApplyOption
<1> DEFINE first == Head(todo)
<1>2. /\ first \in OptionFor(decoded)
      /\ todo' \in Seq(OptionFor(decoded))
      /\ first = todo[1]
      /\ \A i \in DOMAIN todo : i = 1 \/ (i - 1 \in DOMAIN todo' /\ todo'[i - 1] = todo[i])
  BY <1>1, HeadAndTail DEF OptionsInv
<1>3. /\ first.arg.text = decoded /\ first.arg.logger = "default"
      /\ first.part \in {"logger", "geoserver", "datastore", "source"}
  BY <1>2 DEF OptionFor, ConfigOf, ZeroManager
<1>4. \A s \in DOMAIN Section : Ahead(s) /\ s # first.part => Ahead(s)'
  BY <1>2 DEF Ahead
<1>5. CASE first.part = "logger"
  <2>1. m' = WithLogger(m, "default")
    BY <1>1, <1>3, <1>5, SectionsCoverFields DEF Apply
  <2>2. ManagerShape' /\ m'.logger = "default" /\ m'.text = m.text
    BY <1>1, <2>1 DEF WithLogger, ManagerShape
  <2>3. QED
    BY <1>1, <1>2, <1>4, <1>5, <2>2, SectionsCoverFields DEF OptionsInv
<1>6. CASE first.part \in DOMAIN Section
  <2>1. m' = WithSection(m, first.part, decoded)
    BY <1>1, <1>3, <1>6, SectionsCoverFields DEF Apply
  <2>2. /\ ManagerShape' /\ m'.logger = "default"
        /\ \A f \in Fields :
             m'.text[f] = IF f \in Section[first.part] THEN decoded[f] ELSE m.text[f]
    BY <1>1, <2>1 DEF WithSection, ManagerShape, OptionsInv
  <2>3. \A s \in DOMAIN Section :
          Ahead(s)' \/ \A f \in Section[s] : m'.text[f] = decoded'[f]
    BY <1>1, <1>4, <2>2, SectionsCoverFields DEF OptionsInv
  <2>4. QED
    BY <1>1, <1>2, <2>2, <2>3 DEF OptionsInv
<1>7. QED
  BY <1>3, <1>5, <1>6, SectionsCoverFields

LEMMA NewStarted ==
  ASSUME ConfigInv, StartNew("new", OptionsOf(decoded))
  PROVE  ManagerShape' /\ OptionsInv'
<1>1. /\ m' = [ZeroManager EXCEPT !.logger = "default"]
      /\ todo' = OptionsOf(decoded) /\ decoded' = decoded
  BY DEF StartNew, ConfigInv
<1>2. ManagerShape' /\ m'.logger = "default"
  BY <1>1 DEF ManagerShape, ZeroManager
<1>3. todo' \in Seq(OptionFor(decoded))
  BY <1>1 DEF OptionsOf, OptionFor, ConfigOf
<1>4. todo'[2].part = "geoserver" /\ todo'[3].part = "datastore" /\ todo'[4].part = "source"
      /\ DOMAIN todo' = 1..4
  BY <1>1 DEF OptionsOf
<1>5. \A s \in DOMAIN Section : Ahead(s)'
  BY <1>4, SectionsCoverFields DEF Ahead
<1>6. QED
  BY <1>1, <1>2, <1>3, <1>5 DEF OptionsInv

LEMMA FromConfigStep ==
  ASSUME ConfigInv, FromConfig
  PROVE  ConfigInv'
<1>1. CASE StartFromConfig
  BY <1>1 DEF StartFromConfig, ConfigInv, ManagerShape
<1>2. CASE ReadFile
  BY <1>2 DEF ReadFile, ConfigInv, ManagerShape
<1>3. CASE ReadFails
  BY <1>3 DEF ReadFails, ConfigFails, ConfigInv, ManagerShape
<1>4. CASE Unmarshal
  BY <1>4 DEF Unmarshal, ConfigInv, ManagerShape
<1>5. CASE UnmarshalFails
  BY <1>5 DEF UnmarshalFails, ConfigFails, ConfigInv, ManagerShape
<1>6. CASE ExpandEnv
  <2>1. phase' = "new" /\ decoded' = Expanded(yamlFile.text)' /\ m' = m
    BY <1>6 DEF ExpandEnv, ConfigInv, Expanded, Expand, Getenv
  <2>2. QED
    BY <2>1 DEF ConfigInv, ManagerShape
<1>7. CASE StartNew("new", OptionsOf(decoded))
  <2>1. phase' = "options" /\ decoded' = Expanded(yamlFile.text)'
    BY <1>7 DEF StartNew, ConfigInv, Expanded, Expand, Getenv
  <2>2. QED
    BY <1>7, <2>1, NewStarted DEF ConfigInv
<1>8. CASE ApplyOption
  <2>1. phase' = "options" /\ decoded' = Expanded(yamlFile.text)'
    BY <1>8 DEF ApplyOption, ConfigInv, Expanded, Expand, Getenv
  <2>2. QED
    BY <1>8, <2>1, OptionApplied DEF ConfigInv
<1>9. CASE NewReturns("validate")
  <2>1. phase' = "validate" /\ decoded' = Expanded(yamlFile.text)' /\ ManagerShape'
    BY <1>9 DEF NewReturns, ConfigInv, Expanded, Expand, Getenv, ManagerShape
  <2>2. Built
    BY <1>9, SectionsCoverFields DEF NewReturns, ConfigInv, OptionsInv, Ahead, Built
  <2>3. Built'
    BY <1>9, <2>2 DEF NewReturns, Built
  <2>4. QED
    BY <2>1, <2>3 DEF ConfigInv
<1>10. CASE Validate
  <2>1. phase' = "done" /\ decoded' = Expanded(yamlFile.text)' /\ ManagerShape'
    BY <1>10 DEF Validate, ConfigInv, Expanded, Expand, Getenv, ManagerShape
  <2>2. Built' /\ IsWhole(m)'
    BY <1>10 DEF Validate, ConfigInv, Built, IsWhole
  <2>3. QED
    BY <2>1, <2>2 DEF ConfigInv
<1>11. CASE ValidateFails
  BY <1>11 DEF ValidateFails, ConfigFails, ConfigInv, ManagerShape
<1>12. QED
  BY <1>1, <1>2, <1>3, <1>4, <1>5, <1>6, <1>7, <1>8, <1>9, <1>10, <1>11 DEF FromConfig
-----------------------------------------------------------------------------
(* The program *)

LEMMA ProgramInit == Init => ProgramInv
<1>1. SUFFICES ASSUME Init PROVE ProgramInv
  OBVIOUS
<1>2. prog \in {"gismanager", "layerSchema", "library"}
  BY <1>1 DEF Init
<1>3. phase = "idle" /\ ManagerShape
  BY <1>1 DEF Init, ConfigInit, ManagerShape, ZeroManager
<1>4. ~WorkBegun /\ pc \in {"args", "config"}
  BY <1>1 DEF Init, WalkInit, Contract!Init, WorkBegun
<1>5. QED
  BY <1>2, <1>3, <1>4 DEF ProgramInv, ConfigInv

(* A step that leaves Config and the work alone. *)
LEMMA BesideTheWork ==
  ASSUME UNCHANGED <<phase, yamlFile, decoded, environ, todo, m>>
  PROVE  (ConfigInv' <=> ConfigInv) /\ (Configured' <=> Configured)
BY DEF ConfigInv, Configured, ManagerShape, OptionsInv, Ahead, Built, IsWhole,
       Expanded, Expand, Getenv

LEMMA WorkUnchanged ==
  ASSUME UNCHANGED <<walkVars, contractVars>>
  PROVE  WorkBegun' <=> WorkBegun
BY DEF walkVars, contractVars, WorkBegun

LEMMA ProgramStep ==
  ASSUME ProgramInv, [Next]_vars
  PROVE  ProgramInv'
<1> USE DEF ProgramInv, IsCommand
<1>1. CASE RejectArgs
  BY <1>1, BesideTheWork, WorkUnchanged DEF RejectArgs, ReturnFromRun, Goto, configLocals
<1>2. CASE PrintVersion
  BY <1>2, BesideTheWork, WorkUnchanged DEF PrintVersion, ReturnFromRun, Goto, configLocals
<1>3. CASE AcceptArgs
  BY <1>3, BesideTheWork, WorkUnchanged DEF AcceptArgs, Goto, configVars, configLocals
<1>4. CASE StatConfig
  BY <1>4, BesideTheWork, WorkUnchanged DEF StatConfig, ReturnFromRun, Goto, configLocals
<1>5. CASE Configure
  <2>1. pc = "config" /\ prog' = prog /\ pc' = pc /\ ~WorkBegun'
    BY <1>5, WorkUnchanged DEF Configure, runVars
  <2>2. IsCommand => ConfigInv'
    BY <1>5, <2>1, FromConfigStep DEF Configure
  <2>3. QED
    BY <2>1, <2>2
<1>6. CASE ConfigDone
  <2>1. /\ pc = "config" /\ prog' = prog /\ ~WorkBegun'
        /\ pc' \in {"return", "publish", "list"}
        /\ pc' # "return" => IsCommand /\ phase = "done"
    BY <1>6, WorkUnchanged DEF ConfigDone, Goto
  <2>2. pc' # "return" => Configured
    BY <2>1 DEF ConfigInv, Configured
  <2>3. QED
    BY <1>6, <2>1, <2>2, BesideTheWork DEF ConfigDone, configVars, configLocals
<1>7. CASE PublishAll
  BY <1>7, BesideTheWork DEF PublishAll, configVars, configLocals, runVars
<1>8. CASE PublishDone
  BY <1>8, BesideTheWork, WorkUnchanged DEF PublishDone, ReturnFromRun, Goto, configLocals
<1>9. CASE WalkOn
  BY <1>9, BesideTheWork DEF WalkOn, configVars, configLocals, runVars
<1>10. CASE ListLayer
  BY <1>10, BesideTheWork DEF ListLayer, configVars, configLocals, runVars
<1>11. CASE PrintFails
  BY <1>11, BesideTheWork DEF PrintFails, configVars, configLocals, runVars
<1>12. CASE LogWalkErr
  BY <1>12, BesideTheWork DEF LogWalkErr, configVars, configLocals, runVars
<1>13. CASE WalkDone
  BY <1>13, BesideTheWork, WorkUnchanged DEF WalkDone, Goto, configVars, configLocals
<1>14. CASE Encode
  BY <1>14, BesideTheWork, WorkUnchanged DEF Encode, Goto, configVars, configLocals
<1>15. CASE EncodeFails
  BY <1>15, BesideTheWork, WorkUnchanged DEF EncodeFails, ReturnFromRun, Goto, configLocals
<1>16. CASE Exit
  BY <1>16, BesideTheWork, WorkUnchanged DEF Exit, Goto, configVars, configLocals
<1>17. CASE Environment
  <2>1. UNCHANGED <<phase, yamlFile, decoded, environ, todo, m, walkVars, contractVars, runVars>>
    BY <1>17 DEF Environment, Cancel, FileVanishes, configVars, configLocals
  <2>2. QED
    BY <2>1, BesideTheWork, WorkUnchanged DEF runVars
<1>18. CASE UNCHANGED vars
  BY <1>18, BesideTheWork, WorkUnchanged DEF vars, configVars, configLocals, runVars
<1>19. QED
  BY <1>1, <1>2, <1>3, <1>4, <1>5, <1>6, <1>7, <1>8, <1>9, <1>10, <1>11, <1>12,
     <1>13, <1>14, <1>15, <1>16, <1>17, <1>18 DEF Next, Finished

(* Whatever the documents, the environment and the layers are, no command   *)
(* touches a source, PostGIS or GeoServer before it has every field of the  *)
(* file it has read, expanded once, and a logger (utils.go:30-61).          *)
THEOREM WorkIsConfigured == Spec => []WorkNeedsConfiguration
<1>1. ProgramInv => WorkNeedsConfiguration
  BY DEF ProgramInv, Configured, Built, WorkNeedsConfiguration
<1>2. QED
  BY <1>1, ProgramInit, ProgramStep, PTL DEF Spec
-----------------------------------------------------------------------------
(* New *)

(* The parts an option can replace, and that m has one of them from v. *)
Replaceable == DOMAIN Section \cup {"logger", "concurrency"}

TakenFrom(part, v) ==
  /\ part \in DOMAIN Section => \A f \in Section[part] : m.text[f] = v.text[f]
  /\ part = "logger" => m.logger = IF v.logger = "custom" THEN "custom" ELSE "default"
  /\ part = "concurrency" =>
       m.publishConcurrency = IF v.publishConcurrency > 0 THEN v.publishConcurrency ELSE 0

(* Of the first n options, the i-th is the last for this part. *)
LastOf(i, n, part) ==
  /\ i \in 1..n /\ given[i].part = part
  /\ \A j \in (i + 1)..n : given[j].part # part

NoneOf(n, part) == \A i \in 1..n : given[i].part # part

Applied == Len(given) - Len(todo)

(* The options that have been applied, from left to right. *)
GivenInv ==
  /\ given \in Seq(ToSet(given)) /\ todo \in Seq(ToSet(given))
  /\ \A i \in DOMAIN given :
       given[i].arg.logger \in Loggers /\ given[i].arg.publishConcurrency \in Int
  /\ Len(todo) <= Len(given)
  /\ \A j \in DOMAIN todo : todo[j] = given[Applied + j]

AppliedInv ==
  \A part \in Replaceable :
    \/ NoneOf(Applied, part) /\ TakenFrom(part, ZeroManager)
    \/ \E i \in 1..Applied : LastOf(i, Applied, part) /\ TakenFrom(part, given[i].arg)

NewInv ==
  phase \in {"options", "validate", "done"} =>
    /\ ManagerShape /\ GivenInv /\ AppliedInv
    /\ phase # "options" => todo = <<>>

LEMMA SectionsApart ==
  /\ \A s, t \in DOMAIN Section : s # t => Section[s] \cap Section[t] = {}
  /\ \A s \in DOMAIN Section : Section[s] \subseteq Fields
  /\ DOMAIN Section \cap {"logger", "concurrency", "nil"} = {}
BY DEF Section, Port, Fields, FieldOrder, ToSet

(* An option gives its part and leaves every other as it was. *)
LEMMA ApplyTakes ==
  ASSUME ManagerShape, NEW o, m' = Apply(m, o),
         o.arg.logger \in Loggers, o.arg.publishConcurrency \in Int
  PROVE  /\ ManagerShape'
         /\ o.part \in Replaceable => TakenFrom(o.part, o.arg)'
         /\ \A part \in Replaceable \ {o.part} : \A v : TakenFrom(part, v) => TakenFrom(part, v)'
<1> USE DEF ManagerShape, Replaceable
<1>1. CASE o.part = "logger"
  <2>1. m' = WithLogger(m, o.arg.logger)
    BY <1>1, SectionsCoverFields DEF Apply
  <2>2. /\ m'.text = m.text /\ m'.publishConcurrency = m.publishConcurrency /\ ManagerShape'
        /\ m'.logger = IF o.arg.logger = "nil" THEN "default" ELSE o.arg.logger
    BY <2>1 DEF WithLogger
  <2>3. QED
    BY <1>1, <2>2, SectionsApart DEF TakenFrom, Loggers
<1>2. CASE o.part \in DOMAIN Section
  <2>1. m' = WithSection(m, o.part, o.arg.text)
    BY <1>2, SectionsApart DEF Apply
  <2>2. /\ m'.logger = m.logger /\ m'.publishConcurrency = m.publishConcurrency /\ ManagerShape'
        /\ \A f \in Fields :
             m'.text[f] = IF f \in Section[o.part] THEN o.arg.text[f] ELSE m.text[f]
    BY <2>1 DEF WithSection
  <2>3. QED
    BY <1>2, <2>2, SectionsApart DEF TakenFrom
<1>3. CASE o.part = "concurrency"
  <2>1. m' = WithPublishConcurrency(m, o.arg.publishConcurrency)
    BY <1>3, SectionsApart DEF Apply
  <2>2. /\ m'.text = m.text /\ m'.logger = m.logger /\ ManagerShape'
        /\ m'.publishConcurrency =
             IF o.arg.publishConcurrency <= 0 THEN 0 ELSE o.arg.publishConcurrency
    BY <2>1 DEF WithPublishConcurrency
  <2>3. QED
    BY <1>3, <2>2, SectionsApart DEF TakenFrom
<1>4. CASE o.part \notin Replaceable
  <2>1. m' = m
    BY <1>4, SectionsApart DEF Apply
  <2>2. QED
    BY <1>4, <2>1 DEF TakenFrom
<1>5. QED
  BY <1>1, <1>2, <1>3, <1>4

LEMMA NewApplies ==
  ASSUME NewInv, ApplyOption
  PROVE  NewInv'
<1>1. /\ phase = "options" /\ phase' = "options" /\ todo # <<>>
      /\ m' = Apply(m, Head(todo)) /\ todo' = Tail(todo) /\ given' = given
      /\ ManagerShape /\ GivenInv /\ AppliedInv
  BY DEF NewInv, ApplyOption
<1>2. PICK n : n = Applied
  OBVIOUS
<1>3. /\ Len(todo) \in Nat \ {0} /\ Len(given) \in Nat /\ n \in Nat
      /\ DOMAIN todo = 1..Len(todo) /\ DOMAIN given = 1..Len(given)
      /\ Len(todo') = Len(todo) - 1 /\ todo' \in Seq(ToSet(given))
      /\ DOMAIN todo' = 1..(Len(todo) - 1)
      /\ \A j \in DOMAIN todo' : todo'[j] = todo[j + 1]
      /\ Head(todo) = todo[1]
  BY <1>1, <1>2 DEF GivenInv, Applied
<1>4. /\ Applied' = n + 1 /\ n + 1 \in DOMAIN given /\ Head(todo) = given[n + 1]
  <2>1. n = Len(given) - Len(todo) /\ Applied' = Len(given) - Len(todo')
    BY <1>1, <1>2 DEF Applied
  <2>2. 1 \in DOMAIN todo /\ todo[1] = given[n + 1]
    BY <1>1, <1>2, <1>3 DEF GivenInv
  <2>3. QED
    BY <1>3, <2>1, <2>2
<1>5. GivenInv'
  <2>1. \A j \in DOMAIN todo' : todo'[j] = given[(n + 1) + j]
    BY <1>1, <1>2, <1>3, SMTT(30) DEF GivenInv
  <2>2. Len(todo') <= Len(given)
    BY <1>1, <1>3 DEF GivenInv
  <2>3. QED
    BY <1>1, <1>3, <1>4, <2>1, <2>2 DEF GivenInv
<1>6. PICK o : o = given[n + 1]
  OBVIOUS
<1>7. /\ ManagerShape'
      /\ o.part \in Replaceable => TakenFrom(o.part, o.arg)'
      /\ \A part \in Replaceable \ {o.part} : \A v : TakenFrom(part, v) => TakenFrom(part, v)'
  BY <1>1, <1>4, <1>6, ApplyTakes DEF GivenInv
<1>8. AppliedInv'
  <2>1. SUFFICES ASSUME NEW part \in Replaceable
                 PROVE  \/ NoneOf(n + 1, part)' /\ TakenFrom(part, ZeroManager)'
                        \/ \E i \in 1..(n + 1) :
                             LastOf(i, n + 1, part)' /\ TakenFrom(part, given[i].arg)'
    BY <1>1, <1>4 DEF AppliedInv, NoneOf, LastOf, TakenFrom
  <2>2. CASE part = o.part
    BY <1>1, <1>3, <1>6, <1>7, <2>2 DEF LastOf
  <2>3. CASE part # o.part /\ NoneOf(n, part) /\ TakenFrom(part, ZeroManager)
    BY <1>1, <1>3, <1>6, <1>7, <2>3 DEF NoneOf
  <2>4. ASSUME part # o.part, NEW i \in 1..n, LastOf(i, n, part), TakenFrom(part, given[i].arg)
        PROVE  LastOf(i, n + 1, part)' /\ TakenFrom(part, given[i].arg)' /\ i \in 1..(n + 1)
    BY <1>1, <1>3, <1>6, <1>7, <2>4 DEF LastOf
  <2>5. QED
    BY <1>1, <1>2, <2>2, <2>3, <2>4 DEF AppliedInv
<1>9. QED
  BY <1>1, <1>5, <1>7, <1>8 DEF NewInv

(* New begins with nothing applied. *)
LEMMA NewBegins ==
  ASSUME NEW from, NEW options, StartNew(from, options),
         options \in Seq(ToSet(options)),
         \A i \in DOMAIN options :
           options[i].arg.logger \in Loggers /\ options[i].arg.publishConcurrency \in Int
  PROVE  NewInv'
<1>1. /\ m' = [ZeroManager EXCEPT !.logger = "default"]
      /\ given' = options /\ todo' = options /\ phase' = "options"
  BY DEF StartNew
<1>2. /\ m'.text = EmptyText /\ m'.logger = "default" /\ m'.publishConcurrency = 0
      /\ ManagerShape'
  BY <1>1 DEF ZeroManager, ManagerShape
<1>3. Applied' = 0 /\ GivenInv'
  BY <1>1 DEF Applied, GivenInv
<1>4. AppliedInv'
  <2>1. \A part : TakenFrom(part, ZeroManager)'
    BY <1>2, SectionsApart DEF TakenFrom, ZeroManager
  <2>2. QED
    BY <1>3, <2>1 DEF AppliedInv, NoneOf
<1>5. QED
  BY <1>1, <1>2, <1>3, <1>4 DEF NewInv

LEMMA SeqOfItself ==
  ASSUME NEW S, NEW q \in Seq(S)
  PROVE  q \in Seq(ToSet(q))
BY DEF ToSet

LEMMA OptionsTyped ==
  /\ \A t : LET options == OptionsOf(t)
            IN /\ options \in Seq(ToSet(options))
               /\ \A i \in DOMAIN options :
                    options[i].arg.logger \in Loggers /\ options[i].arg.publishConcurrency \in Int
  /\ \A options \in OptionLists :
       /\ options \in Seq(ToSet(options))
       /\ \A i \in DOMAIN options :
            options[i].arg.logger \in Loggers /\ options[i].arg.publishConcurrency \in Int
<1>1. ASSUME NEW t
      PROVE  /\ OptionsOf(t) \in Seq(ToSet(OptionsOf(t)))
             /\ \A i \in DOMAIN OptionsOf(t) :
                  /\ OptionsOf(t)[i].arg.logger \in Loggers
                  /\ OptionsOf(t)[i].arg.publishConcurrency \in Int
  BY DEF OptionsOf, ToSet, Loggers, ZeroManager
<1>2. ASSUME NEW options \in OptionLists
      PROVE  /\ options \in Seq(ToSet(options))
             /\ \A i \in DOMAIN options :
                  options[i].arg.logger \in Loggers /\ options[i].arg.publishConcurrency \in Int
  <2>1. options \in Seq([part : Parts, arg : {options[i].arg : i \in DOMAIN options}])
    BY <1>2, ConfigAssumption
  <2>2. options \in Seq(ToSet(options))
    BY <2>1, SeqOfItself
  <2>3. QED
    BY <1>2, <2>2, ConfigAssumption DEF IsManager
<1>3. QED
  BY <1>1, <1>2

(* The steps after which m is as it was. *)
LEMMA NewStays ==
  ASSUME NewInv, UNCHANGED <<given, todo, m>>,
         phase' \in {"options", "validate", "done"} =>
           /\ phase \in {"options", "validate", "done"}
           /\ phase' = phase \/ todo = <<>>
  PROVE  NewInv'
BY DEF NewInv, ManagerShape, GivenInv, AppliedInv, Applied, NoneOf, LastOf, TakenFrom

LEMMA NewStep == NewInv /\ [Next]_vars => NewInv'
<1>1. SUFFICES ASSUME NewInv, [Next]_vars PROVE NewInv'
  OBVIOUS
<1>2. ASSUME NEW from, NEW options, StartNew(from, options), options \in OptionLists
      PROVE NewInv'
  BY <1>2, OptionsTyped, NewBegins
<1>3. CASE StartNew("new", OptionsOf(decoded))
  BY <1>3, OptionsTyped, NewBegins
<1>4. CASE ApplyOption
  BY <1>1, <1>4, NewApplies
<1>5. CASE NewReturns("validate") \/ NewReturns("done") \/ Validate
  BY <1>1, <1>5, NewStays DEF NewReturns, Validate, NewInv
<1>6. CASE \E cause : ConfigFails(cause)
  BY <1>1, <1>6, NewStays DEF ConfigFails
<1>7. CASE StartFromConfig \/ ReadFile \/ Unmarshal \/ ExpandEnv
  BY <1>1, <1>7, NewStays DEF StartFromConfig, ReadFile, Unmarshal, ExpandEnv
<1>8. CASE UNCHANGED <<given, todo, m, phase>>
  BY <1>1, <1>8, NewStays DEF NewInv
<1>9. Configure \/ UNCHANGED <<given, todo, m, phase>>
  BY <1>1 DEF Next, vars, configVars, configLocals, RejectArgs, PrintVersion, AcceptArgs,
     StatConfig, ConfigDone, PublishAll, PublishDone, WalkOn, ListLayer, PrintFails,
     LogWalkErr, WalkDone, Encode, EncodeFails, Exit, Environment, Cancel, FileVanishes, Finished
<1>10. QED
  BY <1>2, <1>3, <1>4, <1>5, <1>6, <1>7, <1>8, <1>9
     DEF Configure, FromConfig, NewByHand, ReadFails, UnmarshalFails, ValidateFails

LEMMA NewInitially == Init => NewInv
BY DEF Init, ConfigInit, NewInv

(* The place of the last option for a part, or 0. *)
LastFor(part) ==
  LET places == {i \in 1..Len(given) : given[i].part = part}
  IN IF places # {} THEN Max(places) ELSE 0

LEMMA LastIsSelected ==
  ASSUME NEW part, Len(given) \in Nat
  PROVE  /\ NoneOf(Len(given), part) => LastFor(part) = 0
         /\ \A i : LastOf(i, Len(given), part) => LastFor(part) = i /\ i # 0
<1> DEFINE places == {i \in 1..Len(given) : given[i].part = part}
<1>1. ASSUME NEW i, LastOf(i, Len(given), part)
      PROVE  places # {} /\ Max(places) = i
  <2>1. i \in places /\ \A j \in places : i >= j /\ i \in Nat /\ j \in Nat
    BY <1>1 DEF LastOf
  <2>2. QED
    BY <2>1 DEF Max
<1>2. QED
  BY <1>1 DEF LastFor, NoneOf, LastOf

(* Whatever options New is given, each part of the Manager is what the last *)
(* option for it says (options.go:9-10, 20-21, 51-54, 72-74).               *)
THEOREM LastOptionIsKept == Spec => []LastOptionWins
<1>1. ASSUME NewInv PROVE LastOptionWins
  <2> DEFINE value(part) == IF LastFor(part) = 0 THEN ZeroManager ELSE given[LastFor(part)].arg
  <2>1. SUFFICES ASSUME phase \in {"validate", "done"}
                 PROVE  \A part \in Replaceable : TakenFrom(part, value(part))
    BY ZenonT(60) DEF LastOptionWins, SelectLastInSeq, LastFor, TakenFrom, Replaceable
  <2>2. /\ GivenInv /\ AppliedInv /\ todo = <<>> /\ Len(given) \in Nat
        /\ Applied = Len(given)
    BY <1>1, <2>1 DEF NewInv, GivenInv, Applied
  <2>3. ASSUME NEW part \in Replaceable PROVE TakenFrom(part, value(part))
    <3>1. CASE NoneOf(Len(given), part) /\ TakenFrom(part, ZeroManager)
      BY <2>2, <3>1, LastIsSelected
    <3>2. ASSUME NEW i \in 1..Len(given), LastOf(i, Len(given), part),
                 TakenFrom(part, given[i].arg)
          PROVE  TakenFrom(part, value(part))
      <4>1. LastFor(part) = i /\ i # 0
        BY <2>2, <3>2, LastIsSelected
      <4>2. value(part) = given[i].arg
        BY <3>2, <4>1
      <4>3. QED
        BY <3>2, <4>2
    <3>3. QED
      BY <2>2, <3>1, <3>2 DEF AppliedInv
  <2>4. QED
    BY <2>3
<1>2. QED
  BY <1>1, NewInitially, NewStep, PTL DEF Spec
-----------------------------------------------------------------------------
(* The exit status *)

(* What layerSchema has listed: in order, behind the iterator and, unless   *)
(* something outside has failed, all there is behind it.                    *)
ListedInv ==
  /\ listed \in Seq(Layers)
  /\ \A j, k \in DOMAIN listed : j < k => Before(listed[j], listed[k])
  /\ \A k \in DOMAIN listed : Before(listed[k], Current)
  /\ canceled \/ at \in YieldErrors => trouble
  /\ ~trouble =>
       /\ \A l \in Layers : Before(l, Current) => l \in ToSet(listed)
       /\ at = "done" => \A l \in Layers : Before(l, Current)

(* Which command has got where, and what it has written by then. *)
PlaceInv ==
  /\ at # "discover" => prog = "layerSchema"
  /\ result # "running" \/ (\E l \in Layers : status[l] # "pending") => prog = "gismanager"
  /\ result = "nil" => \A l \in Layers : status[l] = "published"
  /\ pc = "publish" => prog = "gismanager"
  /\ pc \in {"list", "encode"} => prog = "layerSchema"
  /\ pc = "encode" => JSON /\ at = "done"
  /\ pc \in {"args", "stat", "config", "publish", "list", "encode"} =>
       stdout = "none" /\ exit = "none"
  /\ stdout = "whole" => JSON

IsVersion(e) == ErrorsIs(e, ErrVersionRequested)

Succeeded ==
  \/ prog = "gismanager" /\ result = "nil"
  \/ prog = "layerSchema" /\ at = "done" /\ (JSON <=> stdout = "whole")

Failed ==
  \/ ~WorkBegun
  \/ prog = "gismanager" /\ result # "nil"
  \/ JSON /\ stdout # "whole"

(* What run returns, and what its error is for. *)
RunInv ==
  /\ pc \notin {"return", "exited"} =>
       IF phase = "failed" THEN pc = "config" /\ err # Nil /\ ~IsVersion(err) ELSE err = Nil
  /\ pc \in {"return", "exited"} /\ IsCommand =>
       \/ err = Nil /\ Succeeded
       \/ err # Nil /\ IsVersion(err) /\ WantsVersion /\ ~WorkBegun
       \/ err # Nil /\ ~IsVersion(err) /\ Failed
  /\ exit # "none" =>
       /\ pc = "exited" /\ IsCommand
       /\ exit = IF err = Nil \/ IsVersion(err) THEN "0" ELSE "1"

OutcomeInv == WalkInv /\ CtxTypeOK /\ ListedInv /\ PlaceInv /\ RunInv

LEMMA ChainOfTwo ==
  ASSUME NEW a, NEW b
  PROVE  LET chain == <<a>> \o <<b>>
         IN chain # <<>> /\ DOMAIN chain = {1, 2} /\ chain[1] = a /\ chain[2] = b
<1>1. <<a>> \in Seq({a, b}) /\ <<b>> \in Seq({a, b})
  OBVIOUS
<1>2. /\ <<a>> \o <<b>> \in Seq({a, b}) /\ Len(<<a>> \o <<b>>) = 2
      /\ (<<a>> \o <<b>>)[1] = a /\ (<<a>> \o <<b>>)[2] = b
  BY <1>1
<1>3. QED
  BY <1>2

LEMMA NoVersion ==
  /\ IsVersion(ErrorsNew(ErrVersionRequested)) /\ ErrorsNew(ErrVersionRequested) # Nil
  /\ ~IsVersion(Nil)
  /\ \A n : n # "version requested" =>
       ErrorsNew(<<n>>) # Nil /\ ~IsVersion(ErrorsNew(<<n>>))
  /\ \A names : names # ErrVersionRequested =>
       /\ NewGISError(ErrConfigInvalid, ErrorsNew(names)) # Nil
       /\ ~IsVersion(NewGISError(ErrConfigInvalid, ErrorsNew(names)))
<1>1. \A n : n # "version requested" => <<n>> # ErrVersionRequested
  BY DEF ErrVersionRequested
<1>2. ErrConfigInvalid # ErrVersionRequested
  BY <1>1 DEF ErrConfigInvalid
<1>3. \A x : <<x>> # Nil /\ (IsVersion(<<x>>) <=> x = ErrVersionRequested)
  BY DEF Nil, IsVersion, ErrorsIs
<1>4. ~IsVersion(Nil)
  BY DEF Nil, IsVersion, ErrorsIs
<1>5. ASSUME NEW names, names # ErrVersionRequested
      PROVE  /\ NewGISError(ErrConfigInvalid, ErrorsNew(names)) # Nil
             /\ ~IsVersion(NewGISError(ErrConfigInvalid, ErrorsNew(names)))
  BY <1>2, <1>5, ChainOfTwo DEF NewGISError, ErrorsNew, Nil, IsVersion, ErrorsIs
<1>6. ASSUME NEW n, n # "version requested"
      PROVE  ErrorsNew(<<n>>) # Nil /\ ~IsVersion(ErrorsNew(<<n>>))
  <2>1. <<n>> # ErrVersionRequested
    BY <1>1, <1>6
  <2>2. QED
    BY <1>3, <2>1 DEF ErrorsNew
<1>7. IsVersion(ErrorsNew(ErrVersionRequested)) /\ ErrorsNew(ErrVersionRequested) # Nil
  BY <1>3 DEF ErrorsNew
<1>8. QED
  BY <1>4, <1>5, <1>6, <1>7

LEMMA ProblemsAreNoVersion == Problems(m) # ErrVersionRequested
<1>1. SUFFICES ASSUME Problems(m) = ErrVersionRequested PROVE FALSE
  OBVIOUS
<1>2. DOMAIN ErrVersionRequested = {1} /\ ErrVersionRequested[1] = "version requested"
  BY DEF ErrVersionRequested
<1>3. \A i \in DOMAIN Problems(m) : Problems(m)[i] = FieldOrder[i]
  BY DEF Problems, RestrictValues, Restrict
<1>4. FieldOrder[1] = "version requested"
  BY <1>1, <1>2, <1>3
<1>5. QED
  BY <1>4 DEF FieldOrder

LEMMA OutcomeInit == Init => OutcomeInv
<1>1. SUFFICES ASSUME Init PROVE OutcomeInv
  OBVIOUS
<1>2. /\ canceled = FALSE /\ trouble = FALSE /\ at = "discover" /\ file = 1 /\ layer = 1
      /\ open = {} /\ listed = <<>> /\ stdout = "none" /\ exit = "none"
      /\ pc \in {"args", "config"} /\ phase = "idle" /\ err = Nil
      /\ result = "running" /\ status = [l \in Layers |-> "pending"]
  BY <1>1 DEF Init, WalkInit, ConfigInit, Contract!Init
<1>3. WalkInv /\ CtxTypeOK
  <2>1. WalkTypeOK
    BY <1>2, LayerCounts DEF WalkTypeOK
  <2>2. CtxTypeOK
    BY <1>2 DEF CtxTypeOK
  <2>3. QED
    BY <1>2, <2>1, <2>2 DEF WalkInv
<1>4. ListedInv
  <2>1. DOMAIN listed = {} /\ listed \in Seq(Layers)
    BY <1>2
  <2>2. \A l \in Layers : ~Before(l, Current)
    BY <1>2, LayersMembers, LayersArePairs, LayerCounts DEF Before, Current
  <2>3. QED
    BY <1>2, <2>1, <2>2 DEF ListedInv, YieldErrors
<1>5. PlaceInv /\ RunInv
  BY <1>2 DEF PlaceInv, RunInv
<1>6. QED
  BY <1>3, <1>4, <1>5 DEF OutcomeInv

(* A step that leaves the list and the iterator alone. *)
LEMMA ListedStays ==
  ASSUME ListedInv, UNCHANGED <<listed, walkVars>>,
         trouble => trouble', canceled' => canceled \/ trouble'
  PROVE  ListedInv'
BY DEF ListedInv, walkVars, Current, Before, ToSet

(* The iterator yields an error only if something outside has failed. *)
LEMMA IterateTrouble ==
  ASSUME Iterate, canceled => trouble, at \notin Yields
  PROVE  at' \in YieldErrors => trouble'
BY DEF Iterate, Discover, DiscoverFails, FilesExhausted, FileCanceled, CheckFile, OpenSource,
   OpenFails, LayersExhausted, LayerCanceled, CheckLayer, YieldLayer, Disturb, ctxVars, Yields,
   YieldErrors, YieldItem

LEMMA WalkOnLists ==
  ASSUME WalkInv, CtxTypeOK, ListedInv, WalkOn
  PROVE  WalkInv' /\ CtxTypeOK' /\ ListedInv'
<1>1. Iterate /\ UNCHANGED listed
  BY DEF WalkOn, outputVars
<1>2. /\ WalkInv' /\ CtxTypeOK' /\ canceled' = canceled /\ (trouble => trouble')
      /\ \A l \in Layers : Before(l, Current) => Before(l, Current')
      /\ at \notin Yields
  BY <1>1, IterateStep
<1>3. /\ \A l \in Layers : Before(l, Current') => Before(l, Current)
      /\ at' = "done" => \A l \in Layers : Before(l, Current)
  BY <1>1, IterateReach
<1>4. at' \in YieldErrors => trouble'
  BY <1>1, <1>2, IterateTrouble DEF ListedInv
<1>5. \A k \in DOMAIN listed : listed[k] \in Layers
  BY DEF ListedInv
<1>6. QED
  BY <1>1, <1>2, <1>3, <1>4, <1>5 DEF ListedInv, Before, ToSet

LEMMA ListLayerLists ==
  ASSUME WalkInv, CtxTypeOK, ListedInv, ListLayer
  PROVE  WalkInv' /\ CtxTypeOK' /\ ListedInv'
<1>1. at = "item" /\ Resume /\ listed' = Append(listed, Current) /\ UNCHANGED ctxVars
  BY DEF ListLayer
<1>2. /\ WalkInv' /\ at' = "layer" /\ Before(Current, Current') /\ Current \in Layers
      /\ \A l \in Layers : Before(l, Current) => Before(l, Current')
      /\ \A l \in Layers : Before(l, Current') <=> Before(l, Current) \/ l = Current
  BY <1>1, ResumeStep, ResumeReach
<1>3. PICK n : n = Len(listed) + 1
  OBVIOUS
<1>4. /\ listed' \in Seq(Layers) /\ n \in Nat \ {0} /\ DOMAIN listed = 1..(n - 1)
      /\ DOMAIN listed' = 1..n /\ listed'[n] = Current
      /\ \A k \in DOMAIN listed : listed'[k] = listed[k] /\ listed[k] \in Layers
  BY <1>1, <1>2, <1>3 DEF ListedInv
<1>5. \A k \in 1..n : k \in DOMAIN listed \/ k = n
  BY <1>4
<1>6. \A j, k \in DOMAIN listed' : j < k => Before(listed'[j], listed'[k])
  <2>1. SUFFICES ASSUME NEW j \in 1..n, NEW k \in 1..n, j < k
                 PROVE  Before(listed'[j], listed'[k])
    BY <1>4
  <2>2. j \in DOMAIN listed
    BY <1>4, <2>1
  <2>3. QED
    BY <1>4, <1>5, <2>1, <2>2 DEF ListedInv
<1>7. \A k \in DOMAIN listed' : Before(listed'[k], Current')
  BY <1>2, <1>4, <1>5 DEF ListedInv
<1>8. \A l : l \in ToSet(listed) \/ l = Current => l \in ToSet(listed')
  <2>1. DOMAIN listed \subseteq DOMAIN listed' /\ n \in DOMAIN listed'
    BY <1>4
  <2>2. QED
    BY <1>4, <2>1 DEF ToSet
<1>9. CtxTypeOK' /\ canceled' = canceled /\ trouble' = trouble
  BY <1>1 DEF CtxTypeOK, ctxVars
<1>10. QED
  BY <1>2, <1>4, <1>6, <1>7, <1>8, <1>9 DEF ListedInv, YieldErrors, Before

(* An error is logged, or the output is full: nothing is listed. *)
LEMMA NothingListed ==
  ASSUME WalkInv, CtxTypeOK, ListedInv, PrintFails \/ LogWalkErr
  PROVE  WalkInv' /\ CtxTypeOK' /\ ListedInv'
<1>1. /\ Resume /\ UNCHANGED listed /\ trouble' = TRUE /\ canceled' = canceled
      /\ CtxTypeOK'
  BY DEF PrintFails, LogWalkErr, Disturb, ctxVars, outputVars, CtxTypeOK, ListedInv
<1>2. /\ WalkInv'
      /\ \A l \in Layers : Before(l, Current) => Before(l, Current')
  BY <1>1, ResumeStep
<1>3. \A k \in DOMAIN listed : listed[k] \in Layers
  BY DEF ListedInv
<1>4. QED
  BY <1>1, <1>2, <1>3 DEF ListedInv, Before

LEMMA ListedStep ==
  ASSUME WalkInv, CtxTypeOK, ListedInv, [Next]_vars
  PROVE  WalkInv' /\ CtxTypeOK' /\ ListedInv'
<1>1. CASE WalkOn
  BY <1>1, WalkOnLists
<1>2. CASE ListLayer
  BY <1>2, ListLayerLists
<1>3. CASE PrintFails \/ LogWalkErr
  BY <1>3, NothingListed
<1>4. CASE /\ UNCHANGED <<listed, walkVars>>
           /\ \/ UNCHANGED ctxVars
              \/ Cancel
              \/ trouble' = TRUE /\ canceled' = canceled
  <2>1. trouble \in BOOLEAN /\ canceled \in BOOLEAN
    BY DEF CtxTypeOK
  <2>2. CtxTypeOK' /\ (trouble => trouble') /\ (canceled' => canceled \/ trouble')
    <3>1. CASE UNCHANGED ctxVars
      BY <2>1, <3>1 DEF CtxTypeOK, ctxVars
    <3>2. CASE Cancel \/ (trouble' = TRUE /\ canceled' = canceled)
      BY <2>1, <3>2 DEF CtxTypeOK, Cancel
    <3>3. QED
      BY <1>4, <3>1, <3>2
  <2>3. WalkInv'
    BY <1>4 DEF WalkInv, WalkTypeOK, walkVars
  <2>4. QED
    BY <1>4, <2>2, <2>3, ListedStays
<1>5. \/ WalkOn \/ ListLayer \/ PrintFails \/ LogWalkErr
      \/ /\ UNCHANGED <<listed, walkVars>>
         /\ \/ UNCHANGED ctxVars
            \/ Cancel
            \/ trouble' = TRUE /\ canceled' = canceled
  BY DEF Next, vars, outputVars, RejectArgs, PrintVersion, AcceptArgs, StatConfig, Configure,
     ConfigDone, PublishAll, PublishDone, WalkDone, Encode, EncodeFails, Exit, Environment,
     FileVanishes, Disturb, Finished
<1>6. QED
  BY <1>1, <1>2, <1>3, <1>4, <1>5

(* The contract of PublishAll: nil is for layers that are all published. *)
LEMMA ContractStep ==
  ASSUME Contract!Next
  PROVE  result = "running" /\ (result' = "nil" => \A l \in Layers : status'[l] = "published")
<1>1. CASE \E l \in Layers : Contract!Publish(l)
  BY <1>1 DEF Contract!Publish
<1>2. CASE \E S \in SUBSET Layers : Contract!Fail(S)
  BY <1>2 DEF Contract!Fail
<1>3. CASE Contract!Return
  BY <1>3 DEF Contract!Return
<1>4. CASE Contract!SetupError
  BY <1>4 DEF Contract!SetupError
<1>5. QED
  BY <1>1, <1>2, <1>3, <1>4 DEF Contract!Next

LEMMA PlaceStep ==
  ASSUME ProgramInv, PlaceInv, [Next]_vars
  PROVE  PlaceInv'
<1> USE DEF PlaceInv, IsCommand, JSON, Goto, ReturnFromRun
<1>1. CASE RejectArgs
  BY <1>1 DEF RejectArgs, walkVars, contractVars, outputVars
<1>2. CASE PrintVersion
  BY <1>2 DEF PrintVersion, walkVars, contractVars, outputVars
<1>3. CASE AcceptArgs
  BY <1>3 DEF AcceptArgs, walkVars, contractVars, outputVars
<1>4. CASE StatConfig
  BY <1>4 DEF StatConfig, walkVars, contractVars, outputVars
<1>5. CASE Configure
  BY <1>5 DEF Configure, walkVars, contractVars, outputVars, runVars
<1>6. CASE ConfigDone
  BY <1>6 DEF ConfigDone, walkVars, contractVars, outputVars
<1>7. CASE PublishAll
  BY <1>7, ContractStep DEF PublishAll, walkVars, outputVars, runVars
<1>8. CASE PublishDone
  BY <1>8 DEF PublishDone, walkVars, contractVars, outputVars
<1>9. CASE WalkOn
  BY <1>9 DEF WalkOn, contractVars, outputVars, runVars
<1>10. CASE ListLayer
  BY <1>10 DEF ListLayer, contractVars, runVars
<1>11. CASE PrintFails
  BY <1>11 DEF PrintFails, contractVars, outputVars, runVars
<1>12. CASE LogWalkErr
  BY <1>12 DEF LogWalkErr, contractVars, outputVars, runVars
<1>13. CASE WalkDone
  BY <1>13 DEF WalkDone, walkVars, contractVars, outputVars
<1>14. CASE Encode
  BY <1>14 DEF Encode, contractVars
<1>15. CASE EncodeFails
  BY <1>15 DEF EncodeFails, contractVars
<1>16. CASE Exit
  BY <1>16 DEF Exit, walkVars, contractVars, outputVars
<1>17. CASE Environment
  BY <1>17 DEF Environment, walkVars, contractVars, outputVars, runVars
<1>18. CASE UNCHANGED vars
  BY <1>18 DEF vars, walkVars, contractVars, outputVars, runVars
<1>19. QED
  BY <1>1, <1>2, <1>3, <1>4, <1>5, <1>6, <1>7, <1>8, <1>9, <1>10, <1>11, <1>12,
     <1>13, <1>14, <1>15, <1>16, <1>17, <1>18 DEF Next, Finished

(* FromConfig, or a New by hand, fails with an error and is done without. *)
LEMMA ConfigureFails ==
  ASSUME RunInv, Configure
  PROVE  /\ pc = "config" /\ pc' = "config"
         /\ phase' = "failed" => err' # Nil /\ ~IsVersion(err')
         /\ phase' # "failed" => phase # "failed" /\ err' = err
<1>1. pc = "config" /\ pc' = "config"
  BY DEF Configure, runVars
<1>2. CASE \E names : names # ErrVersionRequested /\ ConfigFails(ErrorsNew(names))
  BY <1>1, <1>2, NoVersion DEF ConfigFails
<1>3. CASE ValidateFails
  BY <1>1, <1>3, NoVersion, ProblemsAreNoVersion DEF ValidateFails, ConfigFails
<1>4. CASE ReadFails \/ UnmarshalFails
  <2>1. <<"read">> # ErrVersionRequested /\ <<"unmarshal">> # ErrVersionRequested
    BY DEF ErrVersionRequested
  <2>2. QED
    BY <1>2, <1>4, <2>1 DEF ReadFails, UnmarshalFails
<1>5. CASE /\ phase # "failed" /\ phase' # "failed" /\ err' = err
  BY <1>1, <1>5
<1>6. \/ ValidateFails \/ ReadFails \/ UnmarshalFails
      \/ phase # "failed" /\ phase' # "failed" /\ err' = err
  BY DEF Configure, FromConfig, NewByHand, StartFromConfig, ReadFile, Unmarshal, ExpandEnv,
     StartNew, ApplyOption, NewReturns, Validate
<1>7. QED
  BY <1>3, <1>4, <1>5, <1>6

LEMMA RunStep ==
  ASSUME ProgramInv, PlaceInv, RunInv, [Next]_vars
  PROVE  RunInv'
<1> USE DEF RunInv, PlaceInv, ProgramInv, IsCommand, JSON, Goto, ReturnFromRun, Succeeded, Failed
<1>1. CASE RejectArgs
  BY <1>1, WorkUnchanged, NoVersion DEF RejectArgs
<1>2. CASE PrintVersion
  BY <1>2, WorkUnchanged, NoVersion DEF PrintVersion, WantsVersion
<1>3. CASE AcceptArgs
  BY <1>3 DEF AcceptArgs, configVars, configLocals
<1>4. CASE StatConfig
  BY <1>4, WorkUnchanged, NoVersion DEF StatConfig, configLocals
<1>5. CASE Configure
  BY <1>5, ConfigureFails DEF Configure, runVars
<1>6. CASE ConfigDone
  BY <1>6, WorkUnchanged DEF ConfigDone, configVars, configLocals
<1>7. CASE PublishAll
  BY <1>7 DEF PublishAll, runVars, configVars, configLocals
<1>8. CASE PublishDone
  BY <1>8, NoVersion DEF PublishDone, contractVars
<1>9. CASE WalkOn
  BY <1>9 DEF WalkOn, runVars, configVars, configLocals
<1>10. CASE ListLayer
  BY <1>10 DEF ListLayer, runVars, configVars, configLocals
<1>11. CASE PrintFails
  BY <1>11 DEF PrintFails, runVars, configVars, configLocals
<1>12. CASE LogWalkErr
  BY <1>12 DEF LogWalkErr, runVars, configVars, configLocals
<1>13. CASE WalkDone
  BY <1>13 DEF WalkDone, walkVars, outputVars, configVars, configLocals
<1>14. CASE Encode
  BY <1>14 DEF Encode, walkVars, configVars
<1>15. CASE EncodeFails
  BY <1>15, NoVersion DEF EncodeFails
<1>16. CASE Exit
  BY <1>16, WorkUnchanged
     DEF Exit, IsVersion, walkVars, contractVars, outputVars, configVars, WantsVersion
<1>17. CASE Environment
  BY <1>17 DEF Environment, FileVanishes, runVars, configVars, configLocals
<1>18. CASE UNCHANGED vars
  BY <1>18, WorkUnchanged
     DEF vars, walkVars, contractVars, outputVars, runVars, configVars, configLocals, WantsVersion
<1>19. QED
  BY <1>1, <1>2, <1>3, <1>4, <1>5, <1>6, <1>7, <1>8, <1>9, <1>10, <1>11, <1>12,
     <1>13, <1>14, <1>15, <1>16, <1>17, <1>18 DEF Next, Finished

LEMMA OutcomeInvariant == Spec => [](ProgramInv /\ OutcomeInv)
<1>1. ASSUME ProgramInv, OutcomeInv, [Next]_vars
      PROVE  ProgramInv' /\ OutcomeInv'
  <2>1. ProgramInv'
    BY <1>1, ProgramStep
  <2>2. WalkInv' /\ CtxTypeOK' /\ ListedInv'
    BY <1>1, ListedStep DEF OutcomeInv
  <2>3. PlaceInv'
    BY <1>1, PlaceStep DEF OutcomeInv
  <2>4. RunInv'
    BY <1>1, RunStep DEF OutcomeInv
  <2>5. QED
    BY <2>1, <2>2, <2>3, <2>4 DEF OutcomeInv
<1>2. QED
  BY <1>1, ProgramInit, OutcomeInit, PTL DEF Spec

(* A listing that met no trouble is complete when the iterator is done. *)
LEMMA ListingIsComplete ==
  ASSUME ListedInv, at = "done", ~trouble
  PROVE  ToSet(listed) = Layers
<1>1. \A l \in Layers : l \in ToSet(listed)
  BY DEF ListedInv
<1>2. \A l \in ToSet(listed) : l \in Layers
  BY DEF ListedInv, ToSet
<1>3. QED
  BY <1>1, <1>2

(* Whatever the arguments, the documents and the layers are: exit status 0  *)
(* is for the version, for layers that are all published and for a listing  *)
(* that is in order and, unless something outside has failed, complete; 1   *)
(* is for a command that has not done what it was asked (gismanager.go:20-  *)
(* 36, layerSchema.go:39-50, 81-101, 103-130).                              *)
THEOREM ProgramExitIsTrue == Spec => []ExitTellsTheTruth
<1>1. ASSUME ProgramInv, OutcomeInv PROVE ExitTellsTheTruth
  <2>1. /\ WalkInv /\ ListedInv /\ PlaceInv /\ RunInv
    BY <1>1 DEF OutcomeInv
  <2>2. ASSUME exit = "0", err = Nil, Succeeded
        PROVE  \/ prog = "gismanager" /\ \A l \in Layers : status[l] = "published"
               \/ /\ prog = "layerSchema" /\ at = "done" /\ open = {}
                  /\ \A j, k \in DOMAIN listed : j < k => Before(listed[j], listed[k])
                  /\ ~trouble => ToSet(listed) = Layers
                  /\ JSON <=> stdout = "whole"
    <3>1. CASE prog = "gismanager" /\ result = "nil"
      BY <2>1, <3>1 DEF PlaceInv
    <3>2. CASE prog = "layerSchema" /\ at = "done" /\ (JSON <=> stdout = "whole")
      <4>1. open = {}
        BY <2>1, <3>2 DEF WalkInv
      <4>2. \A j, k \in DOMAIN listed : j < k => Before(listed[j], listed[k])
        BY <2>1 DEF ListedInv
      <4>3. QED
        BY <2>1, <3>2, <4>1, <4>2, ListingIsComplete
    <3>3. QED
      BY <2>2, <3>1, <3>2 DEF Succeeded
  <2>3. ASSUME exit # "none"
        PROVE  /\ \/ exit = "0" /\ err = Nil /\ Succeeded
                  \/ exit = "0" /\ WantsVersion /\ ~WorkBegun
                  \/ exit = "1" /\ Failed
    BY <2>1, <2>3 DEF RunInv
  <2>4. QED
    BY <2>2, <2>3 DEF ExitTellsTheTruth, Failed
<1>2. QED
  BY <1>1, OutcomeInvariant, PTL
-----------------------------------------------------------------------------
(* Types *)

ErrTyped(e) == \A i \in DOMAIN e : ToSet(e[i]) \subseteq Named

ManagerTyped(c) ==
  /\ c = [text |-> c.text, logger |-> c.logger, publishConcurrency |-> c.publishConcurrency]
  /\ IsManager(c) /\ c.publishConcurrency \in Nat

OptionsOK(q) == \E S : q \in Seq(S) /\ \A o \in S : IsManager(o.arg)

(* ConfigTypeOK, and what it rests on. *)
TypedInv ==
  /\ ConfigTypeOK
  /\ ManagerTyped(m)
  /\ environ \in Environments /\ disk \in ConfigFiles /\ yamlFile \in ConfigFiles
  /\ OptionsOK(todo)

OutputInv ==
  /\ Contract!TypeOK
  /\ argv \subseteq {"bad", "version", "config", "json"}
  /\ pc \in {"args", "stat", "config", "publish", "list", "encode", "return", "exited"}
  /\ stdout \in {"none", "part", "whole"}
  /\ exit \in {"none", "0", "1"}

LEMMA EmptyIsTyped == <<>> \in Text /\ IsTexts(EmptyText) /\ ~Refers(<<>>)
BY DEF Text, IsTexts, EmptyText, Refers

LEMMA FilesTyped ==
  ASSUME NEW d \in ConfigFiles
  PROVE  IsTexts(d.text) /\ d.state \in {"absent", "unreadable", "malformed", "yaml"}
BY EmptyIsTyped, ConfigAssumption DEF ConfigFiles

LEMMA NoFileIsOne == NoFile \in ConfigFiles
BY DEF NoFile, ConfigFiles

LEMMA EnvironmentsTyped == environ \in Environments => EnvironTyped
BY ConfigAssumption DEF EnvironTyped

LEMMA ExpandedTyped ==
  ASSUME EnvironTyped, NEW t, IsTexts(t)
  PROVE  IsTexts(Expanded(t))
BY ExpandTyped DEF IsTexts, Expanded

LEMMA ApplyTyped ==
  ASSUME NEW c, ManagerTyped(c), NEW o, IsManager(o.arg)
  PROVE  ManagerTyped(Apply(c, o))
<1> USE DEF ManagerTyped, IsManager
<1>1. CASE o.part = "logger"
  <2>1. Apply(c, o) = WithLogger(c, o.arg.logger)
    BY <1>1, SectionsApart DEF Apply
  <2>2. o.arg.logger \in {"nil", "default", "custom"}
    BY DEF Loggers
  <2>3. QED
    BY <2>1, <2>2 DEF WithLogger, Loggers
<1>2. CASE o.part \in DOMAIN Section
  <2>1. Apply(c, o) = WithSection(c, o.part, o.arg.text)
    BY <1>2, SectionsApart DEF Apply
  <2>2. IsTexts([f \in Fields |-> IF f \in Section[o.part] THEN o.arg.text[f] ELSE c.text[f]])
    BY DEF IsTexts
  <2>3. QED
    BY <2>1, <2>2 DEF WithSection
<1>3. CASE o.part = "concurrency"
  <2>1. Apply(c, o) = WithPublishConcurrency(c, o.arg.publishConcurrency)
    BY <1>3, SectionsApart DEF Apply
  <2>2. QED
    BY <2>1 DEF WithPublishConcurrency
<1>4. CASE o.part \notin Replaceable
  <2>1. Apply(c, o) = c
    BY <1>4, SectionsApart DEF Apply, Replaceable
  <2>2. QED
    BY <2>1
<1>5. QED
  BY <1>1, <1>2, <1>3, <1>4 DEF Replaceable

LEMMA OneNamed ==
  ASSUME NEW n \in Named
  PROVE  ToSet(<<n>>) \subseteq Named
<1>1. DOMAIN <<n>> = {1} /\ <<n>>[1] = n
  OBVIOUS
<1>2. QED
  BY <1>1 DEF ToSet

LEMMA ErrorsTyped ==
  /\ ErrTyped(Nil) /\ ErrTyped(ErrorsNew(ErrVersionRequested))
  /\ \A n \in Named : ErrTyped(ErrorsNew(<<n>>))
  /\ \A names : ToSet(names) \subseteq Named =>
       ErrTyped(NewGISError(ErrConfigInvalid, ErrorsNew(names)))
<1>1. \A n \in Named : ToSet(<<n>>) \subseteq Named
  BY OneNamed
<1>2. ASSUME NEW names, ToSet(names) \subseteq Named PROVE ErrTyped(ErrorsNew(names))
  BY <1>2 DEF ErrTyped, ErrorsNew
<1>3. ToSet(ErrConfigInvalid) \subseteq Named /\ ToSet(ErrVersionRequested) \subseteq Named
  BY <1>1 DEF ErrConfigInvalid, ErrVersionRequested, Named
<1>4. ASSUME NEW names, ToSet(names) \subseteq Named
      PROVE  ErrTyped(NewGISError(ErrConfigInvalid, ErrorsNew(names)))
  BY <1>3, <1>4, ChainOfTwo DEF ErrTyped, NewGISError, ErrorsNew
<1>5. ErrTyped(Nil)
  BY DEF ErrTyped, Nil
<1>6. QED
  BY <1>1, <1>2, <1>3, <1>4, <1>5

(* The problems are the empty fields, each of them once. *)
LEMMA ProblemsAre ==
  /\ ToSet(Problems(m)) = {f \in Fields : m.text[f] = <<>>}
  /\ IsInjective(Problems(m))
<1> DEFINE S == {i \in DOMAIN FieldOrder : m.text[FieldOrder[i]] = <<>>}
<1>1. Problems(m) = [i \in S |-> FieldOrder[i]]
  BY DEF Problems, RestrictValues, Restrict
<1>2. \A i, j \in DOMAIN FieldOrder : FieldOrder[i] = FieldOrder[j] => i = j
  BY DEF FieldOrder
<1>3. ToSet(Problems(m)) = {f \in Fields : m.text[f] = <<>>}
  BY <1>1 DEF ToSet, Fields
<1>4. IsInjective(Problems(m))
  BY <1>1, <1>2 DEF IsInjective
<1>5. QED
  BY <1>3, <1>4

LEMMA GivenOptionsOK ==
  /\ \A options \in OptionLists : OptionsOK(options)
  /\ \A t : IsTexts(t) => OptionsOK(OptionsOf(t))
<1>1. ASSUME NEW options \in OptionLists PROVE OptionsOK(options)
  <2>1. options \in Seq(ToSet(options)) /\ \A i \in DOMAIN options : IsManager(options[i].arg)
    BY OptionsTyped, ConfigAssumption
  <2>2. \A o \in ToSet(options) : IsManager(o.arg)
    BY <2>1 DEF ToSet
  <2>3. QED
    BY <2>1, <2>2 DEF OptionsOK
<1>2. ASSUME NEW t, IsTexts(t) PROVE OptionsOK(OptionsOf(t))
  <2>1. OptionsOf(t) \in Seq(OptionFor(t))
    BY DEF OptionsOf, OptionFor, ConfigOf
  <2>2. IsManager(ConfigOf(t))
    BY <1>2 DEF IsManager, ConfigOf, ZeroManager, Loggers
  <2>3. \A o \in OptionFor(t) : IsManager(o.arg)
    BY <2>2 DEF OptionFor
  <2>4. QED
    BY <2>1, <2>3 DEF OptionsOK
<1>3. QED
  BY <1>1, <1>2

LEMMA ZeroTyped == ManagerTyped(ZeroManager) /\ ManagerTyped([ZeroManager EXCEPT !.logger = "default"])
BY EmptyIsTyped DEF ManagerTyped, IsManager, ZeroManager, Loggers

LEMMA TypedInitially == Init => TypedInv
<1>1. SUFFICES ASSUME Init PROVE TypedInv
  OBVIOUS
<1>2. ConfigInit
  BY <1>1 DEF Init
<1>3. /\ disk \in ConfigFiles /\ yamlFile \in ConfigFiles /\ environ \in Environments
      /\ IsTexts(disk.text) /\ IsTexts(yamlFile.text) /\ IsTexts(decoded)
  BY <1>2, NoFileIsOne, FilesTyped, EmptyIsTyped DEF ConfigInit
<1>4. ManagerTyped(m)
  BY <1>2, ZeroTyped DEF ConfigInit
<1>5. OptionsOK(todo)
  <2>1. todo \in Seq({})
    BY <1>2 DEF ConfigInit
  <2>2. QED
    BY <2>1 DEF OptionsOK
<1>6. ErrTyped(err) /\ phase = "idle"
  BY <1>2, ErrorsTyped DEF ConfigInit
<1>7. QED
  BY <1>3, <1>4, <1>5, <1>6 DEF TypedInv, ConfigTypeOK, ManagerTyped, ErrTyped

(* The phase, the error and the Manager may change, the texts do not. *)
LEMMA TypedStays ==
  ASSUME TypedInv, UNCHANGED <<environ, disk, yamlFile, decoded>>,
         phase' \in {"idle", "read", "unmarshal", "expand", "new", "options",
                    "validate", "done", "failed"},
         ManagerTyped(m'), OptionsOK(todo'), ErrTyped(err')
  PROVE  TypedInv'
BY DEF TypedInv, ConfigTypeOK, ManagerTyped, OptionsOK, ErrTyped

LEMMA FailsTyped ==
  ASSUME TypedInv, NEW names, ToSet(names) \subseteq Named, ConfigFails(ErrorsNew(names))
  PROVE  TypedInv'
<1>1. ErrTyped(err')
  BY ErrorsTyped DEF ConfigFails
<1>2. QED
  BY <1>1, TypedStays DEF ConfigFails, TypedInv

LEMMA ConfigureTyped ==
  ASSUME TypedInv, FromConfig \/ NewByHand
  PROVE  TypedInv'
<1>1. ErrTyped(err) /\ ManagerTyped(m) /\ OptionsOK(todo) /\ IsTexts(decoded) /\ EnvironTyped
  BY EnvironmentsTyped DEF TypedInv, ConfigTypeOK, ErrTyped
<1>2. CASE StartFromConfig
  BY <1>1, <1>2, TypedStays DEF StartFromConfig
<1>3. CASE ReadFile
  BY <1>3 DEF ReadFile, TypedInv, ConfigTypeOK, ManagerTyped, OptionsOK
<1>4. CASE ReadFails \/ UnmarshalFails
  <2>1. ToSet(<<"read">>) \subseteq Named /\ ToSet(<<"unmarshal">>) \subseteq Named
    BY OneNamed DEF Named
  <2>2. QED
    BY <1>4, <2>1, FailsTyped DEF ReadFails, UnmarshalFails
<1>5. CASE Unmarshal
  BY <1>5 DEF Unmarshal, TypedInv, ConfigTypeOK, ManagerTyped, OptionsOK
<1>6. CASE ExpandEnv
  <2>1. IsTexts(Expanded(decoded))
    BY <1>1, ExpandedTyped
  <2>2. QED
    BY <1>6, <2>1 DEF ExpandEnv, TypedInv, ConfigTypeOK, ManagerTyped, OptionsOK
<1>7. ASSUME NEW from, NEW options, StartNew(from, options), OptionsOK(options)
      PROVE  TypedInv'
  BY <1>1, <1>7, ZeroTyped, TypedStays DEF StartNew
<1>8. CASE ApplyOption
  <2>1. PICK S : todo \in Seq(S) /\ \A o \in S : IsManager(o.arg)
    BY <1>1 DEF OptionsOK
  <2>2. Head(todo) \in S /\ Tail(todo) \in Seq(S)
    BY <1>8, <2>1, HeadAndTail DEF ApplyOption
  <2>3. ManagerTyped(m') /\ OptionsOK(todo')
    BY <1>1, <1>8, <2>1, <2>2, ApplyTyped DEF ApplyOption, OptionsOK
  <2>4. QED
    BY <1>1, <1>8, <2>3, TypedStays DEF ApplyOption, TypedInv, ConfigTypeOK
<1>9. CASE NewReturns("validate") \/ NewReturns("done") \/ Validate
  BY <1>1, <1>9, TypedStays DEF NewReturns, Validate
<1>10. CASE ValidateFails
  <2>1. ToSet(Problems(m)) \subseteq Named
    BY ProblemsAre DEF Named
  <2>2. QED
    BY <1>10, <2>1, FailsTyped DEF ValidateFails
<1>11. QED
  BY <1>1, <1>2, <1>3, <1>4, <1>5, <1>6, <1>7, <1>8, <1>9, <1>10, GivenOptionsOK
     DEF FromConfig, NewByHand

LEMMA TypedStep ==
  ASSUME TypedInv, [Next]_vars
  PROVE  TypedInv'
<1>1. ErrTyped(err)
  BY DEF TypedInv, ConfigTypeOK, ErrTyped
<1>2. CASE Configure
  BY <1>2, ConfigureTyped DEF Configure
<1>3. CASE Environment
  <2>1. CASE FileVanishes
    BY <2>1, NoFileIsOne, FilesTyped
       DEF FileVanishes, TypedInv, ConfigTypeOK, ManagerTyped, OptionsOK
  <2>2. CASE UNCHANGED configVars
    BY <2>2 DEF configVars, configLocals, TypedInv, ConfigTypeOK, ManagerTyped, OptionsOK
  <2>3. QED
    BY <1>3, <2>1, <2>2 DEF Environment
<1>4. CASE UNCHANGED configLocals /\ ErrTyped(err')
  BY <1>4 DEF configLocals, TypedInv, ConfigTypeOK, ManagerTyped, OptionsOK, ErrTyped
<1>5. \A n \in {"usage", "no file", "publish", "encode JSON"} : ErrTyped(ErrorsNew(<<n>>))
  BY ErrorsTyped DEF Named
<1>6. Configure \/ Environment \/ (UNCHANGED configLocals /\ ErrTyped(err'))
  BY <1>1, <1>5, ErrorsTyped
     DEF Next, vars, configVars, RejectArgs, PrintVersion, AcceptArgs, StatConfig, ConfigDone,
         PublishAll, PublishDone, WalkOn, ListLayer, PrintFails, LogWalkErr, WalkDone, Encode,
         EncodeFails, Exit, Finished, ReturnFromRun
<1>7. QED
  BY <1>2, <1>3, <1>4, <1>6

LEMMA ContractTyped ==
  ASSUME Contract!TypeOK, [Contract!Next]_contractVars
  PROVE  Contract!TypeOK'
<1>1. CASE \E l \in Layers : Contract!Publish(l)
  BY <1>1 DEF Contract!TypeOK, Contract!Publish
<1>2. CASE \E S \in SUBSET Layers : Contract!Fail(S)
  BY <1>2 DEF Contract!TypeOK, Contract!Fail
<1>3. CASE Contract!Return
  BY <1>3 DEF Contract!TypeOK, Contract!Return
<1>4. CASE Contract!SetupError
  BY <1>4 DEF Contract!TypeOK, Contract!SetupError
<1>5. CASE UNCHANGED contractVars
  BY <1>5 DEF Contract!TypeOK, contractVars
<1>6. QED
  BY <1>1, <1>2, <1>3, <1>4, <1>5 DEF Contract!Next

LEMMA OutputInitially == Init => OutputInv
BY DEF Init, OutputInv, Contract!Init, Contract!TypeOK, IsCommand

LEMMA OutputStep ==
  ASSUME OutputInv, ProgramInv, [Next]_vars
  PROVE  OutputInv'
<1>1. Contract!TypeOK'
  <2>1. [Contract!Next]_contractVars
    BY DEF Next, vars, RejectArgs, PrintVersion, AcceptArgs, StatConfig, Configure, ConfigDone,
       PublishAll, PublishDone, WalkOn, ListLayer, PrintFails, LogWalkErr, WalkDone, Encode,
       EncodeFails, Exit, Environment, Finished
  <2>2. QED
    BY <2>1, ContractTyped DEF OutputInv
<1>2. argv' = argv
  BY DEF Next, vars, runVars, RejectArgs, PrintVersion, AcceptArgs, StatConfig, Configure,
     ConfigDone, PublishAll, PublishDone, WalkOn, ListLayer, PrintFails, LogWalkErr, WalkDone,
     Encode, EncodeFails, Exit, Environment, Finished
<1>3. pc' \in {"args", "stat", "config", "publish", "list", "encode", "return", "exited"}
  BY DEF OutputInv, Goto, ReturnFromRun, Next, vars, runVars, RejectArgs, PrintVersion,
     AcceptArgs, StatConfig, Configure, ConfigDone, PublishAll, PublishDone, WalkOn, ListLayer,
     PrintFails, LogWalkErr, WalkDone, Encode, EncodeFails, Exit, Environment, Finished
<1>4. stdout' \in {"none", "part", "whole"}
  BY DEF OutputInv, Next, vars, outputVars, RejectArgs, PrintVersion, AcceptArgs, StatConfig,
     Configure, ConfigDone, PublishAll, PublishDone, WalkOn, ListLayer, PrintFails, LogWalkErr,
     WalkDone, Encode, EncodeFails, Exit, Environment, Finished
<1>5. exit' \in {"none", "0", "1"}
  BY DEF OutputInv, Next, vars, runVars, RejectArgs, PrintVersion, AcceptArgs, StatConfig,
     Configure, ConfigDone, PublishAll, PublishDone, WalkOn, ListLayer, PrintFails, LogWalkErr,
     WalkDone, Encode, EncodeFails, Exit, Environment, Finished
<1>6. QED
  BY <1>1, <1>2, <1>3, <1>4, <1>5 DEF OutputInv

LEMMA TypedInvariant == Spec => [](ProgramInv /\ OutcomeInv /\ TypedInv /\ OutputInv)
<1>1. ASSUME TypedInv, OutputInv, ProgramInv, [Next]_vars
      PROVE  TypedInv' /\ OutputInv'
  BY <1>1, TypedStep, OutputStep
<1>2. QED
  BY <1>1, TypedInitially, OutputInitially, OutcomeInvariant, PTL DEF Spec

(* Whatever the documents, the environments and the options are, every      *)
(* variable of the program keeps its type: what is expanded is a text, what *)
(* New makes a Manager, and an error names what there is to be named        *)
(* (manager.go:61-131, options.go:9-80).                                    *)
THEOREM ProgramTyped == Spec => []TypeOK
<1>1. ASSUME ProgramInv, OutcomeInv, TypedInv, OutputInv PROVE TypeOK
  BY <1>1 DEF TypeOK, ProgramInv, OutcomeInv, WalkInv, ListedInv, TypedInv, OutputInv
<1>2. QED
  BY <1>1, TypedInvariant, PTL
-----------------------------------------------------------------------------
(* What is in a configuration, and why one is refused *)

Refused(names, why) ==
  err = NewGISError(ErrConfigInvalid, ErrorsNew(names)) /\ why

RefusedInv ==
  phase = "failed" =>
    \/ Refused(<<"read">>, disk.state \in {"absent", "unreadable"})
    \/ Refused(<<"unmarshal">>,
               yamlFile.state = "malformed" \/ Refers(yamlFile.text[Port]))
    \/ Refused(Problems(m),
               /\ ~IsWhole(m) /\ ~Refers(yamlFile.text[Port])
               /\ IsCommand => Built /\ decoded = Expanded(yamlFile.text))

(* A number has been decoded for the port. *)
ReadInv ==
  /\ phase \in {"idle", "read"} => yamlFile = NoFile
  /\ phase = "unmarshal" => yamlFile.state \in {"malformed", "yaml"}
  /\ phase \in {"expand", "new", "options", "validate", "done"} =>
       ~Refers(yamlFile.text[Port])

LEMMA PortOfNoFile == ~Refers(NoFile.text[Port])
<1>1. NoFile.text[Port] = <<>>
  BY DEF NoFile, EmptyText, Fields, FieldOrder, Port, ToSet
<1>2. QED
  BY <1>1, EmptyIsTyped

LEMMA SettingInitially == Init => ReadInv /\ RefusedInv
BY DEF Init, ConfigInit, ReadInv, RefusedInv

(* No step is taken but by Configure, or the file vanishes. *)

LEMMA ReadStep ==
  ASSUME TypedInv, ReadInv, [Next]_vars
  PROVE  ReadInv'
<1> USE DEF ReadInv
<1>1. CASE StartFromConfig
  BY <1>1 DEF StartFromConfig
<1>2. CASE ReadFile
  BY <1>2 DEF ReadFile
<1>3. CASE \E cause : ConfigFails(cause)
  BY <1>3 DEF ConfigFails
<1>4. CASE Unmarshal
  BY <1>4 DEF Unmarshal, Decodable
<1>5. CASE ExpandEnv
  BY <1>5 DEF ExpandEnv
<1>6. ASSUME NEW options, StartNew("new", options) \/ StartNew("idle", options)
      PROVE  ReadInv'
  BY <1>6, PortOfNoFile DEF StartNew
<1>7. CASE ApplyOption
  BY <1>7 DEF ApplyOption
<1>8. CASE NewReturns("validate") \/ NewReturns("done") \/ Validate
  BY <1>8 DEF NewReturns, Validate
<1>9. CASE UNCHANGED <<phase, yamlFile>>
  BY <1>9
<1>10. Configure \/ UNCHANGED <<phase, yamlFile>>
  BY DEF Next, vars, configVars, configLocals, RejectArgs, PrintVersion, AcceptArgs,
     StatConfig, ConfigDone, PublishAll, PublishDone, WalkOn, ListLayer, PrintFails,
     LogWalkErr, WalkDone, Encode, EncodeFails, Exit, Environment, FileVanishes, Finished
<1>11. QED
  BY <1>1, <1>2, <1>3, <1>4, <1>5, <1>6, <1>7, <1>8, <1>9, <1>10
     DEF Configure, FromConfig, NewByHand, ReadFails, UnmarshalFails, ValidateFails

(* When a configuration is refused, that is all there is. *)
LEMMA RefusalStays ==
  ASSUME ProgramInv, phase = "failed", [Next]_vars
  PROVE  UNCHANGED <<prog, configVars>>
<1>1. pc \notin {"args", "stat", "publish", "encode"}
  BY DEF ProgramInv, Configured
<1>2. ~Configure
  BY DEF Configure, FromConfig, NewByHand, StartFromConfig, ReadFile, ReadFails, Unmarshal,
     UnmarshalFails, ExpandEnv, StartNew, ApplyOption, NewReturns, Validate, ValidateFails
<1>3. QED
  BY <1>1, <1>2 DEF Next, vars, runVars, RejectArgs, PrintVersion, AcceptArgs, StatConfig,
     ConfigDone, PublishAll, PublishDone, WalkOn, ListLayer, PrintFails, LogWalkErr, WalkDone,
     Encode, EncodeFails, Exit, Environment, FileVanishes, Finished

LEMMA RefusedStays ==
  ASSUME RefusedInv, UNCHANGED <<prog, configVars>>
  PROVE  RefusedInv'
BY DEF configVars, configLocals, RefusedInv, Refused, IsWhole, IsCommand, Built,
   Expanded, Expand, Getenv

LEMMA RefusedNow ==
  ASSUME ProgramInv, ReadInv, Configure, phase # "failed", phase' = "failed"
  PROVE  RefusedInv'
<1>1. /\ ReadFails \/ UnmarshalFails \/ ValidateFails
      /\ pc = "config" /\ prog' = prog
  BY DEF Configure, runVars, FromConfig, NewByHand, StartFromConfig, ReadFile, Unmarshal,
     ExpandEnv, StartNew, ApplyOption, NewReturns, Validate
<1>2. CASE ReadFails
  BY <1>2 DEF ReadFails, ConfigFails, RefusedInv, Refused
<1>3. CASE UnmarshalFails
  <2>1. yamlFile.state = "malformed" \/ Refers(yamlFile.text[Port])
    BY <1>3 DEF UnmarshalFails, Decodable, ReadInv
  <2>2. QED
    BY <1>3, <2>1 DEF UnmarshalFails, ConfigFails, RefusedInv, Refused
<1>4. CASE ValidateFails
  <2>1. ~IsWhole(m) /\ ~Refers(yamlFile.text[Port])
    BY <1>4 DEF ValidateFails, ReadInv
  <2>2. IsCommand => Built /\ decoded = Expanded(yamlFile.text)
    BY <1>1, <1>4 DEF ValidateFails, ProgramInv, ConfigInv
  <2>3. UNCHANGED <<prog, environ, yamlFile, decoded, m>>
    BY <1>1, <1>4 DEF ValidateFails, ConfigFails
  <2>4. err' = NewGISError(ErrConfigInvalid, ErrorsNew(Problems(m)))
    BY <1>4 DEF ValidateFails, ConfigFails
  <2>5. Refused(Problems(m),
               /\ ~IsWhole(m) /\ ~Refers(yamlFile.text[Port])
               /\ IsCommand => Built /\ decoded = Expanded(yamlFile.text))'
    BY <2>1, <2>2, <2>3, <2>4
       DEF Refused, IsWhole, IsCommand, Built, Expanded, Expand, Getenv
  <2>6. QED
    BY <2>5 DEF RefusedInv
<1>5. QED
  BY <1>1, <1>2, <1>3, <1>4

LEMMA RefusedStep ==
  ASSUME ProgramInv, ReadInv, RefusedInv, [Next]_vars
  PROVE  RefusedInv'
<1>1. CASE phase = "failed"
  BY <1>1, RefusalStays, RefusedStays
<1>2. CASE phase' # "failed"
  BY <1>2 DEF RefusedInv
<1>3. CASE phase # "failed" /\ phase' = "failed"
  <2>1. Configure
    BY <1>3 DEF Next, vars, configVars, configLocals, RejectArgs, PrintVersion, AcceptArgs,
       StatConfig, ConfigDone, PublishAll, PublishDone, WalkOn, ListLayer, PrintFails,
       LogWalkErr, WalkDone, Encode, EncodeFails, Exit, Environment, FileVanishes, Finished
  <2>2. QED
    BY <1>3, <2>1, RefusedNow
<1>4. QED
  BY <1>1, <1>2, <1>3

LEMMA SettingInvariant == Spec => [](ProgramInv /\ TypedInv /\ ReadInv /\ RefusedInv)
<1>1. ASSUME ProgramInv, TypedInv, ReadInv, RefusedInv, [Next]_vars
      PROVE  ReadInv' /\ RefusedInv'
  BY <1>1, ReadStep, RefusedStep
<1>2. QED
  BY <1>1, SettingInitially, TypedInvariant, PTL DEF Spec

(* What the file says is what the work begins with: a literal as it is, a   *)
(* reference as the environment has it, and not expanded again.             *)
THEOREM SettingsAreThoseWritten == Spec => []NeverHalfConfigured
<1>1. ASSUME ProgramInv, TypedInv, ReadInv PROVE NeverHalfConfigured
  <2>1. WorkNeedsConfiguration
    BY <1>1 DEF ProgramInv, Configured, Built, WorkNeedsConfiguration
  <2>2. SUFFICES ASSUME WorkBegun, NEW f \in Fields, NEW written, written = yamlFile.text[f]
                 PROVE  /\ ~Refers(written) => m.text[f] = written
                        /\ \A v \in DOMAIN environ :
                             written = <<<<"var", v>>>> => m.text[f] = environ[v]
                        /\ written[1][1] = "lit" => m.text[f][1] = written[1]
    BY <2>1 DEF NeverHalfConfigured
  <2>3. Configured
    BY <1>1, <2>2 DEF ProgramInv
  <2>4. EnvironTyped /\ written \in Text
    BY <1>1, <2>2, EnvironmentsTyped DEF TypedInv, ConfigTypeOK, IsTexts
  <2>5. /\ m.text[f] = IF f = Port THEN written ELSE Expand(written)
        /\ m.text[f] # <<>>
    BY <2>2, <2>3 DEF Configured, Built, IsWhole, Expanded
  <2>6. f = Port => ~Refers(written)
    BY <1>1, <2>2, <2>3 DEF ReadInv, Configured
  <2>7. ~Refers(written) => m.text[f] = written
    BY <2>4, <2>5, ExpandLiteral
  <2>8. ASSUME NEW v \in DOMAIN environ, written = <<<<"var", v>>>>
        PROVE  m.text[f] = environ[v]
    <3>1. Refers(written)
      BY <2>8 DEF Refers
    <3>2. m.text[f] = Getenv(v)
      BY <2>4, <2>5, <2>6, <2>8, <3>1, ExpandReference
    <3>3. QED
      BY <2>8, <3>2 DEF Getenv
  <2>9. ASSUME written[1][1] = "lit"
        PROVE  m.text[f][1] = written[1]
    <3>1. written # <<>>
      BY <2>5, ExpandNothing
    <3>2. BeginsLiteral(written)
      BY <2>9, <3>1 DEF BeginsLiteral
    <3>3. QED
      BY <2>4, <2>5, <3>2, ExpandKeepsFirst
  <2>10. QED
    BY <2>7, <2>8, <2>9
<1>2. QED
  BY <1>1, SettingInvariant, PTL

LEMMA GISErrorIs ==
  ASSUME NEW names
  PROVE  LET e == NewGISError(ErrConfigInvalid, ErrorsNew(names))
         IN ErrorsIs(e, ErrConfigInvalid) /\ Unwrap(e) = ErrorsNew(names)
<1> DEFINE e == <<ErrConfigInvalid>> \o <<names>>
<1>1. DOMAIN e = {1, 2} /\ e[1] = ErrConfigInvalid /\ e[2] = names
  BY ChainOfTwo
<1>2. e \in Seq({ErrConfigInvalid, names})
  OBVIOUS
<1>3. Len(e) = 2
  BY <1>1, <1>2
<1> HIDE DEF e
<1>4. /\ Tail(e) \in Seq({ErrConfigInvalid, names}) /\ Len(Tail(e)) = 1
      /\ Tail(e)[1] = e[2]
  BY <1>2, <1>3
<1>5. Tail(e) = <<names>>
  <2>1. PICK rest \in Seq({ErrConfigInvalid, names}) : rest = Tail(e)
    BY <1>4
  <2>2. /\ <<names>> \in Seq({ErrConfigInvalid, names}) /\ Len(<<names>>) = Len(rest)
        /\ \A i \in 1..Len(rest) : rest[i] = <<names>>[i]
    BY <1>1, <1>4, <2>1
  <2>3. QED
    BY <2>1, <2>2, SeqEqual
<1>6. ErrorsIs(e, ErrConfigInvalid)
  BY <1>1 DEF ErrorsIs
<1>7. QED
  BY <1>5, <1>6 DEF e, NewGISError, ErrorsNew, Unwrap

(* A field that only refers to what is not set is empty, the port included. *)
LEMMA UnsetIsEmpty ==
  ASSUME TypedInv, Built, decoded = Expanded(yamlFile.text), ~Refers(yamlFile.text[Port]),
         NEW f \in Fields, RefersToNothing(yamlFile.text[f])
  PROVE  m.text[f] = <<>>
<1>1. yamlFile.text[f] \in Text
  BY DEF TypedInv, ConfigTypeOK, IsTexts
<1>2. m.text[f] = IF f = Port THEN yamlFile.text[f] ELSE Expand(yamlFile.text[f])
  BY DEF Built, Expanded
<1>3. CASE f = Port
  <2>1. PICK t \in Text : t = yamlFile.text[f]
    BY <1>1
  <2>2. \A i \in DOMAIN t : t[i] \in ToSet(t)
    BY DEF ToSet
  <2>3. DOMAIN t = {}
    BY <1>3, <2>1, <2>2 DEF Refers, RefersToNothing
  <2>4. t = <<>>
    <3>1. t \in Seq(PieceSet) /\ 1 \notin DOMAIN t
      BY <2>3 DEF Text, PieceSet
    <3>2. QED
      BY <3>1
  <2>5. QED
    BY <1>2, <1>3, <2>1, <2>4
<1>4. CASE f # Port
  BY <1>1, <1>2, <1>4, ExpandEmpty
<1>5. QED
  BY <1>3, <1>4

(* A refused configuration is refused as one, and for a reason that is      *)
(* there: the file was not read or not decoded, or every field that is      *)
(* named is empty, and every empty one is named (manager.go:61-101,         *)
(* utils.go:30-61).                                                         *)
THEOREM RefusalsAreJustified == Spec => []RefusalSaysWhy
<1>1. ASSUME TypedInv, RefusedInv, phase = "failed"
      PROVE  ErrorsIs(err, ErrConfigInvalid) /\ Reason
  <2>1. CASE Refused(<<"read">>, disk.state \in {"absent", "unreadable"})
    BY <2>1, GISErrorIs DEF Refused, Reason
  <2>2. CASE Refused(<<"unmarshal">>,
                    yamlFile.state = "malformed" \/ Refers(yamlFile.text[Port]))
    BY <2>2, GISErrorIs DEF Refused, Reason
  <2>3. CASE Refused(Problems(m),
                    /\ ~IsWhole(m) /\ ~Refers(yamlFile.text[Port])
                    /\ IsCommand => Built /\ decoded = Expanded(yamlFile.text))
    <3> DEFINE cause == Unwrap(err)
               problems == Head(cause)
    <3>1. ErrorsIs(err, ErrConfigInvalid) /\ cause = <<Problems(m)>>
      BY <2>3, GISErrorIs DEF Refused, ErrorsNew
    <3>2. Len(cause) = 1 /\ problems = Problems(m)
      BY <3>1
    <3>3. ToSet(problems) = {f \in Fields : m.text[f] = <<>>} /\ IsInjective(problems)
      BY <3>2, ProblemsAre
    <3>4. problems # <<>>
      <4>1. PICK f \in Fields : m.text[f] = <<>>
        BY <2>3 DEF Refused, IsWhole
      <4>2. ToSet(<<>>) = {}
        BY DEF ToSet
      <4>3. QED
        BY <3>3, <4>1, <4>2
    <3>5. ASSUME IsCommand, NEW f \in Fields,
                 \A p \in ToSet(yamlFile.text[f]) : p[1] = "var" /\ Getenv(p[2]) = <<>>
          PROVE  f \in ToSet(problems)
      <4>1. RefersToNothing(yamlFile.text[f])
        BY <3>5 DEF RefersToNothing
      <4>2. m.text[f] = <<>>
        BY <1>1, <2>3, <3>5, <4>1, UnsetIsEmpty DEF Refused
      <4>3. QED
        BY <3>3, <4>2
    <3>6. QED
      BY <3>1, <3>2, <3>3, <3>4, <3>5 DEF Reason
  <2>4. QED
    BY <1>1, <2>1, <2>2, <2>3 DEF RefusedInv
<1>2. QED
  BY <1>1, SettingInvariant, PTL DEF RefusalSaysWhy
=============================================================================

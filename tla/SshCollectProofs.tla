--------------------------- MODULE SshCollectProofs ---------------------------
(***************************************************************************)
(* What the collection keeps of the outputs of any hosts, and at the end   *)
(* what one of its commands promises of its output.                        *)
(*                                                                         *)
(* SshCollect reads outputs joined into one text, a theorem compares that  *)
(* with what a host told output by output.  The two agree if the outputs   *)
(* are legible: each tells by itself what it is said to tell; of a name,   *)
(* none comes out of order (InOrder) after an earlier one; of a load, a    *)
(* line without a figure hides none (Unhidden).  These are hypotheses of   *)
(* the theorems, about the constant Outputs alone.                         *)
(***************************************************************************)
EXTENDS SshCollect, SshCommand, SequenceTheorems, WellFoundedInduction, TLAPS

-----------------------------------------------------------------------------
(* The first of several lines.                                             *)

\* Every set of numbers has a least one.
LEMMA Least == ASSUME NEW I, I \subseteq Nat, I # {}
               PROVE  Min(I) \in I /\ \A j \in I : Min(I) <= j
<1> DEFINE R == OpToRel(<, Nat)
<1>1. IsWellFoundedOn(R, Nat)
  BY NatLessThanWellFounded
<1>2. PICK m \in I : \A y \in I : ~ (<<y, m>> \in R)
  BY <1>1, WFMin
<1>3. ASSUME NEW y \in I PROVE  m <= y
  <2>1. y \in Nat /\ m \in Nat
    OBVIOUS
  <2>2. y < m => <<y, m>> \in R
    BY <2>1 DEF OpToRel
  <2> HIDE DEF R
  <2> QED
    BY <1>2, <2>1, <2>2
<1> QED
  BY <1>3 DEF Min

\* The least number is the one that is below all.
LEMMA LeastIs == ASSUME NEW I, I \subseteq Nat, NEW m \in I,
                        \A j \in I : m <= j
                 PROVE  Min(I) = m
<1>1. Min(I) \in I /\ Min(I) <= m
  BY Least
<1>2. Min(I) \in Nat /\ m \in Nat /\ m <= Min(I)
  BY <1>1
<1> HIDE DEF Min
<1> QED
  BY <1>1, <1>2

\* The places of the lines of P.
At(t, P) == {j \in DOMAIN t : t[j] \in P}

\* The first line of P in two texts is that of the first text that has one.
LEMMA FirstOfTwo ==
  ASSUME NEW S, NEW t \in Seq(S), NEW x \in Seq(S), NEW P
  PROVE  /\ At(t \o x, P) = {} <=> At(t, P) = {} /\ At(x, P) = {}
         /\ First(t \o x, At(t \o x, P))
              = IF At(t, P) # {} THEN First(t, At(t, P)) ELSE First(x, At(x, P))
<1> DEFINE A == At(t, P)
           B == At(x, P)
           C == At(t \o x, P)
<1>1. /\ A \subseteq Nat /\ B \subseteq Nat /\ C \subseteq Nat
      /\ A = {j \in 1 .. Len(t) : t[j] \in P}
      /\ B = {j \in 1 .. Len(x) : x[j] \in P}
      /\ C = {j \in 1 .. Len(t) + Len(x) : (t \o x)[j] \in P}
  BY DEF At
<1>2. /\ \A j \in 1 .. Len(t) : (t \o x)[j] = t[j]
      /\ \A j \in 1 .. Len(x) : (t \o x)[Len(t) + j] = x[j]
      /\ Len(t) \in Nat /\ Len(x) \in Nat
  OBVIOUS
<1> HIDE DEF A, B, C
<1>3. /\ \A j \in A : j \in C
      /\ \A j \in B : Len(t) + j \in C
  BY <1>1, <1>2
<1>4. \A j \in C : j \in A \/ (j > Len(t) /\ j - Len(t) \in B)
  <2> SUFFICES ASSUME NEW j \in C, j > Len(t)
               PROVE  j - Len(t) \in B
    BY <1>1, <1>2
  <2>1. j - Len(t) \in 1 .. Len(x) /\ Len(t) + (j - Len(t)) = j
    BY <1>1, <1>2
  <2> QED
    BY <1>1, <1>2, <2>1
<1>5. C = {} <=> A = {} /\ B = {}
  BY <1>3, <1>4
<1>6. CASE A # {}
  <2>1. Min(A) \in A /\ \A j \in A : Min(A) <= j
    BY <1>1, <1>6, Least
  <2>2. \A j \in C : Min(A) <= j
    BY <1>1, <1>2, <1>4, <2>1
  <2>3. Min(C) = Min(A)
    BY <1>1, <1>3, <2>1, <2>2, LeastIs
  <2>4. (t \o x)[Min(C)] = t[Min(A)]
    BY <1>1, <1>2, <2>1, <2>3
  <2> QED
    BY <1>5, <1>6, <2>4 DEF First, A, B, C
<1>7. CASE A = {} /\ B # {}
  <2>1. Min(B) \in B /\ \A j \in B : Min(B) <= j
    BY <1>1, <1>7, Least
  <2>2. Len(t) + Min(B) \in C
    BY <1>3, <2>1
  <2>3. \A j \in C : Len(t) + Min(B) <= j
    <3> SUFFICES ASSUME NEW j \in C PROVE Len(t) + Min(B) <= j
      OBVIOUS
    <3>1. j - Len(t) \in B
      BY <1>4, <1>7
    <3>2. Min(B) <= j - Len(t) /\ j \in Nat /\ Min(B) \in Nat
      BY <1>1, <2>1, <3>1
    <3> QED
      BY <1>2, <3>2
  <2>4. Min(C) = Len(t) + Min(B)
    BY <1>1, <2>2, <2>3, LeastIs
  <2>5. (t \o x)[Min(C)] = x[Min(B)]
    BY <1>1, <1>2, <2>1, <2>4
  <2> QED
    BY <1>5, <1>7, <2>5 DEF First, A, B, C
<1>8. CASE A = {} /\ B = {}
  BY <1>5, <1>8 DEF First, A, B, C
<1> QED
  BY <1>6, <1>7, <1>8

-----------------------------------------------------------------------------
(* What the parsers of a field look for: lines of several kinds, one kind   *)
(* after the other.                                                         *)

\* The outputs that a gather may get, and the lines of all of them.
Given(h, g) == UNION {Outputs[h][g][c] : c \in DOMAIN Outputs[h][g]}

Printed ==
  UNION {ToSet(out.text) : out \in
           UNION {Given(h, g) : h \in Hosts, g \in Gathers}}

Marked(k) == {l \in Printed : l.k = k}

Fields == {"hostname", "model", "version", "mac", "cpu", "memory"}

\* The lines that tell a field, in the order in which they are looked for.
Sources(f) ==
  CASE f = "hostname" -> <<Marked("junosHost"), Marked("uptime"),
                           Marked("unameHost"),
                           {l \in Marked("name") : l.v \notin BadNames}>>
    [] f = "model" -> [j \in DOMAIN ModelKinds |-> Marked(ModelKinds[j])]
    [] f = "version" -> [j \in DOMAIN VersionKinds |-> Marked(VersionKinds[j])]
    [] f = "cpu" -> [j \in DOMAIN CPUKinds |-> Marked(CPUKinds[j])]
    [] f = "memory" -> [j \in DOMAIN MemoryKinds |-> Marked(MemoryKinds[j])]
    [] f = "mac" -> <<Marked("labeledMAC"),
                      {l \in Marked("labeledMAC") \cup Marked("mac") :
                         l.v # None}>>

\* What the first line of each of them says.
Said(f, t) ==
  [j \in DOMAIN Sources(f) |->
     LET v == First(t, At(t, Sources(f)[j]))
     IN  IF f = "hostname" /\ j = 2 /\ v \in BadNames THEN None ELSE v]

\* The first that says something.
Reads(f, t) ==
  LET known == {j \in DOMAIN Sources(f) : Said(f, t)[j] # None}
  IN  IF known = {} THEN None ELSE Said(f, t)[Min(known)]

\* The sources are numbered from 1.
LEMMA SourceList ==
  ASSUME NEW f \in Fields
  PROVE  \E len \in Nat : DOMAIN Sources(f) = 1 .. len
<1>1. CASE f = "hostname"
  BY <1>1 DEF Sources
<1>2. CASE f = "mac"
  BY <1>2 DEF Sources
<1>3. CASE f \in {"model", "version", "cpu", "memory"}
  <2>1. /\ DOMAIN ModelKinds = 1 .. 5 /\ DOMAIN VersionKinds = 1 .. 5
        /\ DOMAIN CPUKinds = 1 .. 4 /\ DOMAIN MemoryKinds = 1 .. 5
    BY DEF ModelKinds, VersionKinds, CPUKinds, MemoryKinds
  <2> QED
    BY <1>3, <2>1 DEF Sources
<1> QED
  BY <1>1, <1>2, <1>3 DEF Fields

\* A source speaks of two texts as of the first one that has a line of it.
LEMMA SaidOfTwo ==
  ASSUME NEW t \in Seq(Printed), NEW x \in Seq(Printed),
         NEW f \in Fields, NEW j \in DOMAIN Sources(f)
  PROVE  LET P == Sources(f)[j]
         IN  /\ At(t \o x, P) = {} <=> At(t, P) = {} /\ At(x, P) = {}
             /\ Said(f, t \o x)[j]
                  = IF At(t, P) # {} THEN Said(f, t)[j] ELSE Said(f, x)[j]
             /\ At(t, P) = {} => Said(f, t)[j] = None
<1> DEFINE P == Sources(f)[j]
<1>1. /\ At(t \o x, P) = {} <=> At(t, P) = {} /\ At(x, P) = {}
      /\ First(t \o x, At(t \o x, P))
           = IF At(t, P) # {} THEN First(t, At(t, P)) ELSE First(x, At(x, P))
  BY FirstOfTwo
<1>2. At(t, P) = {} => First(t, At(t, P)) = None
  BY DEF First
<1> QED
  BY <1>1, <1>2 DEF Said

\* The source that is read.
LEMMA ReadSource ==
  ASSUME NEW t, NEW f \in Fields
  PROVE  \/ /\ Reads(f, t) = None
            /\ \A j \in DOMAIN Sources(f) : Said(f, t)[j] = None
         \/ /\ Reads(f, t) # None
            /\ \E r \in DOMAIN Sources(f) :
                 /\ Reads(f, t) = Said(f, t)[r]
                 /\ \A j \in DOMAIN Sources(f) : j < r => Said(f, t)[j] = None
<1> DEFINE known == {j \in DOMAIN Sources(f) : Said(f, t)[j] # None}
<1>1. known \subseteq Nat
  BY SourceList
<1>2. CASE known = {}
  BY <1>2 DEF Reads
<1>3. CASE known # {}
  <2>1. Min(known) \in known /\ \A j \in known : Min(known) <= j
    BY <1>1, <1>3, Least
  <2>2. Reads(f, t) = Said(f, t)[Min(known)]
    BY <1>3 DEF Reads
  <2>3. \A j \in DOMAIN Sources(f) : j < Min(known) => j \notin known
    BY <1>1, <2>1
  <2> HIDE DEF Min
  <2> QED
    BY <2>1, <2>2, <2>3
<1> QED
  BY <1>2, <1>3

\* The first source that says something is the one that is read.
LEMMA ReadsSource ==
  ASSUME NEW t, NEW f \in Fields, NEW r \in DOMAIN Sources(f),
         Said(f, t)[r] # None,
         \A j \in DOMAIN Sources(f) : j < r => Said(f, t)[j] = None
  PROVE  Reads(f, t) = Said(f, t)[r]
<1>1. PICK q \in DOMAIN Sources(f) :
        /\ Reads(f, t) = Said(f, t)[q] /\ Said(f, t)[q] # None
        /\ \A j \in DOMAIN Sources(f) : j < q => Said(f, t)[j] = None
  BY ReadSource
<1>2. q \in Nat /\ r \in Nat
  BY SourceList
<1>3. ~(q < r) /\ ~(r < q)
  BY <1>1
<1> QED
  BY <1>1, <1>2, <1>3

\* What x says of f comes before nothing else that t has said, and no line of
\* t that says nothing hides it; but the first of all addresses may have a
\* label that an address of zeros had before.
InOrder(f, t, x) ==
  \A j \in DOMAIN Sources(f) :
    LET hides == At(t, Sources(f)[j]) # {}
        says == Said(f, x)[j]
    IN  says # None =>
          \/ \E m \in 1 .. j : Said(f, t)[m] # None
          \/ Reads(f, t) # None /\ (hides \/ says = Reads(f, t))
          \/ Reads(f, t) = None /\ (hides => f = "mac" /\ says = Said(f, x)[2])

\* The second source of an address has no line without one.
LEMMA MacShows ==
  ASSUME NEW t \in Seq(Printed), Said("mac", t)[2] = None
  PROVE  DOMAIN Sources("mac") = 1 .. 2 /\ At(t, Sources("mac")[2]) = {}
<1>1. /\ DOMAIN Sources("mac") = 1 .. 2
      /\ \A l \in Sources("mac")[2] : l.v # None
  BY DEF Sources
<1> DEFINE P == Sources("mac")[2]
<1>2. Said("mac", t)[2] = First(t, At(t, P))
  BY <1>1 DEF Said
<1>3. ASSUME At(t, P) # {} PROVE FALSE
  <2>1. At(t, P) \subseteq Nat
    BY DEF At
  <2>2. Min(At(t, P)) \in At(t, P)
    BY <1>3, <2>1, Least
  <2>3. t[Min(At(t, P))] \in P
    BY <2>2 DEF At
  <2>4. First(t, At(t, P)) = t[Min(At(t, P))].v
    BY <1>3 DEF First
  <2> QED
    BY <1>1, <1>2, <2>3, <2>4
<1> QED
  BY <1>1, <1>3

\* A text that is in order adds what is missing.
LEMMA ReadsOfTwo ==
  ASSUME NEW t \in Seq(Printed), NEW x \in Seq(Printed), NEW f \in Fields,
         InOrder(f, t, x)
  PROVE  Reads(f, t \o x) = Or(Reads(f, t), Reads(f, x))
<1> DEFINE D == DOMAIN Sources(f)
           Has1(j) == At(t, Sources(f)[j]) # {}
           T(j) == Said(f, t)[j]
           X(j) == Said(f, x)[j]
           B(j) == Said(f, t \o x)[j]
<1>1. /\ D \subseteq Nat
      /\ \A j \in D : B(j) = IF Has1(j) THEN T(j) ELSE X(j)
      /\ \A j \in D : ~Has1(j) => T(j) = None
  BY SaidOfTwo, SourceList
<1>2. \A j \in D : X(j) # None =>
        \/ \E m \in 1 .. j : T(m) # None
        \/ Reads(f, t) # None /\ (Has1(j) \/ X(j) = Reads(f, t))
        \/ Reads(f, t) = None /\ (Has1(j) => f = "mac" /\ X(j) = X(2))
  BY DEF InOrder
<1>3. \A j \in D : \A m \in 1 .. j : m \in D
  BY SourceList
<1>4. ASSUME NEW r \in D, B(r) # None, \A j \in D : j < r => B(j) = None
      PROVE  Reads(f, t \o x) = B(r)
  BY <1>4, ReadsSource
<1>5. (\A j \in D : B(j) = None) => Reads(f, t \o x) = None
  BY ReadSource
<1>6. (f = "mac" /\ T(2) = None) => D = 1 .. 2 /\ ~Has1(2)
  BY MacShows
<1>7. CASE Reads(f, t) # None
  <2>1. PICK r \in D : /\ Reads(f, t) = T(r) /\ T(r) # None
                       /\ \A j \in D : j < r => T(j) = None
    BY <1>7, ReadSource
  <2> DEFINE v == Reads(f, t)
  <2> HIDE DEF D, Has1, T, X, B, v
  <2>2. \A j \in D : j < r => B(j) \in {None, v}
    <3> SUFFICES ASSUME NEW j \in D, j < r, B(j) # None PROVE B(j) = v
      OBVIOUS
    <3>1. T(j) = None /\ ~Has1(j) /\ X(j) = B(j) /\ X(j) # None
      BY <1>1, <2>1
    <3>2. \A m \in 1 .. j : T(m) = None
      <4> SUFFICES ASSUME NEW m \in 1 .. j PROVE T(m) = None
        OBVIOUS
      <4>1. m \in D /\ m < r
        BY <1>1, <1>3
      <4> QED
        BY <2>1, <4>1
    <3> QED
      BY <1>2, <1>7, <3>1, <3>2 DEF v
  <2>3. B(r) = v /\ v # None
    BY <1>1, <2>1 DEF v
  <2> DEFINE known == {j \in D : B(j) # None}
  <2>4. Min(known) \in known /\ \A j \in known : Min(known) <= j
    <3>1. known \subseteq Nat /\ known # {}
      BY <1>1, <2>3
    <3> QED
      BY <3>1, Least
  <2>5. PICK q \in known : \A j \in known : q <= j
    BY <2>4
  <2>6. q \in D /\ q <= r /\ B(q) # None /\ \A j \in D : j < q => B(j) = None
    <3>1. r \in known
      BY <2>3
    <3>2. q <= r /\ q \in Nat /\ r \in Nat
      BY <2>5, <3>1, <1>1
    <3> QED
      BY <2>5, <3>2, <1>1
  <2>7. B(q) = v
    BY <2>2, <2>3, <2>6, <1>1
  <2>8. Reads(f, t \o x) = v
    BY <1>4, <2>6, <2>7
  <2> QED
    BY <2>3, <2>8 DEF Or, v
<1>8. CASE Reads(f, t) = None
  <2>1. \A j \in D : T(j) = None
    BY <1>8, ReadSource
  <2>2. \A j \in D : B(j) = IF Has1(j) THEN None ELSE X(j)
    BY <1>1, <2>1
  <2>3. CASE Reads(f, x) = None
    <3>1. \A j \in D : X(j) = None
      BY <2>3, ReadSource
    <3> QED
      BY <1>5, <1>8, <2>2, <2>3, <3>1 DEF Or
  <2>4. CASE Reads(f, x) # None
    <3>1. PICK r \in D : /\ Reads(f, x) = X(r) /\ X(r) # None
                         /\ \A j \in D : j < r => X(j) = None
      BY <2>4, ReadSource
    <3> HIDE DEF D, Has1, T, X, B
    <3>2. \A j \in D : j < r => B(j) = None
      BY <2>2, <3>1
    <3>3. Has1(r) => f = "mac" /\ X(r) = X(2)
      BY <1>2, <1>3, <1>8, <2>1, <3>1
    <3>4. CASE ~Has1(r)
      BY <1>4, <1>8, <2>2, <3>1, <3>2, <3>4 DEF Or
    <3>5. CASE Has1(r)
      <4>1. f = "mac" /\ X(2) = X(r)
        BY <3>3, <3>5
      <4>2. 2 \in D /\ D = 1 .. 2 /\ ~Has1(2)
        <5>1. T(2) = None
          <6>1. 2 \in D
            BY <4>1 DEF D, Sources
          <6> QED
            BY <2>1, <6>1
        <5> QED
          BY <1>6, <4>1, <5>1
      <4>3. B(2) = X(r) /\ B(1) = None
        BY <2>2, <3>1, <3>5, <4>1, <4>2
      <4>4. Reads(f, t \o x) = X(r)
        BY <1>4, <3>1, <4>2, <4>3
      <4> QED
        BY <1>8, <3>1, <4>4 DEF Or
    <3> QED
      BY <3>4, <3>5
  <2> QED
    BY <2>3, <2>4
<1> QED
  BY <1>7, <1>8

\* What is in order after each of two texts is so after both.
LEMMA OrderOfTwo ==
  ASSUME NEW t \in Seq(Printed), NEW x \in Seq(Printed), NEW y,
         NEW f \in Fields,
         InOrder(f, t, x), InOrder(f, t, y), InOrder(f, x, y)
  PROVE  InOrder(f, t \o x, y)
<1> DEFINE D == DOMAIN Sources(f)
           HasT(j) == At(t, Sources(f)[j]) # {}
           HasX(j) == At(x, Sources(f)[j]) # {}
           HasB(j) == At(t \o x, Sources(f)[j]) # {}
           T(j) == Said(f, t)[j]
           X(j) == Said(f, x)[j]
           B(j) == Said(f, t \o x)[j]
           Y(j) == Said(f, y)[j]
<1>1. \A j \in D : /\ HasB(j) <=> HasT(j) \/ HasX(j)
                   /\ B(j) = IF HasT(j) THEN T(j) ELSE X(j)
                   /\ ~HasT(j) => T(j) = None
                   /\ ~HasX(j) => X(j) = None
  BY SaidOfTwo
<1>2. D \subseteq Nat /\ \A j \in D : \A m \in 1 .. j : m \in D
  BY SourceList
<1>3. Reads(f, t \o x) = Or(Reads(f, t), Reads(f, x))
  BY ReadsOfTwo
<1> SUFFICES ASSUME NEW j \in D, Y(j) # None
             PROVE  \/ \E m \in 1 .. j : B(m) # None
                    \/ Reads(f, t \o x) # None
                         /\ (HasB(j) \/ Y(j) = Reads(f, t \o x))
                    \/ Reads(f, t \o x) = None
                         /\ (HasB(j) => f = "mac" /\ Y(j) = Y(2))
  BY DEF InOrder
<1>4. /\ \/ \E m \in 1 .. j : T(m) # None
         \/ Reads(f, t) # None /\ (HasT(j) \/ Y(j) = Reads(f, t))
         \/ Reads(f, t) = None /\ (HasT(j) => f = "mac" /\ Y(j) = Y(2))
      /\ \/ \E m \in 1 .. j : X(m) # None
         \/ Reads(f, x) # None /\ (HasX(j) \/ Y(j) = Reads(f, x))
         \/ Reads(f, x) = None /\ (HasX(j) => f = "mac" /\ Y(j) = Y(2))
  BY DEF InOrder
<1>5. CASE Reads(f, t) # None
  <2>1. Reads(f, t \o x) = Reads(f, t)
    BY <1>3, <1>5 DEF Or
  <2>2. ASSUME NEW m \in 1 .. j, T(m) # None PROVE B(m) # None
    BY <1>1, <1>2, <2>2
  <2> HIDE DEF D, HasT, HasX, HasB, T, X, B, Y
  <2> QED
    BY <1>1, <1>4, <1>5, <2>1, <2>2
<1>6. CASE Reads(f, t) = None
  <2>1. \A m \in D : T(m) = None
    BY <1>6, ReadSource
  <2>2. Reads(f, t \o x) = Reads(f, x)
    BY <1>3, <1>6 DEF Or
  <2>3. \A m \in 1 .. j : m \in D
    BY <1>2
  <2>4. CASE Reads(f, x) = None
    <3>1. \A m \in D : X(m) = None
      BY <2>4, ReadSource
    <3> HIDE DEF D, HasT, HasX, HasB, T, X, B, Y
    <3> QED
      BY <1>1, <1>4, <1>6, <2>1, <2>2, <2>3, <2>4, <3>1
  <2>5. CASE Reads(f, x) # None
    <3>1. CASE HasX(j) \/ Y(j) = Reads(f, x)
      BY <1>1, <2>2, <2>5, <3>1
    \* x speaks at a place before j; it is heard there or, if its line is
    \* hidden, at the second place.
    <3>2. CASE ~HasX(j) /\ Y(j) # Reads(f, x)
      <4>1. PICK m \in 1 .. j : X(m) # None
        BY <1>4, <2>5, <3>2
      <4>2. m \in D /\ m # j
        BY <1>1, <2>3, <3>2, <4>1
      <4>3. CASE ~HasT(m)
        BY <1>1, <4>1, <4>2, <4>3
      <4>4. CASE HasT(m)
        <5>1. PICK r \in D : /\ Reads(f, x) = X(r) /\ X(r) # None
                             /\ \A k \in D : k < r => X(k) = None
          BY <2>5, ReadSource
        <5>2. r <= m /\ r \in Nat /\ m \in Nat /\ r \in 1 .. j
          <6>1. r \in Nat /\ m \in Nat /\ r >= 1
            BY <1>2, <4>2, SourceList
          <6>2. ~(m < r)
            BY <4>1, <4>2, <5>1
          <6> HIDE DEF D, HasT, HasX, HasB, T, X, B, Y
          <6> QED
            BY <6>1, <6>2, <1>2
        <5>3. CASE ~HasT(r)
          BY <1>1, <5>1, <5>2, <5>3
        <5>4. CASE HasT(r)
          <6>1. f = "mac" /\ X(r) = X(2)
            <7>1. \/ \E k \in 1 .. r : T(k) # None
                  \/ Reads(f, t) = None /\ (HasT(r) => f = "mac" /\ X(r) = X(2))
              BY <1>6, <5>1 DEF InOrder
            <7>2. \A k \in 1 .. r : k \in D
              BY <1>2
            <7> QED
              BY <2>1, <5>4, <7>1, <7>2
          <6>2. D = 1 .. 2 /\ ~HasT(2)
            <7>1. 2 \in D
              BY <6>1 DEF Sources
            <7> QED
              BY <2>1, <6>1, <7>1, MacShows
          <6>3. j = 2 /\ X(2) # None
            BY <4>2, <5>1, <6>1, <6>2, <1>2
          <6> QED
            BY <1>1, <3>2, <6>3
        <5> QED
          BY <5>3, <5>4
      <4> QED
        BY <4>3, <4>4
    <3> QED
      BY <3>1, <3>2
  <2> QED
    BY <2>4, <2>5
<1> QED
  BY <1>5, <1>6

\* An empty text says nothing, and everything is in order after it.
LEMMA Nothing ==
  ASSUME NEW f \in Fields
  PROVE  /\ <<>> \in Seq(Printed)
         /\ Reads(f, <<>>) = None
         /\ \A y : InOrder(f, <<>>, y)
<1>1. \A P : At(<<>>, P) = {}
  BY DEF At
<1>2. \A j \in DOMAIN Sources(f) : Said(f, <<>>)[j] = None
  BY <1>1 DEF Said, First
<1>3. Reads(f, <<>>) = None
  BY <1>2, ReadSource
<1> QED
  BY <1>1, <1>3 DEF InOrder

-----------------------------------------------------------------------------
(* The parsers read these sources.                                         *)

\* Of reads the first line of its kind,
LEMMA OfSource ==
  ASSUME NEW t \in Seq(Printed), NEW k
  PROVE  Of(t, k) = First(t, At(t, Marked(k)))
<1> DEFINE I == {j \in 1 .. Len(t) : t[j].k \in {k}}
<1>1. I = At(t, Marked(k))
  BY DEF At, Marked
<1>2. FirstAt(t, {k}) = IF I # {} THEN Min(I) ELSE 0
  BY DEF FirstAt, SelectInSeq, IsOf
<1>3. Has(t, {k}) <=> I # {}
  BY DEF Has, IsOf
<1>4. Of(t, k) = IF I # {} THEN t[FirstAt(t, {k})].v ELSE None
  BY <1>3 DEF Of, Captured
<1> HIDE DEF I
<1> QED
  BY <1>1, <1>2, <1>4 DEF First

\* FirstKnown a list of kinds,
LEMMA KindsRead ==
  ASSUME NEW t \in Seq(Printed), NEW f \in Fields \ {"hostname"}, NEW ks,
         Sources(f) = [j \in DOMAIN ks |-> Marked(ks[j])]
  PROVE  FirstKnown(t, ks) = Reads(f, t)
<1>1. DOMAIN Sources(f) = DOMAIN ks
  OBVIOUS
<1>2. \A j \in DOMAIN ks : Said(f, t)[j] = Of(t, ks[j])
  BY <1>1, OfSource DEF Said
<1>3. {j \in DOMAIN ks : Of(t, ks[j]) # None}
        = {j \in DOMAIN Sources(f) : Said(f, t)[j] # None}
  BY <1>1, <1>2
<1> DEFINE known == {j \in DOMAIN ks : Of(t, ks[j]) # None}
<1>4. known # {} => Min(known) \in DOMAIN ks
  <2>1. known \subseteq Nat
    BY <1>1, SourceList
  <2> QED
    BY <2>1, Least
<1> HIDE DEF Min
<1> QED
  BY <1>2, <1>3, <1>4 DEF FirstKnown, Reads

\* parseCPU and parseMemory theirs,
LEMMA HealthRead ==
  ASSUME NEW t \in Seq(Printed)
  PROVE  ParseCPU(t) = Reads("cpu", t) /\ ParseMemory(t) = Reads("memory", t)
<1>1. /\ Sources("cpu") = [j \in DOMAIN CPUKinds |-> Marked(CPUKinds[j])]
      /\ Sources("memory") = [j \in DOMAIN MemoryKinds |-> Marked(MemoryKinds[j])]
  BY DEF Sources
<1> QED
  BY <1>1, KindsRead DEF ParseCPU, ParseMemory, Fields

\* parseSysInfo the four sources of a name,
LEMMA NameRead ==
  ASSUME NEW t \in Seq(Printed)
  PROVE  ParseSysInfo(t).hostname = Reads("hostname", t)
<1> DEFINE s == Said("hostname", t)
           lone == {l \in Marked("name") : l.v \notin BadNames}
<1>1. /\ DOMAIN Sources("hostname") = 1 .. 4
      /\ Sources("hostname")[1] = Marked("junosHost")
      /\ Sources("hostname")[2] = Marked("uptime")
      /\ Sources("hostname")[3] = Marked("unameHost")
      /\ Sources("hostname")[4] = lone
  BY DEF Sources
<1>2. /\ s[1] = Of(t, "junosHost")
      /\ s[2] = UptimeName(t)
      /\ s[3] = Of(t, "unameHost")
      /\ s[4] = First(t, At(t, lone))
  <2>1. \A j \in 1 .. 4 :
          s[j] = LET v == First(t, At(t, Sources("hostname")[j]))
                 IN  IF j = 2 /\ v \in BadNames THEN None ELSE v
    BY <1>1 DEF Said
  <2>2. \A k : Of(t, k) = First(t, At(t, Marked(k)))
    BY OfSource
  <2> HIDE DEF s, lone
  <2>3. /\ s[1] = First(t, At(t, Marked("junosHost")))
        /\ s[3] = First(t, At(t, Marked("unameHost")))
        /\ s[4] = First(t, At(t, lone))
    BY <1>1, <2>1
  <2>4. s[2] = LET v == First(t, At(t, Marked("uptime")))
               IN  IF v \in BadNames THEN None ELSE v
    BY <1>1, <2>1
  <2> QED
    BY <2>2, <2>3, <2>4 DEF UptimeName
<1>3. LoneName(t) = First(t, At(t, lone))
  <2>1. {j \in DOMAIN t : t[j].k = "name" /\ t[j].v \notin BadNames}
          = At(t, lone)
    BY DEF At, Marked
  <2> QED
    BY <2>1 DEF LoneName
<1> HIDE DEF s, lone
<1>4. /\ ParseSysInfo(t).hostname = Or(Or(Or(s[1], s[2]), s[3]), s[4])
  BY <1>2, <1>3 DEF ParseSysInfo
<1>5. \A r \in 1 .. 4 :
        s[r] # None /\ (\A j \in 1 .. 4 : j < r => s[j] = None)
          => Reads("hostname", t) = s[r]
  BY <1>1, ReadsSource DEF s, Fields
<1>6. (\A r \in 1 .. 4 : s[r] = None) => Reads("hostname", t) = None
  BY <1>1, ReadSource DEF s, Fields
<1> QED
  BY <1>4, <1>5, <1>6 DEF Or

\* parseMAC the labeled addresses before the others,
LEMMA AddressRead ==
  ASSUME NEW t \in Seq(Printed)
  PROVE  ParseMAC(t) = Reads("mac", t)
<1> DEFINE s == Said("mac", t)
           shown == {l \in Marked("labeledMAC") \cup Marked("mac") : l.v # None}
<1>1. /\ DOMAIN Sources("mac") = 1 .. 2
      /\ Sources("mac")[1] = Marked("labeledMAC")
      /\ Sources("mac")[2] = shown
  BY DEF Sources
<1>2. s[1] = Of(t, "labeledMAC") /\ s[2] = First(t, At(t, shown))
  <2>1. \A j \in 1 .. 2 : s[j] = First(t, At(t, Sources("mac")[j]))
    BY <1>1 DEF Said
  <2> HIDE DEF s, shown
  <2> QED
    BY <1>1, <2>1, OfSource
<1>3. {j \in DOMAIN t : t[j].k \in {"labeledMAC", "mac"} /\ t[j].v # None}
        = At(t, shown)
  BY DEF At, Marked
<1> HIDE DEF s, shown
<1>4. ParseMAC(t) = Or(s[1], s[2])
  BY <1>2, <1>3 DEF ParseMAC
<1>5. \A r \in 1 .. 2 :
        s[r] # None /\ (\A j \in 1 .. 2 : j < r => s[j] = None)
          => Reads("mac", t) = s[r]
  BY <1>1, ReadsSource DEF s, Fields
<1>6. (\A r \in 1 .. 2 : s[r] = None) => Reads("mac", t) = None
  BY <1>1, ReadSource DEF s, Fields
<1> QED
  BY <1>4, <1>5, <1>6 DEF Or

\* What a text says that is of use, if no pattern finds the version.
Plain == {l \in Printed : l.k # "error"}

\* and a version may also be the first useful line.
LEMMA SystemRead ==
  ASSUME NEW t \in Seq(Printed)
  PROVE  /\ ParseSysInfo(t).hostname = Reads("hostname", t)
         /\ ParseSysInfo(t).model = Reads("model", t)
         /\ ParseSysInfo(t).version
              = Or(Reads("version", t), First(t, At(t, Plain)))
         /\ DOMAIN ParseSysInfo(t) = Identity
<1>1. /\ Sources("model") = [j \in DOMAIN ModelKinds |-> Marked(ModelKinds[j])]
      /\ Sources("version")
           = [j \in DOMAIN VersionKinds |-> Marked(VersionKinds[j])]
  BY DEF Sources
<1>2. /\ FirstKnown(t, ModelKinds) = Reads("model", t)
      /\ FirstKnown(t, VersionKinds) = Reads("version", t)
  BY <1>1, KindsRead DEF Fields
<1>3. {j \in DOMAIN t : t[j].k # "error"} = At(t, Plain)
  BY DEF At, Plain
<1> QED
  BY <1>2, <1>3, NameRead DEF ParseSysInfo, UsefulLine, Identity

-----------------------------------------------------------------------------
(* What the theorems ask of the hosts' outputs.                            *)

\* The fields fs hold v for f, unless that is nothing.
Tells(fs, f, v, nothing) ==
  /\ f \in DOMAIN fs <=> v # nothing
  /\ f \in DOMAIN fs => fs[f] = v

\* What a gather may get of its exec commands from the j-th on.
From(h, g, j) ==
  UNION {Outputs[h][g][c] : c \in {d \in DOMAIN Outputs[h][g] :
                                     j <= d /\ d < Len(Outputs[h][g])}}

\* The lists, the gather that asks for each, and what it reads in a text.
Lists == {"neighbors", "interfaces"}
GatherOf(f) == IF f = "neighbors" THEN "lldp" ELSE "ifaces"
Parsed(f, t) == IF f = "neighbors" THEN ParseLLDP(t) ELSE ParseIfaces(t)

\* An output tells of a list what is read in it alone, if it is one of the
\* gather for that list, and nothing otherwise.
ListedAlone(f) ==
  \A h \in Hosts, g \in Gathers : \A out \in Given(h, g) :
    Tells(out.told, f, IF g = GatherOf(f) THEN Parsed(f, out.text) ELSE <<>>, <<>>)

\* So it is of the other fields and the gathers gs.
ReadAlone(f, gs) ==
  \A h \in Hosts, g \in Gathers : \A out \in Given(h, g) :
    Tells(out.told, f, IF g \in gs THEN Reads(f, out.text) ELSE None, None)

\* No exec command is out of order after an earlier one.
OrderIn(f, g) ==
  \A h \in Hosts : \A c \in DOMAIN Outputs[h][g] :
    \A x \in Outputs[h][g][c], y \in From(h, g, c + 1) :
      c < Len(Outputs[h][g]) => InOrder(f, x.text, y.text)

\* A format that y fills in has a figure in t, or no line there at all.
Unhidden(f, t, y) ==
  \A j \in DOMAIN Sources(f) :
    Said(f, y)[j] # None => At(t, Sources(f)[j]) = {} \/ Said(f, t)[j] # None

\* No exec command hides a later one.
ShownIn(f, g) ==
  \A h \in Hosts : \A c \in DOMAIN Outputs[h][g] :
    \A x \in Outputs[h][g][c], y \in From(h, g, c + 1) :
      c < Len(Outputs[h][g]) => Unhidden(f, x.text, y.text)

\* Whatever the order in which the host's commands print the formats.
HealthLegible ==
  \A f \in {"cpu", "memory"} : ReadAlone(f, {"health"}) /\ ShownIn(f, "health")

\* The text has a model, a version or another line to show.
Useful(t) ==
  ParseSysInfo(t).model # None \/ ParseSysInfo(t).version # None

\* A host that has said something useful of itself says nothing new of that
\* when it is asked for its addresses.
IdentityLegible ==
  /\ \A f \in Identity \cup {"mac"} :
       /\ ReadAlone(f, {"version", "mac"})
       /\ OrderIn(f, "version") /\ OrderIn(f, "mac")
       /\ \A h \in Hosts : \A x \in Given(h, "version"), y \in From(h, "mac", 1) :
            InOrder(f, x.text, y.text)
  /\ \A h \in Hosts : \A x \in Given(h, "version"), y \in From(h, "mac", 1) :
       Useful(x.text) => Identity \cap DOMAIN y.told \subseteq DOMAIN x.told

\* What the one record tells goes before what the other does.
LEMMA Filling ==
  ASSUME NEW one, NEW other, NEW f, NEW v, NEW w, NEW nothing,
         Tells(one, f, v, nothing), Tells(other, f, w, nothing)
  PROVE  Tells(Filled(one, other), f, IF v = nothing THEN w ELSE v, nothing)
BY DEF Tells, Filled

\* An output is a sequence of lines that some host prints.
LEMMA OutputText ==
  ASSUME NEW h \in Hosts, NEW g \in Gathers, NEW out \in Given(h, g)
  PROVE  out.text \in Seq(Printed)
<1>1. PICK c \in DOMAIN Outputs[h][g] : out \in Outputs[h][g][c]
  BY DEF Given
<1>2. IsSeq(out.text)
  BY <1>1, CollectAssumption
<1>3. ToSet(out.text) \subseteq Printed
  <2> DEFINE All == UNION {Given(k, x) : k \in Hosts, x \in Gathers}
  <2>1. out \in All
    OBVIOUS
  <2> HIDE DEF All
  <2>2. ToSet(out.text) \subseteq UNION {ToSet(o.text) : o \in All}
    BY <2>1
  <2> QED
    BY <2>2 DEF Printed, All
<1>4. \A j \in 1 .. Len(out.text) : out.text[j] \in Printed
  BY <1>2, <1>3 DEF IsSeq, ToSet
<1> QED
  BY <1>2, <1>4 DEF IsSeq

\* A gather has a shell, and perhaps exec commands before it.
LEMMA OutputList ==
  ASSUME NEW h \in Hosts, NEW g \in Gathers
  PROVE  /\ Len(Outputs[h][g]) \in Nat \ {0}
         /\ DOMAIN Outputs[h][g] = 1 .. Len(Outputs[h][g])
         /\ \A j : From(h, g, j) \subseteq Given(h, g)
<1>1. IsSeq(Outputs[h][g]) /\ Outputs[h][g] # <<>>
  BY CollectAssumption
<1>2. Len(Outputs[h][g]) # 0
  BY <1>1 DEF IsSeq
<1> QED
  BY <1>1, <1>2 DEF IsSeq, From, Given

-----------------------------------------------------------------------------
(* The steps of a gather.                                                  *)

TextInv ==
  /\ gather \in Gathers \cup {"done"} /\ host \in Hosts
  /\ gather = "done" => step = "exec"
  /\ gather = "mac" => step # "shell"
  /\ i \in Nat \ {0}
  /\ text \in Seq(Printed) /\ raw \in Seq(Printed)
  /\ ~worked /\ step = "exec" => text = <<>>
  /\ step = "shell" => text = <<>>
  /\ info = [f \in Identity \cup Details |-> info[f]]

\* One exec command.
LEMMA ExecDoes ==
  ASSUME TextInv, Exec
  PROVE  /\ gather \in Gathers /\ step = "exec" /\ step' \in {"exec", "end"}
         /\ i' = i + 1 /\ UNCHANGED <<gather, raw, info, mac, host>>
         /\ \E out \in From(host, gather, i) :
              /\ out.text \in Seq(Printed)
              /\ text' = text \o Kept(gather, out.text)
              /\ ~worked' => ~worked /\ out.text = <<>>
              /\ step' = IF Enough(gather, out.text, text') THEN "end" ELSE "exec"
              /\ told' = Filled(told, out.told)
              /\ heard' = heard \cup {out.told}
              /\ \A f : OrderIn(f, gather) =>
                   \A y \in From(host, gather, i + 1) :
                     InOrder(f, out.text, y.text)
              /\ \A f : ShownIn(f, gather) =>
                   \A y \in From(host, gather, i + 1) :
                     Unhidden(f, out.text, y.text)
         /\ From(host, gather, i + 1) \subseteq From(host, gather, i)
<1>1. /\ gather \in Gathers /\ host \in Hosts /\ step = "exec"
      /\ i \in Nat \ {0} /\ i < Len(Outputs[host][gather])
      /\ i' = i + 1 /\ UNCHANGED <<gather, raw, info, mac, host>>
      /\ step' \in {"exec", "end"}
  BY OutputList DEF TextInv, Exec, learned, NumCommands
<1>2. PICK out \in Outputs[host][gather][i] :
        /\ text' = text \o Kept(gather, out.text)
        /\ ~worked' => ~worked /\ out.text = <<>>
        /\ step' = IF Enough(gather, out.text, text') THEN "end" ELSE "exec"
        /\ told' = Filled(told, out.told)
        /\ heard' = heard \cup {out.told}
  <2>1. PICK out \in Outputs[host][gather][i], failed \in BOOLEAN :
          /\ text' = Joined(text, Kept(gather, out.text))
          /\ worked' = \/ worked
                       \/ out.text # <<>>
                       \/ gather \notin {"version", "mac"} /\ ~failed
          /\ step' = IF Enough(gather, out.text, text') THEN "end" ELSE "exec"
          /\ told' = Filled(told, out.told)
          /\ heard' = heard \cup {out.told}
    BY DEF Exec
  <2>2. text' = text \o Kept(gather, out.text)
    BY <2>1 DEF Joined
  <2>3. ~worked' => ~worked /\ out.text = <<>>
    BY <2>1
  <2> QED
    BY <2>1, <2>2, <2>3
<1>3. i \in DOMAIN Outputs[host][gather]
  BY <1>1, OutputList
<1>4. out \in From(host, gather, i)
  BY <1>1, <1>2, <1>3 DEF From
<1>5. out.text \in Seq(Printed)
  BY <1>1, <1>4, OutputList, OutputText
<1>6. \A f : OrderIn(f, gather) =>
        \A y \in From(host, gather, i + 1) : InOrder(f, out.text, y.text)
  BY <1>1, <1>2, <1>3 DEF OrderIn
<1>7. From(host, gather, i + 1) \subseteq From(host, gather, i)
  BY <1>1, OutputList DEF From
<1>8. \A f : ShownIn(f, gather) =>
        \A y \in From(host, gather, i + 1) : Unhidden(f, out.text, y.text)
  BY <1>1, <1>2, <1>3 DEF ShownIn
<1> QED
  BY <1>1, <1>2, <1>4, <1>5, <1>6, <1>7, <1>8

\* The shell: nothing was gathered before it.
LEMMA ShellDoes ==
  ASSUME TextInv, Shell
  PROVE  /\ gather \in Gathers \ {"mac"} /\ step = "shell" /\ step' = "end"
         /\ text = <<>> /\ UNCHANGED <<gather, i, raw, info, mac, host>>
         /\ \E out \in Given(host, gather) :
              /\ out.text \in Seq(Printed)
              /\ text' = out.text /\ told' = Filled(told, out.told)
              /\ heard' = heard \cup {out.told}
<1>1. /\ gather \in Gathers \ {"mac"} /\ host \in Hosts
      /\ step = "shell" /\ step' = "end" /\ text = <<>>
      /\ UNCHANGED <<gather, i, raw, info, mac, host>>
  BY DEF TextInv, Shell, learned
<1>2. PICK out \in Outputs[host][gather][NumCommands + 1] :
        /\ text' = text \o out.text /\ told' = Filled(told, out.told)
        /\ heard' = heard \cup {out.told}
  BY DEF Shell, Joined
<1>3. NumCommands + 1 \in DOMAIN Outputs[host][gather]
  BY <1>1, OutputList DEF NumCommands
<1>4. out \in Given(host, gather)
  BY <1>2, <1>3 DEF Given
<1>5. out.text \in Seq(Printed)
  BY <1>1, <1>4, OutputText
<1>6. text' = out.text
  BY <1>1, <1>2, <1>5
<1> QED
  BY <1>1, <1>2, <1>4, <1>5, <1>6

\* The end of one gather and the beginning of the next.
NextIs(g) ==
  /\ gather' = g /\ step' = "exec" /\ i' = 1
  /\ worked' = FALSE /\ text' = <<>>
  /\ told' = told /\ heard' = heard /\ host' = host

\* The ends of the gathers.
LEMMA VersionDoes ==
  ASSUME VersionEnds
  PROVE  /\ gather = "version" /\ step = "end" /\ raw' = text
         /\ info' = Filled(ParseSysInfo(text), info) /\ mac' = ParseMAC(text)
         /\ \E g \in {"mac", "health", "done"} :
              NextIs(g) /\ (g = "mac" <=> mac' = None)
BY DEF VersionEnds, Classify, Begin, history, NextIs

LEMMA MacDoes ==
  ASSUME MacEnds
  PROVE  /\ gather = "mac" /\ step = "end" /\ raw' = raw \o text
         /\ info' = IF info.model = None /\ info.version = None
                      THEN Filled(ParseSysInfo(raw'), info) ELSE info
         /\ mac' = ParseMAC(raw')
         /\ \E g \in {"health", "done"} : NextIs(g)
BY DEF MacEnds, Classify, Begin, history, NextIs

LEMMA DetailDoes ==
  ASSUME HealthEnds \/ LldpEnds \/ IfacesEnd
  PROVE  /\ step = "end" /\ raw' = raw /\ mac' = mac
         /\ \/ /\ gather = "health" /\ NextIs("lldp")
               /\ info' = [info EXCEPT !.cpu = ParseCPU(text),
                                       !.memory = ParseMemory(text)]
            \/ /\ gather = "lldp" /\ NextIs("ifaces")
               /\ info' = [info EXCEPT !.neighbors = ParseLLDP(text)]
            \/ /\ gather = "ifaces" /\ NextIs("done")
               /\ info' = [info EXCEPT !.interfaces = ParseIfaces(text)]
BY DEF HealthEnds, LldpEnds, IfacesEnd, Begin, history, NextIs

\* The end of the exec commands: only an empty text goes to the shell.
LEMMA ExecOverDoes ==
  ASSUME TextInv, ExecOver
  PROVE  /\ gather \in Gathers /\ step = "exec" /\ step' \in {"shell", "end"}
         /\ step' = "shell" => gather # "mac" /\ text = <<>>
         /\ UNCHANGED <<gather, i, worked, text, raw, info, mac>>
         /\ UNCHANGED <<host, told, heard>>
BY DEF TextInv, ExecOver, CanShell, learned, history

\* What is parsed replaces the identity and nothing else.
LEMMA FilledInfo ==
  ASSUME TextInv, NEW t \in Seq(Printed)
  PROVE  LET new == Filled(ParseSysInfo(t), info)
         IN  /\ new = [f \in Identity \cup Details |-> new[f]]
             /\ \A f \in Identity : new[f] = ParseSysInfo(t)[f]
             /\ \A f \in Details : new[f] = info[f]
<1>1. DOMAIN ParseSysInfo(t) = Identity /\ DOMAIN info = Identity \cup Details
  BY SystemRead DEF TextInv
<1>2. Identity \cap Details = {}
  BY DEF Identity, Details
<1> HIDE DEF Identity, Details
<1> QED
  BY <1>1, <1>2 DEF Filled

\* A gather begins.
LEMMA Begun ==
  ASSUME TextInv, NEW g \in Gathers \cup {"done"}, NextIs(g),
         raw' \in Seq(Printed),
         info' = [f \in Identity \cup Details |-> info'[f]]
  PROVE  TextInv'
<1>1. <<>> \in Seq(Printed) /\ 1 \in Nat \ {0}
  OBVIOUS
<1>2. /\ gather' \in Gathers \cup {"done"} /\ host' \in Hosts
      /\ step' = "exec" /\ i' = 1 /\ text' = <<>>
  BY DEF NextIs, TextInv
<1> QED
  BY <1>1, <1>2 DEF TextInv

\* Every step keeps the types, and the text empty until something is printed.
LEMMA TextStep == TextInv /\ [Next]_vars => TextInv'
<1> SUFFICES ASSUME TextInv, [Next]_vars PROVE TextInv'
  OBVIOUS
<1>0. "mac" \in Gathers /\ "health" \in Gathers /\ "lldp" \in Gathers
      /\ "ifaces" \in Gathers /\ "done" \notin Gathers
  BY DEF Gathers
<1>1. CASE Exec
  <2>1. PICK out \in From(host, gather, i) :
          /\ out.text \in Seq(Printed)
          /\ text' = text \o Kept(gather, out.text)
          /\ ~worked' => ~worked /\ out.text = <<>>
    BY <1>1, ExecDoes
  <2>2. Kept(gather, out.text) \in Seq(Printed) /\ Kept(gather, <<>>) = <<>>
    BY <2>1 DEF Kept
  <2>3. text' \in Seq(Printed)
    BY <2>1, <2>2 DEF TextInv
  <2>4. ~worked' => text' = <<>>
    BY <2>1, <2>2, <1>1, ExecDoes DEF TextInv
  <2> QED
    BY <2>3, <2>4, <1>0, <1>1, ExecDoes DEF TextInv
<1>2. CASE ExecOver
  BY <1>2, <1>0, ExecOverDoes DEF TextInv
<1>3. CASE Shell
  BY <1>3, <1>0, ShellDoes DEF TextInv
<1>4. CASE VersionEnds
  <2>1. info' = [f \in Identity \cup Details |-> info'[f]]
    BY <1>4, VersionDoes, FilledInfo DEF TextInv
  <2>2. PICK g \in {"mac", "health", "done"} : NextIs(g)
    BY <1>4, VersionDoes
  <2>3. raw' \in Seq(Printed)
    BY <1>4, VersionDoes DEF TextInv
  <2> QED
    BY <1>0, <2>1, <2>2, <2>3, Begun
<1>5. CASE MacEnds
  <2>1. raw' \in Seq(Printed)
    <3>1. raw' = raw \o text /\ raw \in Seq(Printed) /\ text \in Seq(Printed)
      BY <1>5, MacDoes DEF TextInv
    <3> QED
      BY <3>1
  <2>2. info' = [f \in Identity \cup Details |-> info'[f]]
    BY <2>1, <1>5, MacDoes, FilledInfo DEF TextInv
  <2>3. PICK g \in {"health", "done"} : NextIs(g)
    BY <1>5, MacDoes
  <2> QED
    BY <1>0, <2>1, <2>2, <2>3, Begun
<1>6. CASE HealthEnds \/ LldpEnds \/ IfacesEnd
  <2>1. info' = [f \in Identity \cup Details |-> info'[f]]
    BY <1>6, DetailDoes DEF TextInv
  <2>2. PICK g \in {"lldp", "ifaces", "done"} : NextIs(g)
    BY <1>6, DetailDoes
  <2>3. raw' \in Seq(Printed)
    BY <1>6, DetailDoes DEF TextInv
  <2> QED
    BY <1>0, <2>1, <2>2, <2>3, Begun
<1>7. CASE Cancel \/ Finished \/ UNCHANGED vars
  BY <1>7 DEF Cancel, Finished, vars, local, learned, history, TextInv
<1> QED
  BY <1>1, <1>2, <1>3, <1>4, <1>5, <1>6, <1>7 DEF Next, Collect

LEMMA TextInit == Init => TextInv
<1> SUFFICES ASSUME Init PROVE TextInv
  OBVIOUS
<1>1. "version" \in Gathers
  BY DEF Gathers
<1> QED
  BY <1>1 DEF Init, TextInv

-----------------------------------------------------------------------------
(* Neighbors and interfaces.                                               *)

Before(f) ==
  {"version", "mac", "health"} \cup IF f = "neighbors" THEN {} ELSE {"lldp"}

\* What the host told of the list is what the text of its gather holds, and
\* later the record.
ListInv(f) ==
  /\ gather \in Before(f) => info[f] = <<>>
  /\ gather # GatherOf(f) => Tells(told, f, info[f], <<>>)
  /\ gather = GatherOf(f) => Tells(told, f, Parsed(f, text), <<>>)
  /\ gather = GatherOf(f) /\ step # "end" => text = <<>>

\* An empty text lists nothing.
LEMMA NothingListed == ASSUME NEW f \in Lists PROVE Parsed(f, <<>>) = <<>>
<1>1. DOMAIN (<<>>) = {}
  OBVIOUS
<1>2. \A ks : ~Has(<<>>, ks)
  BY <1>1 DEF Has
<1>3. HeadOf(<<>>) = None /\ \A l : ~HasLabel(<<>>, l)
  BY <1>1, <1>2 DEF HeadOf, HasLabel, Captured
<1>4. ParseLLDP(<<>>) = <<>>
  BY <1>3 DEF ParseLLDP, None
<1>5. ParseIfaces(<<>>) = <<>>
  BY <1>1, <1>2 DEF ParseIfaces
<1> QED
  BY <1>4, <1>5 DEF Parsed

LEMMA ListInit == ASSUME NEW f \in Lists PROVE Init => ListInv(f)
BY DEF Init, ListInv, Before, GatherOf, Lists, Details, Identity, Tells

\* One step, for either list.
LEMMA ListStep ==
  ASSUME NEW f \in Lists, ListedAlone(f), TextInv, ListInv(f), [Next]_vars
  PROVE  ListInv(f)'
<1>0. /\ GatherOf(f) \in Gathers \ Before(f) /\ GatherOf(f) # "done"
      /\ Before(f) \subseteq Gathers /\ f \in Details /\ f \notin Identity
  BY DEF Lists, GatherOf, Before, Gathers, Details, Identity
<1>1. CASE Exec
  <2>1. PICK out \in From(host, gather, i) :
          /\ out.text \in Seq(Printed)
          /\ text' = text \o Kept(gather, out.text)
          /\ step' = IF Enough(gather, out.text, text') THEN "end" ELSE "exec"
          /\ told' = Filled(told, out.told)
    BY <1>1, ExecDoes
  <2>2. /\ gather \in Gathers /\ host \in Hosts /\ step = "exec"
        /\ UNCHANGED <<gather, info>>
    BY <1>1, ExecDoes DEF TextInv
  <2>3. Tells(out.told, f, IF gather = GatherOf(f) THEN Parsed(f, out.text)
                           ELSE <<>>, <<>>)
    BY <2>1, <2>2, OutputList DEF ListedAlone
  <2>4. CASE gather # GatherOf(f)
    <3>1. Tells(told, f, info[f], <<>>) /\ Tells(out.told, f, <<>>, <<>>)
      BY <2>3, <2>4 DEF ListInv
    <3>2. Tells(told', f, info[f], <<>>)
      BY <2>1, <3>1, Filling
    <3> QED
      BY <2>2, <2>4, <3>2 DEF ListInv
  <2>5. CASE gather = GatherOf(f)
    <3>1. text = <<>> /\ Tells(told, f, <<>>, <<>>)
      BY <2>2, <2>5, NothingListed DEF ListInv
    <3>2. Tells(told', f, Parsed(f, out.text), <<>>)
      BY <2>1, <2>3, <2>5, <3>1, Filling
    <3>3. Enough(gather, out.text, text') <=> Parsed(f, out.text) # <<>>
      BY <2>5 DEF Enough, GatherOf, Parsed, Lists
    <3>4. Kept(gather, out.text)
            = IF Parsed(f, out.text) # <<>> THEN out.text ELSE <<>>
      <4>1. Enough(gather, out.text, out.text) <=> Parsed(f, out.text) # <<>>
        BY <2>5 DEF Enough, GatherOf, Parsed, Lists
      <4> QED
        BY <2>5, <4>1 DEF Kept, GatherOf
    <3>5. text' = IF Parsed(f, out.text) # <<>> THEN out.text ELSE <<>>
      BY <2>1, <3>1, <3>4
    <3>6. Parsed(f, text') = Parsed(f, out.text)
      BY <3>5, NothingListed
    <3>7. Tells(told', f, Parsed(f, text'), <<>>)
      BY <3>2, <3>6
    <3>8. step' # "end" => text' = <<>>
      BY <2>1, <3>3, <3>5
    <3> QED
      BY <1>0, <2>2, <2>5, <3>7, <3>8 DEF ListInv
  <2> QED
    BY <2>4, <2>5
<1>2. CASE ExecOver
  BY <1>2, ExecOverDoes DEF ListInv
<1>3. CASE Shell
  <2>1. PICK out \in Given(host, gather) :
          /\ out.text \in Seq(Printed)
          /\ text' = out.text /\ told' = Filled(told, out.told)
    BY <1>3, ShellDoes
  <2>2. /\ gather \in Gathers /\ host \in Hosts /\ step = "shell"
        /\ step' = "end" /\ text = <<>> /\ UNCHANGED <<gather, info>>
    BY <1>3, ShellDoes DEF TextInv
  <2>3. Tells(out.told, f, IF gather = GatherOf(f) THEN Parsed(f, out.text)
                           ELSE <<>>, <<>>)
    BY <2>1, <2>2 DEF ListedAlone
  <2>4. CASE gather # GatherOf(f)
    <3>1. Tells(told, f, info[f], <<>>) /\ Tells(out.told, f, <<>>, <<>>)
      BY <2>3, <2>4 DEF ListInv
    <3>2. Tells(told', f, info[f], <<>>)
      BY <2>1, <3>1, Filling
    <3> QED
      BY <2>2, <2>4, <3>2 DEF ListInv
  <2>5. CASE gather = GatherOf(f)
    <3>1. Tells(told, f, <<>>, <<>>)
      BY <2>2, <2>5, NothingListed DEF ListInv
    <3>2. Tells(told', f, Parsed(f, out.text), <<>>)
      BY <2>1, <2>3, <2>5, <3>1, Filling
    <3>3. Tells(told', f, Parsed(f, text'), <<>>)
      BY <2>1, <3>2
    <3> QED
      BY <1>0, <2>2, <2>5, <3>3 DEF ListInv
  <2> QED
    BY <2>4, <2>5
<1>4. CASE VersionEnds \/ MacEnds
  <2>1. /\ gather \in {"version", "mac"} /\ gather' \in {"mac", "health", "done"}
        /\ told' = told
    BY <1>4, VersionDoes, MacDoes DEF NextIs
  <2>2. info'[f] = info[f]
    <3>1. CASE VersionEnds
      BY <1>0, <3>1, VersionDoes, FilledInfo DEF TextInv
    <3>2. CASE MacEnds
      <4>1. raw' \in Seq(Printed)
        BY <3>2, TextStep DEF TextInv
      <4> QED
        BY <1>0, <3>2, <4>1, MacDoes, FilledInfo
    <3> QED
      BY <1>4, <3>1, <3>2
  <2>3. info[f] = <<>> /\ Tells(told, f, <<>>, <<>>)
    BY <1>0, <2>1 DEF ListInv, Before, GatherOf
  <2>4. /\ Tells(told', f, info'[f], <<>>) /\ info'[f] = <<>>
        /\ gather' # GatherOf(f)
    BY <2>1, <2>2, <2>3 DEF GatherOf
  <2> QED
    BY <2>4 DEF ListInv
<1>5. CASE HealthEnds \/ LldpEnds \/ IfacesEnd
  <2>1. told' = told /\ text' = <<>>
    BY <1>5, DetailDoes DEF NextIs
  <2>2. CASE gather = GatherOf(f)
    <3>1. info'[f] = Parsed(f, text) /\ gather' # GatherOf(f)
          /\ gather' \notin Before(f)
      BY <1>0, <1>5, <2>2, DetailDoes
      DEF NextIs, GatherOf, Parsed, Before, Lists, TextInv
    <3>2. Tells(told', f, info'[f], <<>>)
      BY <2>1, <2>2, <3>1 DEF ListInv
    <3> QED
      BY <3>1, <3>2 DEF ListInv
  <2>3. CASE gather # GatherOf(f)
    <3>1. info'[f] = info[f]
      BY <1>0, <1>5, <2>3, DetailDoes DEF GatherOf, Lists, TextInv
    <3>2. gather' \in Before(f) \cup {GatherOf(f)} => gather \in Before(f)
      BY <1>5, <2>3, DetailDoes DEF NextIs, GatherOf, Before, Lists
    <3>3. Tells(told', f, info'[f], <<>>)
      BY <2>1, <2>3, <3>1 DEF ListInv
    <3>4. gather' \in Before(f) \cup {GatherOf(f)} => info'[f] = <<>>
      BY <3>1, <3>2 DEF ListInv
    <3>5. gather' = GatherOf(f) => Tells(told', f, Parsed(f, text'), <<>>)
      BY <2>1, <3>3, <3>4, NothingListed
    <3> QED
      BY <2>1, <3>3, <3>4, <3>5 DEF ListInv
  <2> QED
    BY <2>2, <2>3
<1>6. CASE Cancel \/ Finished \/ UNCHANGED vars
  BY <1>6 DEF Cancel, Finished, vars, local, learned, history, ListInv
<1> QED
  BY <1>1, <1>2, <1>3, <1>4, <1>5, <1>6 DEF Next, Collect

-----------------------------------------------------------------------------
(* CPU and memory.                                                         *)

Meters == {"cpu", "memory"}

\* The texts ys are in order after t.
Follow(f, t, ys) == \A y \in ys : InOrder(f, t, y.text)

\* What is in order after a text and after an output is so after both.
LEMMA MoreFollow ==
  ASSUME NEW f \in Fields, NEW t \in Seq(Printed), NEW x \in Seq(Printed),
         NEW ys, InOrder(f, t, x), Follow(f, t, ys), Follow(f, x, ys)
  PROVE  Follow(f, t \o x, ys)
BY OrderOfTwo DEF Follow

\* An output more.
LEMMA MoreRead ==
  ASSUME NEW f \in Fields, NEW t \in Seq(Printed), NEW x \in Seq(Printed),
         NEW fs, NEW gs, InOrder(f, t, x),
         Tells(fs, f, Reads(f, t), None), Tells(gs, f, Reads(f, x), None)
  PROVE  Tells(Filled(fs, gs), f, Reads(f, t \o x), None)
<1>1. Reads(f, t \o x) = Or(Reads(f, t), Reads(f, x))
  BY ReadsOfTwo
<1>2. Tells(Filled(fs, gs), f,
            IF Reads(f, t) = None THEN Reads(f, x) ELSE Reads(f, t), None)
  BY Filling
<1> QED
  BY <1>1, <1>2 DEF Or

\* Of two texts of which the first hides nothing, one is read.
LEMMA ReadsEither ==
  ASSUME NEW f \in Fields, NEW t \in Seq(Printed), NEW x \in Seq(Printed),
         Unhidden(f, t, x)
  PROVE  /\ Reads(f, t \o x) \in {Reads(f, t), Reads(f, x)}
         /\ Reads(f, t \o x) = None <=> Reads(f, t) = None /\ Reads(f, x) = None
<1> DEFINE D == DOMAIN Sources(f)
           T(j) == Said(f, t)[j]
           X(j) == Said(f, x)[j]
           B(j) == Said(f, t \o x)[j]
<1>1. \A j \in D : B(j) = IF T(j) # None THEN T(j) ELSE X(j)
  BY SaidOfTwo DEF Unhidden
<1>2. CASE \A j \in D : B(j) = None
  <2>1. \A j \in D : T(j) = None /\ X(j) = None
    BY <1>1, <1>2
  <2>2. Reads(f, t \o x) = None /\ Reads(f, t) = None /\ Reads(f, x) = None
    BY <1>2, <2>1, ReadSource
  <2> QED
    BY <2>2
<1>3. CASE \E j \in D : B(j) # None
  <2>1. PICK r \in D : /\ Reads(f, t \o x) = B(r) /\ B(r) # None
                       /\ \A j \in D : j < r => B(j) = None
    BY <1>3, ReadSource
  <2>2. \A j \in D : j < r => T(j) = None /\ X(j) = None
    BY <1>1, <2>1
  <2>3. CASE T(r) # None
    <3>1. Reads(f, t) = T(r)
      BY <2>2, <2>3, ReadsSource
    <3> QED
      BY <1>1, <2>1, <2>3, <3>1
  <2>4. CASE T(r) = None
    <3>1. B(r) = X(r)
      BY <1>1, <2>4
    <3>2. Reads(f, x) = X(r)
      BY <2>1, <2>2, <3>1, ReadsSource
    <3> QED
      BY <2>1, <3>1, <3>2
  <2> QED
    BY <2>3, <2>4
<1> QED
  BY <1>2, <1>3

\* What a text and an output do not hide, both together do not hide.
LEMMA UnhiddenOfTwo ==
  ASSUME NEW f \in Fields, NEW t \in Seq(Printed), NEW x \in Seq(Printed),
         NEW y, Unhidden(f, t, y), Unhidden(f, x, y)
  PROVE  Unhidden(f, t \o x, y)
BY SaidOfTwo DEF Unhidden

\* What the outputs so far told of f, and one of them.
Values(f) == {t[f] : t \in {u \in heard : f \in DOMAIN u}}
Among(v, values) ==
  /\ None \notin values
  /\ IF values = {} THEN v = None ELSE v \in values

\* What the record says of f, or the text it is about to be read from, is one of
\* the values heard; the commands to come are not hidden by that text.
MeterInv(f) ==
  /\ gather \in {"version", "mac"} => info[f] = None
  /\ gather # "health" => Among(info[f], Values(f))
  /\ gather = "health" => Among(Reads(f, text), Values(f))
  /\ gather = "health" /\ step = "exec" =>
       \A y \in From(host, "health", i) : Unhidden(f, text, y.text)

LEMMA MeterInit == ASSUME NEW f \in Meters PROVE Init => MeterInv(f)
<1> SUFFICES ASSUME Init PROVE MeterInv(f)
  OBVIOUS
<1>1. Values(f) = {} /\ info[f] = None
  BY DEF Init, Values, Meters, Details, Identity
<1> QED
  BY <1>1 DEF Init, MeterInv, Among

\* An output that tells v of f adds v to the values, and nothing if that is None.
LEMMA MoreHeard ==
  ASSUME NEW f, NEW fs, NEW v, Tells(fs, f, v, None), heard' = heard \cup {fs}
  PROVE  Values(f)' = Values(f) \cup (IF v = None THEN {} ELSE {v})
<1>1. f \in DOMAIN fs <=> v # None
  BY DEF Tells
<1>2. v # None => fs[f] = v
  BY DEF Tells
<1> QED
  BY <1>1, <1>2 DEF Values

\* One step, for either meter.
LEMMA MeterStep ==
  ASSUME NEW f \in Meters, ReadAlone(f, {"health"}), ShownIn(f, "health"),
         TextInv, MeterInv(f), [Next]_vars
  PROVE  MeterInv(f)'
<1>0. /\ f \in Fields /\ f \in Details /\ f \notin Identity
      /\ f \notin {"neighbors", "interfaces"}
      /\ "health" \in Gathers \ {"version", "mac", "done"}
  BY DEF Meters, Fields, Details, Identity, Gathers
<1>1. CASE Exec
  <2>1. PICK out \in From(host, gather, i) :
          /\ out.text \in Seq(Printed)
          /\ text' = text \o Kept(gather, out.text)
          /\ heard' = heard \cup {out.told}
          /\ ShownIn(f, gather) => \A y \in From(host, gather, i + 1) :
                                     Unhidden(f, out.text, y.text)
    BY <1>1, ExecDoes
  <2>2. /\ gather \in Gathers /\ host \in Hosts /\ step = "exec"
        /\ i' = i + 1 /\ UNCHANGED <<gather, info, host>>
        /\ From(host, gather, i + 1) \subseteq From(host, gather, i)
    BY <1>1, ExecDoes DEF TextInv
  <2> DEFINE v == IF gather = "health" THEN Reads(f, out.text) ELSE None
  <2>3. Tells(out.told, f, v, None)
    BY <2>1, <2>2, OutputList DEF ReadAlone
  <2>4. Values(f)' = Values(f) \cup (IF v = None THEN {} ELSE {v})
    BY <2>1, <2>3, MoreHeard
  <2>5. CASE gather # "health"
    <3>1. Values(f)' = Values(f)
      BY <2>4, <2>5
    <3> QED
      BY <2>2, <2>5, <3>1 DEF MeterInv
  <2>6. CASE gather = "health"
    <3>1. /\ Among(Reads(f, text), Values(f))
          /\ \A y \in From(host, gather, i) : Unhidden(f, text, y.text)
      BY <2>2, <2>6 DEF MeterInv
    <3>2. text' = text \o out.text /\ text \in Seq(Printed)
      BY <2>1, <2>6 DEF Kept, TextInv
    <3>3. Among(Reads(f, text'), Values(f)')
      <4>1. /\ Reads(f, text') \in {Reads(f, text), v}
            /\ Reads(f, text') = None <=> Reads(f, text) = None /\ v = None
        <5>1. v = Reads(f, out.text) /\ Unhidden(f, text, out.text)
          BY <2>1, <2>2, <2>6, <3>1
        <5> QED
          BY <1>0, <2>1, <3>2, <5>1, ReadsEither
      <4> HIDE DEF v
      <4> QED
        BY <2>4, <3>1, <4>1 DEF Among
    <3>4. \A y \in From(host, gather, i + 1) : Unhidden(f, text', y.text)
      BY <1>0, <2>1, <2>2, <2>6, <3>1, <3>2, UnhiddenOfTwo
    <3> QED
      BY <1>0, <2>2, <2>6, <3>3, <3>4 DEF MeterInv
  <2> QED
    BY <2>5, <2>6
<1>2. CASE ExecOver
  <2>1. /\ UNCHANGED <<gather, i, text, info, host>> /\ step' # "exec"
        /\ Values(f)' = Values(f)
    BY <1>2, ExecOverDoes DEF Values
  <2> QED
    BY <2>1 DEF MeterInv
<1>3. CASE Shell
  <2>1. PICK out \in Given(host, gather) :
          /\ out.text \in Seq(Printed)
          /\ text' = out.text /\ heard' = heard \cup {out.told}
    BY <1>3, ShellDoes
  <2>2. /\ gather \in Gathers /\ host \in Hosts /\ text = <<>>
        /\ step' = "end" /\ UNCHANGED <<gather, info>>
    BY <1>3, ShellDoes DEF TextInv
  <2> DEFINE v == IF gather = "health" THEN Reads(f, out.text) ELSE None
  <2>3. Tells(out.told, f, v, None)
    BY <2>1, <2>2 DEF ReadAlone
  <2>4. Values(f)' = Values(f) \cup (IF v = None THEN {} ELSE {v})
    BY <2>1, <2>3, MoreHeard
  <2>5. CASE gather # "health"
    <3>1. Values(f)' = Values(f)
      BY <2>4, <2>5
    <3> QED
      BY <2>2, <2>5, <3>1 DEF MeterInv
  <2>6. CASE gather = "health"
    <3>1. Among(None, Values(f)) /\ Reads(f, text') = v
      BY <1>0, <2>1, <2>2, <2>6, Nothing DEF MeterInv
    <3> HIDE DEF v
    <3>2. Among(v, Values(f)')
      BY <2>4, <3>1 DEF Among
    <3> QED
      BY <1>0, <2>2, <2>6, <3>1, <3>2 DEF MeterInv
  <2> QED
    BY <2>5, <2>6
<1>4. CASE VersionEnds \/ MacEnds
  <2>1. /\ gather \in {"version", "mac"} /\ gather' \in {"mac", "health", "done"}
        /\ heard' = heard /\ text' = <<>>
    BY <1>4, VersionDoes, MacDoes DEF NextIs
  <2>2. info'[f] = info[f]
    <3>1. CASE VersionEnds
      BY <1>0, <3>1, VersionDoes, FilledInfo DEF TextInv
    <3>2. CASE MacEnds
      <4>1. raw' \in Seq(Printed)
        BY <3>2, TextStep DEF TextInv
      <4> QED
        BY <1>0, <3>2, <4>1, MacDoes, FilledInfo
    <3> QED
      BY <1>4, <3>1, <3>2
  <2>3. info[f] = None /\ Among(None, Values(f)) /\ Values(f)' = Values(f)
    BY <2>1 DEF MeterInv, Values
  <2>4. Reads(f, text') = None
    BY <1>0, <2>1, Nothing
  <2>5. \A y : Unhidden(f, text', y)
    <3>1. \A P : At(text', P) = {}
      BY <2>1 DEF At
    <3> QED
      BY <3>1 DEF Unhidden
  <2> QED
    BY <2>1, <2>2, <2>3, <2>4, <2>5 DEF MeterInv
<1>5. CASE HealthEnds \/ LldpEnds \/ IfacesEnd
  <2>1. /\ heard' = heard /\ gather' \in {"lldp", "ifaces", "done"}
        /\ gather \notin {"version", "mac"}
    BY <1>5, DetailDoes DEF NextIs
  <2>2. Among(info'[f], Values(f))
    <3>1. CASE gather = "health"
      <4>1. info' = [info EXCEPT !.cpu = ParseCPU(text),
                                 !.memory = ParseMemory(text)]
        BY <1>5, <3>1, DetailDoes
      <4>2. ParseCPU(text) = Reads("cpu", text)
            /\ ParseMemory(text) = Reads("memory", text)
        BY HealthRead DEF TextInv
      <4>3. info'[f] = Reads(f, text)
        BY <1>0, <4>1, <4>2 DEF Meters, TextInv
      <4> QED
        BY <3>1, <4>3 DEF MeterInv
    <3>2. CASE gather # "health"
      <4>1. info'[f] = info[f]
        BY <1>0, <1>5, <3>2, DetailDoes DEF TextInv
      <4> QED
        BY <3>2, <4>1 DEF MeterInv
    <3> QED
      BY <3>1, <3>2
  <2>3. Values(f)' = Values(f)
    BY <2>1 DEF Values
  <2> QED
    BY <2>1, <2>2, <2>3 DEF MeterInv
<1>6. CASE Cancel \/ Finished \/ UNCHANGED vars
  <2>1. /\ UNCHANGED <<gather, step, i, text, info, host>>
        /\ Values(f)' = Values(f)
    BY <1>6 DEF Cancel, Finished, vars, local, learned, history, Values
  <2> QED
    BY <2>1 DEF MeterInv
<1> QED
  BY <1>1, <1>2, <1>3, <1>4, <1>5, <1>6 DEF Next, Collect

-----------------------------------------------------------------------------
(* Name, model, version and address.                                       *)

Ids == Identity \cup {"mac"}

\* The commands for addresses tell nothing new of a host's identity.
Settled ==
  \A y \in From(host, "mac", 1) : Identity \cap DOMAIN y.told \subseteq DOMAIN told

\* While a host is asked for its version ...
VersionInv ==
  /\ \A f \in Ids :
       /\ Tells(told, f, Reads(f, text), None)
       /\ Follow(f, text, From(host, "mac", 1))
       /\ step = "exec" => Follow(f, text, From(host, "version", i))
  /\ Useful(text) => Settled

\* ... and for its addresses, ...
MacInv ==
  /\ \A f \in Ids :
       /\ Tells(told, f, Reads(f, raw \o text), None)
       /\ Follow(f, raw \o text, From(host, "mac", i))
  /\ \A f \in Identity : info[f] = ParseSysInfo(raw)[f]
  /\ Useful(raw) =>
       Settled /\ \A f \in Identity : Tells(told, f, Reads(f, raw), None)

\* ... and when the record holds what it said.
KnownInv ==
  /\ \A f \in {"hostname", "model"} : Tells(told, f, info[f], None)
  /\ "version" \in DOMAIN told => told["version"] = info.version
  /\ Tells(told, "mac", mac, None)

IdentityInv ==
  /\ gather = "version" => VersionInv
  /\ gather = "mac" => MacInv
  /\ gather \notin {"version", "mac"} => KnownInv

\* Two texts hold something useful only if one of them does.
LEMMA UsefulOfTwo ==
  ASSUME NEW t \in Seq(Printed), NEW x \in Seq(Printed), Useful(t \o x),
         InOrder("model", t, x), InOrder("version", t, x)
  PROVE  Useful(t) \/ Useful(x)
<1>1. /\ Reads("model", t \o x) = Or(Reads("model", t), Reads("model", x))
      /\ Reads("version", t \o x) = Or(Reads("version", t), Reads("version", x))
  BY ReadsOfTwo DEF Fields
<1>2. First(t \o x, At(t \o x, Plain))
        \in {First(t, At(t, Plain)), First(x, At(x, Plain))}
  BY FirstOfTwo
<1>3. \A u \in {t, x, t \o x} :
        Useful(u) <=> \/ Reads("model", u) # None
                      \/ Or(Reads("version", u), First(u, At(u, Plain))) # None
  <2> SUFFICES ASSUME NEW u \in Seq(Printed)
               PROVE  Useful(u) <=>
                        \/ Reads("model", u) # None
                        \/ Or(Reads("version", u), First(u, At(u, Plain))) # None
    <3>1. t \o x \in Seq(Printed)
      OBVIOUS
    <3> QED
      BY <3>1
  <2> QED
    BY SystemRead DEF Useful
<1> QED
  BY <1>1, <1>2, <1>3 DEF Or

\* What is told once is told for good.
LEMMA StaysTold ==
  ASSUME NEW x, Settled, told' = Filled(told, x), host' = host
  PROVE  Settled'
BY DEF Settled, Filled

\* At first nothing is told and nothing read.
LEMMA IdentityInit == ASSUME IdentityLegible, Init PROVE IdentityInv
<1>1. /\ gather = "version" /\ text = <<>> /\ told = [f \in {} |-> None]
  BY DEF Init
<1>2. \A f \in Ids : /\ Reads(f, text) = None /\ ~(f \in DOMAIN told)
                     /\ \A ys : Follow(f, text, ys)
  BY <1>1, Nothing DEF Ids, Identity, Fields, Follow
<1>3. ~Useful(text)
  <2>1. Reads("model", text) = None /\ Reads("version", text) = None
    BY <1>2 DEF Ids, Identity
  <2>2. First(text, At(text, Plain)) = None
    BY <1>1 DEF First, At
  <2>3. text \in Seq(Printed)
    BY <1>1
  <2> QED
    BY <2>1, <2>2, <2>3, SystemRead DEF Useful, Or
<1> QED
  BY <1>1, <1>2, <1>3 DEF IdentityInv, VersionInv, Tells

\* The version gather: one more output.
LEMMA VersionExec ==
  ASSUME IdentityLegible, TextInv, gather = "version", VersionInv, Exec
  PROVE  VersionInv'
<1>1. PICK out \in From(host, "version", i) :
        /\ out.text \in Seq(Printed)
        /\ text' = text \o Kept(gather, out.text)
        /\ told' = Filled(told, out.told)
        /\ \A f : OrderIn(f, "version") =>
             \A y \in From(host, "version", i + 1) : InOrder(f, out.text, y.text)
  BY ExecDoes
<1>2. /\ "version" \in Gathers /\ "mac" \in Gathers /\ host \in Hosts
      /\ step = "exec" /\ i' = i + 1 /\ UNCHANGED host
      /\ From(host, "version", i + 1) \subseteq From(host, "version", i)
      /\ text \in Seq(Printed) /\ text' = text \o out.text
      /\ out \in Given(host, "version")
  BY <1>1, ExecDoes, OutputList DEF TextInv, Gathers, Kept
<1>3. ASSUME NEW f \in Ids
      PROVE  /\ InOrder(f, text, out.text)
             /\ Tells(told', f, Reads(f, text'), None)
             /\ Follow(f, text', From(host, "mac", 1))
             /\ Follow(f, text', From(host, "version", i + 1))
  <2>1. /\ Tells(told, f, Reads(f, text), None)
        /\ Follow(f, text, From(host, "mac", 1))
        /\ Follow(f, text, From(host, "version", i))
        /\ f \in Fields
    BY <1>2 DEF VersionInv, Ids, Identity, Fields
  <2>2. InOrder(f, text, out.text)
    BY <1>1, <2>1 DEF Follow
  <2>3. Tells(out.told, f, Reads(f, out.text), None)
    BY <1>2 DEF IdentityLegible, ReadAlone, Ids
  <2>4. Tells(told', f, Reads(f, text'), None)
    BY <1>1, <1>2, <2>1, <2>2, <2>3, MoreRead
  <2>5. /\ Follow(f, out.text, From(host, "mac", 1))
        /\ Follow(f, out.text, From(host, "version", i + 1))
    BY <1>1, <1>2 DEF IdentityLegible, Follow, Ids
  <2>6. Follow(f, text, From(host, "version", i + 1))
    BY <1>2, <2>1 DEF Follow
  <2> QED
    BY <1>1, <1>2, <2>1, <2>2, <2>4, <2>5, <2>6, MoreFollow
<1>4. Useful(text') => Settled'
  <2> SUFFICES ASSUME Useful(text') PROVE Settled'
    OBVIOUS
  <2>1. Useful(text) \/ Useful(out.text)
    BY <1>1, <1>2, <1>3, UsefulOfTwo DEF Ids, Identity
  <2>2. CASE Useful(text)
    BY <1>1, <1>2, <2>2, StaysTold DEF VersionInv
  <2>3. CASE Useful(out.text)
    <3>1. \A y \in From(host, "mac", 1) :
            Identity \cap DOMAIN y.told \subseteq DOMAIN out.told
      BY <1>2, <2>3 DEF IdentityLegible
    <3>2. DOMAIN out.told \subseteq DOMAIN told'
      BY <1>1 DEF Filled
    <3> QED
      BY <1>2, <3>1, <3>2 DEF Settled
  <2> QED
    BY <2>1, <2>2, <2>3
<1> QED
  BY <1>2, <1>3, <1>4 DEF VersionInv

\* The version gather: the shell, after nothing else.
LEMMA VersionShell ==
  ASSUME IdentityLegible, TextInv, gather = "version", VersionInv, Shell
  PROVE  VersionInv'
<1>1. PICK out \in Given(host, "version") :
        /\ out.text \in Seq(Printed)
        /\ text' = out.text /\ told' = Filled(told, out.told)
  BY ShellDoes
<1>2. /\ "version" \in Gathers /\ "mac" \in Gathers /\ host \in Hosts
      /\ step' = "end" /\ UNCHANGED host /\ text = <<>>
  BY ShellDoes DEF TextInv, Gathers
<1>3. ASSUME NEW f \in Ids
      PROVE  /\ Tells(told', f, Reads(f, text'), None)
             /\ Follow(f, text', From(host, "mac", 1))
  <2>1. Tells(told, f, None, None)
    <3>1. Reads(f, <<>>) = None
      BY Nothing DEF Ids, Identity, Fields
    <3> QED
      BY <1>2, <3>1 DEF VersionInv
  <2>2. Tells(out.told, f, Reads(f, out.text), None)
    BY <1>2 DEF IdentityLegible, ReadAlone, Ids
  <2>3. Tells(told', f, Reads(f, out.text), None)
    BY <1>1, <2>1, <2>2, Filling
  <2>4. Follow(f, out.text, From(host, "mac", 1))
    BY <1>2 DEF IdentityLegible, Follow, Ids
  <2> QED
    BY <1>1, <2>3, <2>4
<1>4. Useful(text') => Settled'
  <2> SUFFICES ASSUME Useful(out.text) PROVE Settled'
    BY <1>1
  <2>1. \A y \in From(host, "mac", 1) :
          Identity \cap DOMAIN y.told \subseteq DOMAIN out.told
    BY <1>2 DEF IdentityLegible
  <2>2. DOMAIN out.told \subseteq DOMAIN told'
    BY <1>1 DEF Filled
  <2> QED
    BY <1>2, <2>1, <2>2 DEF Settled
<1> QED
  BY <1>2, <1>3, <1>4 DEF VersionInv

\* (The prover needs it apart from the rest.)
LEMMA ThreeTexts ==
  \A t, x, y \in Seq(Printed) : t \o (x \o y) = (t \o x) \o y
BY ConcatAssociative

\* The gather for addresses: one more output.  Of the identity it tells
\* nothing new once the dump said something useful.
LEMMA MacExec ==
  ASSUME IdentityLegible, TextInv, gather = "mac", MacInv, Exec
  PROVE  MacInv'
<1>1. PICK out \in From(host, "mac", i) :
        /\ out.text \in Seq(Printed)
        /\ text' = text \o Kept(gather, out.text)
        /\ told' = Filled(told, out.told)
        /\ \A f : OrderIn(f, "mac") =>
             \A y \in From(host, "mac", i + 1) : InOrder(f, out.text, y.text)
  BY ExecDoes
<1> DEFINE all == raw \o text
<1>2. /\ "mac" \in Gathers /\ host \in Hosts
      /\ i' = i + 1 /\ UNCHANGED <<host, raw, info>>
      /\ From(host, "mac", i + 1) \subseteq From(host, "mac", i)
      /\ out \in Given(host, "mac")
  BY <1>1, ExecDoes, OutputList DEF TextInv, Gathers
<1>3. all \in Seq(Printed) /\ raw' \o text' = all \o out.text
  <2>1. raw \in Seq(Printed) /\ text \in Seq(Printed)
    BY DEF TextInv
  <2>2. text' = text \o out.text /\ raw' = raw
    BY <1>1, <1>2 DEF Kept
  <2>3. all \in Seq(Printed)
    BY <2>1
  <2>4. raw \o (text \o out.text) = (raw \o text) \o out.text
    <3>1. out.text \in Seq(Printed)
      BY <1>1
    <3> QED
      BY <2>1, <3>1, ThreeTexts
  <2> QED
    BY <2>2, <2>3, <2>4
<1>4. out \in From(host, "mac", 1)
  BY <1>1 DEF From, TextInv
<1>5. ASSUME NEW f \in Ids
      PROVE  /\ Tells(told', f, Reads(f, raw' \o text'), None)
             /\ Follow(f, raw' \o text', From(host, "mac", i + 1))
  <2>1. /\ Tells(told, f, Reads(f, all), None)
        /\ Follow(f, all, From(host, "mac", i))
        /\ f \in Fields
    BY DEF MacInv, Ids, Identity, Fields
  <2>2. InOrder(f, all, out.text)
    BY <1>1, <2>1 DEF Follow
  <2>3. Tells(out.told, f, Reads(f, out.text), None)
    BY <1>2 DEF IdentityLegible, ReadAlone, Ids
  <2>4. /\ Follow(f, all, From(host, "mac", i + 1))
        /\ Follow(f, out.text, From(host, "mac", i + 1))
    BY <1>1, <1>2, <2>1 DEF IdentityLegible, Follow, Ids
  <2> HIDE DEF all
  <2>5. Tells(told', f, Reads(f, all \o out.text), None)
    BY <1>1, <1>3, <2>1, <2>2, <2>3, MoreRead
  <2>6. Follow(f, all \o out.text, From(host, "mac", i + 1))
    BY <1>1, <1>3, <2>1, <2>2, <2>4, MoreFollow
  <2> QED
    BY <1>3, <2>5, <2>6
<1>6. ASSUME Useful(raw)
      PROVE  /\ Settled'
             /\ \A f \in Identity : Tells(told', f, Reads(f, raw'), None)
  <2>1. Settled /\ \A f \in Identity : Tells(told, f, Reads(f, raw), None)
    BY <1>6 DEF MacInv
  <2>2. Settled'
    BY <1>1, <1>2, <2>1, StaysTold
  <2>3. ASSUME NEW f \in Identity PROVE Tells(told', f, Reads(f, raw), None)
    <3>1. f \in DOMAIN out.told => f \in DOMAIN told
      BY <1>4, <2>1 DEF Settled
    <3> QED
      BY <1>1, <2>1, <3>1 DEF Tells, Filled
  <2> QED
    BY <1>2, <2>2, <2>3
<1> QED
  BY <1>2, <1>5, <1>6 DEF MacInv

\* The other gathers say nothing of the identity.
LEMMA KnownStep ==
  ASSUME IdentityLegible, TextInv, gather \notin {"version", "mac"}, KnownInv,
         Exec \/ Shell
  PROVE  KnownInv'
<1>1. gather \in Gathers /\ host \in Hosts /\ UNCHANGED <<gather, info, mac>>
  BY ExecDoes, ShellDoes DEF TextInv
<1>2. PICK out \in Given(host, gather) : told' = Filled(told, out.told)
  BY <1>1, ExecDoes, ShellDoes, OutputList
<1>3. \A f \in Ids : f \notin DOMAIN out.told
  BY <1>1, <1>2 DEF IdentityLegible, ReadAlone, Ids, Tells
<1>4. \A f \in Ids : /\ f \in DOMAIN told' <=> f \in DOMAIN told
                     /\ f \in DOMAIN told => told'[f] = told[f]
  BY <1>2, <1>3 DEF Filled
<1>5. {"hostname", "model", "version", "mac"} \subseteq Ids
  BY DEF Ids, Identity
<1> QED
  BY <1>1, <1>4, <1>5 DEF KnownInv, Tells

\* The dump is parsed.
LEMMA VersionOver ==
  ASSUME TextInv, VersionInv, VersionEnds
  PROVE  IdentityInv'
<1>1. /\ text \in Seq(Printed) /\ raw' = text
      /\ info' = Filled(ParseSysInfo(text), info)
      /\ mac' = Reads("mac", text)
  BY VersionDoes, AddressRead DEF TextInv
<1>2. PICK g \in {"mac", "health", "done"} : NextIs(g)
  BY VersionDoes
<1>3. \A f \in Identity : info'[f] = ParseSysInfo(text)[f]
  BY <1>1, FilledInfo
<1>4. CASE g = "mac"
  <2>1. /\ gather' = "mac" /\ i' = 1 /\ text' = <<>>
        /\ UNCHANGED <<host, told>>
    BY <1>2, <1>4 DEF NextIs
  <2>2. raw' \o text' = text
    BY <1>1, <2>1
  <2>3. \A f \in Ids : /\ Tells(told, f, Reads(f, text), None)
                       /\ Follow(f, text, From(host, "mac", 1))
    BY DEF VersionInv
  <2>4. Useful(text) => Settled
    BY DEF VersionInv
  <2>5. Useful(raw') =>
          Settled' /\ \A f \in Identity : Tells(told', f, Reads(f, raw'), None)
    BY <1>1, <2>1, <2>3, <2>4 DEF Settled, Ids
  <2> QED
    BY <1>1, <1>3, <2>1, <2>2, <2>3, <2>5 DEF IdentityInv, MacInv
<1>5. CASE g # "mac"
  <2>1. gather' \notin {"version", "mac"} /\ told' = told
    BY <1>2, <1>5 DEF NextIs
  <2>2. \A f \in Ids : Tells(told, f, Reads(f, text), None)
    BY DEF VersionInv
  <2>3. /\ info'.hostname = Reads("hostname", text)
        /\ info'.model = Reads("model", text)
        /\ info'.version = Or(Reads("version", text), First(text, At(text, Plain)))
    BY <1>1, <1>3, SystemRead DEF Identity
  <2>4. KnownInv'
    BY <1>1, <2>1, <2>2, <2>3 DEF KnownInv, Tells, Or, Ids, Identity
  <2> QED
    BY <2>1, <2>4 DEF IdentityInv
<1> QED
  BY <1>4, <1>5

\* The address is looked for in both texts; the identity is read again only
\* if the dump said nothing useful.
LEMMA MacOver ==
  ASSUME TextInv, MacInv, MacEnds
  PROVE  IdentityInv'
<1>1. /\ raw' = raw \o text /\ raw' \in Seq(Printed) /\ raw \in Seq(Printed)
      /\ mac' = Reads("mac", raw')
  <2>1. raw' = raw \o text /\ raw' \in Seq(Printed) /\ mac' = ParseMAC(raw')
    BY MacDoes, TextStep DEF TextInv, Next, Collect
  <2> QED
    BY <2>1, AddressRead DEF TextInv
<1>2. gather' \notin {"version", "mac"} /\ told' = told
  BY MacDoes DEF NextIs
<1>3. \A f \in Ids : Tells(told, f, Reads(f, raw'), None)
  BY <1>1 DEF MacInv
<1>4. \A u \in Seq(Printed) :
        /\ ParseSysInfo(u).hostname = Reads("hostname", u)
        /\ ParseSysInfo(u).model = Reads("model", u)
        /\ ParseSysInfo(u).version = Or(Reads("version", u), First(u, At(u, Plain)))
  BY SystemRead
<1>5. \A f \in Identity : info[f] = ParseSysInfo(raw)[f]
  BY DEF MacInv
<1>6. \E u \in {raw, raw'} :
        /\ \A f \in Identity : info'[f] = ParseSysInfo(u)[f]
        /\ \A f \in Identity : Tells(told, f, Reads(f, u), None)
  <2>1. CASE info.model = None /\ info.version = None
    <3>1. info' = Filled(ParseSysInfo(raw'), info)
      BY <2>1, MacDoes
    <3>2. \A f \in Identity : info'[f] = ParseSysInfo(raw')[f]
      BY <1>1, <3>1, FilledInfo
    <3> QED
      BY <1>3, <3>2 DEF Ids
  <2>2. CASE ~(info.model = None /\ info.version = None)
    <3>1. info' = info
      BY <2>2, MacDoes
    <3>2. Useful(raw)
      BY <1>5, <2>2 DEF Useful, Identity
    <3> QED
      BY <1>5, <3>1, <3>2 DEF MacInv
  <2> QED
    BY <2>1, <2>2
<1>7. PICK u \in {raw, raw'} :
        /\ \A f \in Identity : info'[f] = ParseSysInfo(u)[f]
        /\ \A f \in Identity : Tells(told, f, Reads(f, u), None)
  BY <1>6
<1>8. /\ info'.hostname = Reads("hostname", u)
      /\ info'.model = Reads("model", u)
      /\ info'.version = Or(Reads("version", u), First(u, At(u, Plain)))
  BY <1>1, <1>4, <1>7 DEF Identity
<1>9. KnownInv'
  BY <1>1, <1>2, <1>3, <1>7, <1>8 DEF KnownInv, Tells, Or, Ids, Identity
<1> QED
  BY <1>2, <1>9 DEF IdentityInv

\* All steps.
LEMMA IdentityStep ==
  ASSUME IdentityLegible, TextInv, IdentityInv, [Next]_vars
  PROVE  IdentityInv'
<1>1. CASE Exec
  <2>1. gather' = gather
    BY <1>1, ExecDoes
  <2> QED
    BY <1>1, <2>1, VersionExec, MacExec, KnownStep DEF IdentityInv
<1>2. CASE ExecOver
  BY <1>2, ExecOverDoes
  DEF IdentityInv, VersionInv, MacInv, KnownInv, Settled
<1>3. CASE Shell
  <2>1. gather' = gather /\ gather # "mac"
    BY <1>3, ShellDoes
  <2> QED
    BY <1>3, <2>1, VersionShell, KnownStep DEF IdentityInv
<1>4. CASE VersionEnds
  BY <1>4, VersionDoes, VersionOver DEF IdentityInv
<1>5. CASE MacEnds
  BY <1>5, MacDoes, MacOver DEF IdentityInv
<1>6. CASE HealthEnds \/ LldpEnds \/ IfacesEnd
  <2>1. /\ gather \notin {"version", "mac"} /\ gather' \notin {"version", "mac"}
        /\ UNCHANGED <<told, mac>>
    BY <1>6, DetailDoes DEF NextIs
  <2>2. /\ info'.hostname = info.hostname /\ info'.model = info.model
        /\ info'.version = info.version
    BY <1>6, DetailDoes DEF TextInv, Identity, Details
  <2> QED
    BY <2>1, <2>2 DEF IdentityInv, KnownInv
<1>7. CASE Cancel \/ Finished \/ UNCHANGED vars
  BY <1>7 DEF Cancel, Finished, vars, local, learned, history,
              IdentityInv, VersionInv, MacInv, KnownInv, Settled
<1> QED
  BY <1>1, <1>2, <1>3, <1>4, <1>5, <1>6, <1>7 DEF Next, Collect

-----------------------------------------------------------------------------
\* The types hold always.
LEMMA TextAlways == Spec => []TextInv
BY TextInit, TextStep, PTL DEF Spec

\* Whatever the hosts are and print, the record has the neighbors of the first
\* output of show lldp that listed any, as the parser reads them in that output
\* alone.
THEOREM NeighborsOfOne == ListedAlone("neighbors") => (Spec => []NeighborsRead)
<1> SUFFICES ASSUME ListedAlone("neighbors") PROVE Spec => []NeighborsRead
  OBVIOUS
<1>0. "neighbors" \in Lists
  BY DEF Lists
<1>1. Init => ListInv("neighbors")
  BY <1>0, ListInit
<1>2. TextInv /\ ListInv("neighbors") /\ [Next]_vars => ListInv("neighbors")'
  BY <1>0, ListStep
<1>3. ListInv("neighbors") => NeighborsRead
  BY DEF ListInv, NeighborsRead, Listed, GatherOf, Tells
<1> QED
  BY <1>1, <1>2, <1>3, TextAlways, PTL DEF Spec

\* So it is with the interfaces and their counters.
THEOREM CountersOfOne == ListedAlone("interfaces") => (Spec => []CountersRead)
<1> SUFFICES ASSUME ListedAlone("interfaces") PROVE Spec => []CountersRead
  OBVIOUS
<1>0. "interfaces" \in Lists
  BY DEF Lists
<1>1. Init => ListInv("interfaces")
  BY <1>0, ListInit
<1>2. TextInv /\ ListInv("interfaces") /\ [Next]_vars => ListInv("interfaces")'
  BY <1>0, ListStep
<1>3. ListInv("interfaces") => CountersRead
  BY DEF ListInv, CountersRead, Listed, GatherOf, Tells
<1> QED
  BY <1>1, <1>2, <1>3, TextAlways, PTL DEF Spec

\* Whatever its commands print, in whatever order of the formats, a host's load
\* and its memory in use are in the record if some output told them, as one of
\* them did: no output hides what another one told.
THEOREM HealthIsKept == HealthLegible => (Spec => []HealthKept)
<1> SUFFICES ASSUME HealthLegible PROVE Spec => []HealthKept
  OBVIOUS
<1> DEFINE Inv == MeterInv("cpu") /\ MeterInv("memory")
<1>0. "cpu" \in Meters /\ "memory" \in Meters
  BY DEF Meters
<1>1. Init => Inv
  BY <1>0, MeterInit
<1>2. TextInv /\ Inv /\ [Next]_vars => Inv'
  BY <1>0, MeterStep DEF HealthLegible
<1>3. Inv => HealthKept
  BY DEF MeterInv, Among, Values, HealthKept, OneOf
<1> QED
  BY <1>1, <1>2, <1>3, TextAlways, PTL DEF Spec

\* A record names a host as the host named itself, if what it says later is in
\* order and it says nothing new of that with its addresses.
THEOREM IdentityIsKept == IdentityLegible => (Spec => []IdentityKept)
<1> SUFFICES ASSUME IdentityLegible PROVE Spec => []IdentityKept
  OBVIOUS
<1>1. Init => IdentityInv
  BY IdentityInit
<1>2. TextInv /\ IdentityInv /\ [Next]_vars => IdentityInv'
  BY IdentityStep
<1>3. IdentityInv => IdentityKept
  BY DEF IdentityInv, KnownInv, IdentityKept, AsTold, Tells
<1> QED
  BY <1>1, <1>2, <1>3, TextAlways, PTL DEF Spec

-----------------------------------------------------------------------------
(* One command of a gather, with a context of its own.                     *)

\* The channel exists once a session is granted; the waiter exists once all is
\* typed, and has something to say only when the channel is closed; from then
\* on nothing is sent, so what an exec session copied by then is all there is.
CommandInv ==
  /\ caller \in {"call", "open"} => channel = "none"
  /\ caller \in {"call", "open", "exec", "run", "pty", "shell", "type"} =>
       waiter = "none" /\ waitCh = 0
  /\ waiter \in {"sending", "ended"} \/ waitCh > 0 => channel = "closed"
  /\ caller \in {"pty", "shell", "type", "select"} => kind # "exec"
  /\ caller \in {"defer", "returned", "closed"} /\ err = "none" =>
       channel = "closed" /\ (kind = "exec" => output = sent)

\* A closed channel stays as it is.
LEMMA ClosedForGood ==
  ASSUME CommandInv, [CommandNext]_cmdVars
  PROVE  channel = "closed" => channel' = "closed" /\ sent' = sent
BY DEF CommandInv, CommandNext, Local, HostAnswers, Goroutine, Call, Ran,
       TypedAll, GivesUp, ShellEnds, Deferred, CloseClient, NoSession,
       NewSession, Agrees, Refuses, Type, WatcherCloses, WatcherEnds,
       WaitReturns, WaiterSends, HostWrites, HostCloses, LinkLost, Expire,
       GoesOn, CloseSession, cmdVars, callVars, goVars, netVars

\* Every step of a command keeps the invariant.
LEMMA CommandStep == CommandInv /\ [CommandNext]_cmdVars => CommandInv'
<1> SUFFICES ASSUME CommandInv, [CommandNext]_cmdVars PROVE CommandInv'
  OBVIOUS
<1> USE DEF CommandInv, cmdVars, callVars, goVars, netVars, CloseSession
<1>0. channel = "closed" => channel' = "closed" /\ sent' = sent
  BY ClosedForGood
\* Before the command has ended.
<1>1. CASE Call
  BY <1>1 DEF Call
<1>2. CASE NoSession
  BY <1>2 DEF NoSession
<1>3. CASE NewSession
  BY <1>3 DEF NewSession
<1>4. CASE Agrees
  BY <1>4 DEF Agrees
<1>5. CASE Refuses
  BY <1>5 DEF Refuses
<1>6. CASE Type
  BY <1>6 DEF Type
<1>7. CASE TypedAll
  BY <1>7 DEF TypedAll
\* Its end, with the channel closed or with an error.
<1>8. CASE Ran
  BY <1>8 DEF Ran
<1>9. CASE GivesUp
  BY <1>0, <1>9 DEF GivesUp
<1>10. CASE ShellEnds
  <2>1. waitCh > 0 /\ channel = "closed" /\ kind # "exec" /\ caller' = "defer"
    BY <1>10 DEF ShellEnds
  <2> QED
    BY <1>10, <2>1 DEF ShellEnds
<1>11. CASE Deferred
  BY <1>0, <1>11 DEF Deferred
<1>12. CASE CloseClient
  BY <1>0, <1>12 DEF CloseClient
\* The goroutines and the world around them.
<1>13. CASE WatcherCloses \/ WatcherEnds
  BY <1>0, <1>13 DEF WatcherCloses, WatcherEnds
<1>14. CASE WaitReturns \/ WaiterSends
  BY <1>14 DEF WaitReturns, WaiterSends
<1>15. CASE HostWrites \/ HostCloses \/ LinkLost
  BY <1>0, <1>15 DEF HostWrites, HostCloses, LinkLost
<1>16. CASE Expire \/ GoesOn \/ UNCHANGED cmdVars
  BY <1>16 DEF Expire, GoesOn
<1> QED
  BY <1>1, <1>2, <1>3, <1>4, <1>5, <1>6, <1>7, <1>8, <1>9, <1>10, <1>11, <1>12,
     <1>13, <1>14, <1>15, <1>16
  DEF CommandNext, Local, HostAnswers, Goroutine

\* A caller that is told of no error has waited for the end of the session, and
\* CombinedOutput's has all that the host has sent and will ever send, whoever
\* closed the session and however the goroutines were scheduled.
THEOREM CompleteOrError == CommandSpec => []OutputComplete
<1>1. CommandInit => CommandInv
  BY DEF CommandInit, CommandInv
<1>2. CommandInv => OutputComplete
  BY DEF CommandInv, OutputComplete, Returned
<1> QED
  BY <1>1, <1>2, CommandStep, PTL DEF CommandSpec
=============================================================================

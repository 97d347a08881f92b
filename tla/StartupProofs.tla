---------------------------- MODULE StartupProofs -----------------------------
(***************************************************************************)
(* What startup guarantees for any variables, values, files, environments  *)
(* and flags: an invariant says what each state of LoadFile has done with  *)
(* each variable; the rest of the run finds the load over.                 *)
(***************************************************************************)
EXTENDS Startup, FiniteSetTheorems, WellFoundedInduction, TLAPS

EnvTypeOK ==
  /\ env \in [Key -> Value \cup {Unset}]
  /\ was \in [Key -> Value \cup {Unset}]
  /\ vars \in [Key -> Value \cup {Unset}]
  /\ loading \in {"open", "parse", "set", "done", "failed"}
  /\ file \in Seq(Assign)

\* Of the lines of a variable one is the last.
HasLast ==
  \A k \in Key : LinesOf(k) # {} =>
    \E i \in LinesOf(k) : \A j \in LinesOf(k) : j <= i

Untouched(k) == vars[k] = Final(k) /\ env[k] = was[k]
DealtWith(k) == vars[k] = Unset /\ env[k] = Merged[k]

Progressed ==
  /\ loading = "open" => file = <<>> /\ vars = NoVars /\ env = was
  /\ loading = "parse" => \A k \in Key : Untouched(k)
  /\ loading = "set" => \A k \in Key : Untouched(k) \/ DealtWith(k)
  /\ loading = "done" => env = Merged
  /\ loading = "failed" => \A k \in Key : env[k] \in {was[k], Merged[k]}

EnvInv == EnvTypeOK /\ HasLast /\ Progressed

-----------------------------------------------------------------------------
\* Parse: of two lines for the same variable the later one counts.
LEMMA LastLineCounts ==
  ASSUME file \in Seq(Assign), HasLast, NEW line \in Assign,
         file' = Append(file, line)
  PROVE  /\ HasLast'
         /\ \A k \in Key : Final(k)' = IF k = line.key THEN line.val
                                       ELSE Final(k)
<1> DEFINE m == Len(file) + 1
<1>1. /\ Len(file) \in Nat /\ DOMAIN file = 1 .. Len(file)
      /\ file' \in Seq(Assign) /\ DOMAIN file' = 1 .. m
      /\ file'[m] = line
      /\ \A i \in DOMAIN file : file'[i] = file[i]
  OBVIOUS
<1>2. LinesOf(line.key)' = LinesOf(line.key) \cup {m}
  BY <1>1 DEF LinesOf
<1>3. ASSUME NEW k \in Key, k # line.key
      PROVE  LinesOf(k)' = LinesOf(k)
  BY <1>1, <1>3 DEF LinesOf
<1>4. \A j \in LinesOf(line.key)' : j <= m /\ (j # m => ~ m <= j)
  BY <1>1, <1>2 DEF LinesOf
<1>5. ASSUME NEW k \in Key
      PROVE  /\ LinesOf(k)' # {} =>
                  \E i \in LinesOf(k)' : \A j \in LinesOf(k)' : j <= i
             /\ Final(k)' = IF k = line.key THEN line.val ELSE Final(k)
  <2>1. CASE k = line.key
    <3>1. m \in LinesOf(k)'
      BY <1>2, <2>1
    <3>2. (CHOOSE i \in LinesOf(k)' : \A j \in LinesOf(k)' : j <= i) = m
      BY <1>4, <2>1, <3>1
    <3> QED
      BY <1>1, <1>4, <2>1, <3>1, <3>2 DEF Final
  <2>2. CASE k # line.key
    <3>1. LinesOf(k)' = LinesOf(k)
      BY <1>3, <2>2
    <3>2. CASE LinesOf(k) = {}
      BY <2>2, <3>1, <3>2 DEF Final
    <3>3. CASE LinesOf(k) # {}
      <4> DEFINE last == CHOOSE i \in LinesOf(k) : \A j \in LinesOf(k) : j <= i
      <4>1. last \in LinesOf(k) /\ \A j \in LinesOf(k) : j <= last
        BY <3>3 DEF HasLast
      <4>2. file'[last] = file[last]
        BY <1>1, <4>1 DEF LinesOf
      <4> QED
        BY <2>2, <3>1, <3>3, <4>1, <4>2 DEF Final
    <3> QED
      BY <3>2, <3>3
  <2> QED
    BY <2>1, <2>2
<1> QED
  BY <1>5 DEF HasLast

LEMMA EnvInitInv == EnvInit(Envs) => EnvInv
<1> SUFFICES ASSUME EnvInit(Envs) PROVE EnvInv
  OBVIOUS
<1>1. \A k \in Key : LinesOf(k) = {}
  BY DEF EnvInit, LinesOf
<1>2. env \in [Key -> Value \cup {Unset}] /\ was = env
  BY StartupAssumption DEF EnvInit
<1> QED
  BY <1>1, <1>2 DEF EnvInit, EnvInv, EnvTypeOK, HasLast, Progressed, NoVars

\* What has happened to a variable leaves it with one of the two values.
LEMMA InvMerged == EnvInv => EnvMerged
<1> SUFFICES ASSUME EnvInv PROVE EnvMerged
  OBVIOUS
<1> USE DEF EnvInv, EnvTypeOK, Progressed
<1>1. \A k \in Key : env[k] \in {was[k], Merged[k]}
  BY DEF Untouched, DealtWith
<1> QED
  BY <1>1 DEF EnvMerged

\* Where neither the file nor what the environment was changes, neither does
\* what it should say.
LEMMA SameFile ==
  ASSUME UNCHANGED <<was, file>>
  PROVE  /\ HasLast => HasLast'
         /\ \A k \in Key : Final(k)' = Final(k)
         /\ Merged' = Merged
<1>1. \A k \in Key : LinesOf(k)' = LinesOf(k)
  BY DEF LinesOf
<1>2. ASSUME NEW k \in Key
      PROVE  Final(k)' = Final(k)
  <2>1. (CHOOSE i \in LinesOf(k)' : \A j \in LinesOf(k)' : j <= i)
          = CHOOSE i \in LinesOf(k) : \A j \in LinesOf(k) : j <= i
    BY <1>1
  <2>2. file' = file /\ LinesOf(k)' = LinesOf(k)
    BY <1>1
  <2>3. CASE LinesOf(k) = {}
    BY <2>2, <2>3 DEF Final
  <2>4. CASE LinesOf(k) # {}
    BY <2>1, <2>2, <2>4 DEF Final
  <2> QED
    BY <2>3, <2>4
<1> QED
  BY <1>1, <1>2 DEF HasLast, Merged

LEMMA EnvStep == EnvInv /\ [LoadFile]_envVars => EnvInv'
<1> SUFFICES ASSUME EnvInv, [LoadFile]_envVars PROVE EnvInv'
  OBVIOUS
<1> USE EnvAssumption DEF EnvInv, EnvTypeOK
<1>1. CASE Open
  <2>1. /\ HasLast'
        /\ \A k \in Key : Final(k)' = Final(k)
        /\ Merged' = Merged
    BY <1>1, SameFile DEF Open
  <2>2. \A k \in Key : Final(k) = Unset
    BY <1>1 DEF Open, Progressed, Final, LinesOf
  <2>3. \A k \in Key : Untouched(k)' /\ Merged[k] = was[k]
    BY <1>1, <2>1, <2>2 DEF Open, Progressed, Untouched, Merged, NoVars
  <2>4. Merged = was
    BY <2>3 DEF Merged
  <2> QED
    BY <1>1, <2>1, <2>3, <2>4 DEF Open, Progressed
<1>2. CASE ReadBadLine
  <2>1. HasLast' /\ Merged' = Merged
    BY <1>2, SameFile DEF ReadBadLine
  <2> QED
    BY <1>2, <2>1 DEF ReadBadLine, Progressed, Untouched
<1>3. CASE ReadLine
  <2>1. PICK line \in Assign : /\ vars' = [vars EXCEPT ![line.key] = line.val]
                               /\ file' = Append(file, line)
    BY <1>3 DEF ReadLine
  <2>2. /\ HasLast'
        /\ \A k \in Key : Final(k)' = IF k = line.key THEN line.val
                                        ELSE Final(k)
    BY <2>1, LastLineCounts
  <2>3. /\ loading = "parse" /\ UNCHANGED <<env, loading, was>>
        /\ line.key \in Key /\ line.val \in Value
    BY <1>3 DEF ReadLine, Assign
  <2>4. \A k \in Key : Untouched(k)'
    BY <2>1, <2>2, <2>3 DEF Progressed, Untouched
  <2> QED
    BY <2>1, <2>2, <2>3, <2>4 DEF Progressed
<1>4. CASE EndOfFile
  <2>1. /\ HasLast'
        /\ \A k \in Key : Final(k)' = Final(k)
    BY <1>4, SameFile DEF EndOfFile
  <2> QED
    BY <1>4, <2>1 DEF EndOfFile, Progressed, Untouched
<1>5. ASSUME NEW k \in Key, SetVar(k)
      PROVE  EnvInv'
  <2>1. /\ HasLast'
        /\ \A j \in Key : Final(j)' = Final(j)
        /\ Merged' = Merged
    BY <1>5, SameFile DEF SetVar
  <2>2. /\ loading = "set" /\ vars[k] # Unset
        /\ \A j \in Key : Untouched(j) \/ DealtWith(j)
        /\ Untouched(k)
        /\ UNCHANGED <<was, file>>
    BY <1>5 DEF SetVar, Progressed, DealtWith
  <2>3. CASE Free(k) /\ vars[k] \in Refused
    <3>1. loading' = "failed" /\ UNCHANGED <<env, vars>>
      BY <1>5, <2>3 DEF SetVar
    <3> QED
      BY <2>1, <2>2, <3>1 DEF Progressed, Untouched, DealtWith
  <2>4. CASE ~(Free(k) /\ vars[k] \in Refused)
    <3>1. /\ env' = IF Free(k) THEN [env EXCEPT ![k] = vars[k]] ELSE env
          /\ vars' = [vars EXCEPT ![k] = Unset]
          /\ loading' = "set"
      BY <1>5, <2>2, <2>4 DEF SetVar
    <3>2. DealtWith(k)'
      BY <2>1, <2>2, <3>1 DEF DealtWith, Untouched, Merged, Free
    <3>3. ASSUME NEW j \in Key, j # k
          PROVE  Untouched(j)' \/ DealtWith(j)'
      BY <2>1, <2>2, <3>1, <3>3 DEF DealtWith, Untouched
    <3>4. EnvTypeOK'
      BY <2>2, <3>1
    <3> QED
      BY <2>1, <3>1, <3>2, <3>3, <3>4 DEF Progressed
  <2> QED
    BY <2>3, <2>4
<1>6. CASE Loaded
  <2>1. HasLast' /\ Merged' = Merged
    BY <1>6, SameFile DEF Loaded
  <2>2. \A k \in Key : env[k] = Merged[k]
    BY <1>6 DEF Loaded, Progressed, Untouched, DealtWith, Merged, NoVars
  <2>3. env = Merged
    BY <2>2 DEF Merged
  <2> QED
    BY <1>6, <2>1, <2>3 DEF Loaded, Progressed
<1>7. CASE UNCHANGED envVars
  <2>1. /\ HasLast'
        /\ \A k \in Key : Final(k)' = Final(k)
        /\ Merged' = Merged
    BY <1>7, SameFile DEF envVars
  <2> QED
    BY <1>7, <2>1 DEF envVars, Progressed, Untouched, DealtWith
<1> QED
  BY <1>1, <1>2, <1>3, <1>4, <1>5, <1>6, <1>7 DEF LoadFile

-----------------------------------------------------------------------------
(* Arithmetic.                                                             *)

\* The least-number principle and induction, which follow from the order of
\* the naturals being well-founded.
LEMMA Least == ASSUME NEW I, I \subseteq Nat, I # {}
               PROVE  \E i \in I : \A j \in I : i <= j
<1> DEFINE R == OpToRel(<, Nat)
<1>1. IsWellFoundedOn(R, Nat)
  BY NatLessThanWellFounded
<1>2. PICK m \in I : \A y \in I : ~ (<<y, m>> \in R)
  BY <1>1, WFMin
<1>3. ASSUME NEW y \in I PROVE  m <= y
  <2>1. y \in Nat /\ m \in Nat
    OBVIOUS
  <2>2. y < m => <<y, m>> \in R
    BY <2>1 DEF OpToRel
  <2> HIDE DEF R
  <2> QED
    BY <1>2, <2>1, <2>2
<1> QED
  BY <1>3

LEMMA Induction == ASSUME NEW S, 0 \in S, \A n \in Nat : n \in S => n + 1 \in S
                   PROVE  Nat \subseteq S
<1> SUFFICES ASSUME Nat \ S # {} PROVE FALSE
  OBVIOUS
<1>1. PICK m \in Nat \ S : \A j \in Nat \ S : m <= j
  <2>1. Nat \ S \subseteq Nat
    OBVIOUS
  <2> QED
    BY <2>1, Least
<1>2. m - 1 \in Nat /\ m - 1 + 1 = m /\ ~(m <= m - 1)
  <2>1. m # 0 /\ m \in Nat
    OBVIOUS
  <2> QED
    BY <2>1
<1>3. m - 1 \in S
  BY <1>1, <1>2
<1> QED
  BY <1>2, <1>3

\* f is the powers of two up to the nth.
Powers(f, n) == /\ f \in [0 .. n -> Nat]
                /\ f[0] = 1
                /\ \A i \in 1 .. n : f[i] = 2 * f[i - 1]

LEMMA PowersExist == ASSUME NEW n \in Nat PROVE \E f : Powers(f, n)
<1> DEFINE S == {k \in Nat : \E f : Powers(f, k)}
<1>1. 0 \in S
  <2>1. Powers([i \in 0 .. 0 |-> 1], 0)
    BY DEF Powers
  <2> QED
    BY <2>1
<1>2. ASSUME NEW k \in Nat, k \in S PROVE k + 1 \in S
  <2>1. PICK f : Powers(f, k)
    BY <1>2
  <2> DEFINE g == [i \in 0 .. k + 1 |-> IF i = k + 1 THEN 2 * f[k] ELSE f[i]]
  <2>2. f \in [0 .. k -> Nat] /\ f[0] = 1
    BY <2>1 DEF Powers
  <2>3. g \in [0 .. k + 1 -> Nat] /\ g[0] = 1
    BY <2>2
  <2>4. ASSUME NEW i \in 1 .. k + 1 PROVE g[i] = 2 * g[i - 1]
    <3>1. CASE i = k + 1
      <4>1. g[i] = 2 * f[k] /\ i - 1 = k /\ g[k] = f[k]
        BY <3>1
      <4> QED
        BY <4>1
    <3>2. CASE i # k + 1
      <4>1. i \in 1 .. k
        BY <3>2
      <4> QED
        BY <2>1, <4>1 DEF Powers
    <3> QED
      BY <3>1, <3>2
  <2> HIDE DEF g
  <2>5. Powers(g, k + 1)
    BY <2>3, <2>4 DEF Powers
  <2> QED
    BY <2>5
<1> HIDE DEF S
<1>3. Nat \subseteq S
  BY <1>1, <1>2, Induction
<1> QED
  BY <1>3 DEF S

LEMMA PowersAgree ==
  ASSUME NEW m \in Nat, NEW n \in Nat, NEW f, NEW g, Powers(f, m), Powers(g, n)
  PROVE  \A i \in Nat : i <= m /\ i <= n => f[i] = g[i]
<1> DEFINE S == {i \in Nat : i <= m /\ i <= n => f[i] = g[i]}
<1>1. 0 \in S
  BY DEF Powers
<1>2. ASSUME NEW k \in Nat, k \in S PROVE k + 1 \in S
  <2>1. CASE k + 1 <= m /\ k + 1 <= n
    <3>1. f[k] = g[k]
      BY <1>2, <2>1
    <3>2. k + 1 \in 1 .. m /\ k + 1 \in 1 .. n /\ k + 1 - 1 = k
      BY <2>1
    <3>3. f[k + 1] = 2 * f[k + 1 - 1] /\ g[k + 1] = 2 * g[k + 1 - 1]
      BY <3>2 DEF Powers
    <3>4. f[k + 1] = g[k + 1]
      BY <3>1, <3>2, <3>3
    <3> QED
      BY <3>4
  <2> QED
    BY <2>1
<1> HIDE DEF S
<1>3. Nat \subseteq S
  BY <1>1, <1>2, Induction
<1> QED
  BY <1>3 DEF S

\* The recursive definition of TwoTo defines a function.
LEMMA TwoToDefined == TwoTo = [n \in Nat |-> IF n = 0 THEN 1 ELSE 2 * TwoTo[n - 1]]
<1> DEFINE Part(n) == CHOOSE f : Powers(f, n)
           g == [n \in Nat |-> Part(n)[n]]
<1>1. ASSUME NEW n \in Nat PROVE Powers(Part(n), n)
  BY PowersExist
<1> HIDE DEF Part
<1>2. ASSUME NEW n \in Nat PROVE g[n] = IF n = 0 THEN 1 ELSE 2 * g[n - 1]
  <2>1. CASE n = 0
    BY <1>1, <2>1 DEF Powers
  <2>2. CASE n # 0
    <3>1. n \in 1 .. n /\ n - 1 \in Nat /\ n - 1 <= n /\ n - 1 <= n - 1
      BY <2>2
    <3>2. Part(n)[n] = 2 * Part(n)[n - 1]
      BY <1>1, <3>1 DEF Powers
    <3>3. Part(n)[n - 1] = Part(n - 1)[n - 1]
      BY <1>1, <3>1, PowersAgree
    <3> QED
      BY <2>2, <3>1, <3>2, <3>3
  <2> QED
    BY <2>1, <2>2
<1>3. g = [n \in Nat |-> IF n = 0 THEN 1 ELSE 2 * g[n - 1]]
  <2> DEFINE h == [n \in Nat |-> IF n = 0 THEN 1 ELSE 2 * g[n - 1]]
  <2>1. \A n \in Nat : g[n] = h[n]
    BY <1>2
  <2> QED
    BY <2>1
<1> HIDE DEF g
<1> QED
  BY <1>3 DEF TwoTo

LEMMA TwoToNext ==
  /\ TwoTo[0] = 1
  /\ \A n \in Nat : /\ TwoTo[n] \in Nat /\ TwoTo[n] >= 1
                    /\ TwoTo[n + 1] = 2 * TwoTo[n]
<1>1. TwoTo[0] = 1
  BY TwoToDefined
<1>2. ASSUME NEW n \in Nat PROVE TwoTo[n + 1] = 2 * TwoTo[n]
  <2>1. n + 1 \in Nat /\ n + 1 # 0 /\ n + 1 - 1 = n
    OBVIOUS
  <2>2. TwoTo[n + 1] = IF n + 1 = 0 THEN 1 ELSE 2 * TwoTo[n + 1 - 1]
    BY <2>1, TwoToDefined
  <2> QED
    BY <2>1, <2>2
<1> DEFINE S == {n \in Nat : TwoTo[n] \in Nat /\ TwoTo[n] >= 1}
<1>3. 0 \in S
  BY <1>1
<1>4. ASSUME NEW n \in Nat, n \in S PROVE n + 1 \in S
  BY <1>2, <1>4
<1> HIDE DEF S
<1>5. Nat \subseteq S
  BY <1>3, <1>4, Induction
<1> QED
  BY <1>1, <1>2, <1>5 DEF S

LEMMA Times == ASSUME NEW a \in Nat, NEW b \in Nat, NEW c \in Nat, b <= c
               PROVE  a * b <= a * c /\ a * b \in Nat /\ a * (b + 1) = a * b + a
OBVIOUS

LEMMA TwoToSum == ASSUME NEW m \in Nat, NEW n \in Nat
                  PROVE  TwoTo[m + n] = TwoTo[m] * TwoTo[n]
<1> DEFINE S == {k \in Nat : TwoTo[m + k] = TwoTo[m] * TwoTo[k]}
<1>1. 0 \in S
  BY TwoToNext
<1>2. ASSUME NEW k \in Nat, k \in S PROVE k + 1 \in S
  <2>1. m + k \in Nat /\ m + (k + 1) = m + k + 1
    OBVIOUS
  <2>2. TwoTo[m + (k + 1)] = 2 * TwoTo[m + k] /\ TwoTo[k + 1] = 2 * TwoTo[k]
    BY <2>1, TwoToNext
  <2>3. TwoTo[m] \in Nat /\ TwoTo[k] \in Nat
    BY TwoToNext
  <2>4. TwoTo[m] * (2 * TwoTo[k]) = 2 * (TwoTo[m] * TwoTo[k])
    BY <2>3
  <2> QED
    BY <1>2, <2>2, <2>4
<1> HIDE DEF S
<1>3. Nat \subseteq S
  BY <1>1, <1>2, Induction
<1> QED
  BY <1>3 DEF S

LEMMA TwoToGrows == ASSUME NEW m \in Nat, NEW n \in Nat, m <= n
                    PROVE  TwoTo[m] <= TwoTo[n]
<1>1. n - m \in Nat /\ m + (n - m) = n
  OBVIOUS
<1>2. TwoTo[n] = TwoTo[m] * TwoTo[n - m]
  BY <1>1, TwoToSum
<1>3. TwoTo[m] \in Nat /\ TwoTo[n - m] \in Nat /\ 1 <= TwoTo[n - m]
  BY <1>1, TwoToNext
<1>4. TwoTo[m] * 1 <= TwoTo[m] * TwoTo[n - m]
  BY <1>3, Times
<1> QED
  BY <1>2, <1>3, <1>4

LEMMA Division == ASSUME NEW a \in Nat, NEW s \in Nat, s >= 1
                  PROVE  /\ a \div s \in Nat
                         /\ a % s \in 0 .. s - 1
                         /\ a = s * (a \div s) + (a % s)
<1>1. a % s \in 0 .. s - 1
  OBVIOUS
<1>2. a = s * (a \div s) + (a % s)
  OBVIOUS
<1>3. a \div s \in Int /\ a \div s >= 0
  OBVIOUS
<1> QED
  BY <1>1, <1>2, <1>3

LEMMA Quotient ==
  ASSUME NEW a \in Nat, NEW s \in Nat, s >= 1, NEW q \in Nat
  PROVE  a \div s = q <=> s * q <= a /\ a < s * q + s
<1> DEFINE p == a \div s
<1>1. p \in Nat /\ s * p <= a /\ a < s * p + s
  BY Division
<1> HIDE DEF p
<1>2. CASE p < q
  <2>1. s * (p + 1) <= s * q /\ s * (p + 1) = s * p + s
    BY <1>1, <1>2, Times
  <2> QED
    BY <1>1, <1>2, <2>1 DEF p
<1>3. CASE q < p
  <2>1. s * (q + 1) <= s * p /\ s * (q + 1) = s * q + s
    BY <1>1, <1>3, Times
  <2> QED
    BY <1>1, <1>3, <2>1 DEF p
<1>4. CASE p = q
  BY <1>1, <1>4 DEF p
<1> QED
  BY <1>1, <1>2, <1>3, <1>4

-----------------------------------------------------------------------------
(* Hosts.                                                                  *)

\* The half range and the sizes that count below.
LEMMA Sizes ==
  LET h == TwoTo[IntBits - 1]
  IN  /\ h \in Nat /\ h >= 4 /\ TwoTo[IntBits] = 2 * h
      /\ TwoTo[AddrBits] \in Nat
      /\ IntBits = AddrBits => TwoTo[AddrBits] = 2 * h
      /\ IntBits # AddrBits => 2 * TwoTo[AddrBits] <= h
<1>1. /\ AddrBits \in Nat /\ AddrBits >= 3 /\ IntBits \in Nat
      /\ IntBits = AddrBits \/ IntBits = 2 * AddrBits
      /\ IntBits - 1 \in Nat /\ 2 <= IntBits - 1 /\ IntBits - 1 + 1 = IntBits
  BY IfaceAssumption
<1>2. TwoTo[IntBits - 1] \in Nat /\ TwoTo[IntBits] = 2 * TwoTo[IntBits - 1]
  BY <1>1, TwoToNext
<1>3. TwoTo[2] = 4
  <2>1. TwoTo[0 + 1] = 2 * TwoTo[0] /\ TwoTo[1 + 1] = 2 * TwoTo[1]
    BY TwoToNext
  <2> QED
    BY <2>1, TwoToNext
<1>4. 4 <= TwoTo[IntBits - 1]
  BY <1>1, <1>3, TwoToGrows
<1>5. IntBits # AddrBits => 2 * TwoTo[AddrBits] <= TwoTo[IntBits - 1]
  <2> SUFFICES ASSUME IntBits # AddrBits
               PROVE  2 * TwoTo[AddrBits] <= TwoTo[IntBits - 1]
    OBVIOUS
  <2>1. AddrBits + 1 \in Nat /\ AddrBits + 1 <= IntBits - 1
    BY <1>1
  <2>2. TwoTo[AddrBits + 1] <= TwoTo[IntBits - 1]
    BY <1>1, <2>1, TwoToGrows
  <2> QED
    BY <1>1, <2>2, TwoToNext
<1>6. TwoTo[AddrBits] \in Nat
  BY <1>1, TwoToNext
<1> QED
  BY <1>1, <1>2, <1>4, <1>5, <1>6

\* What the conversion to int does to the numbers that Hosts computes.
LEMMA AsIntIs ==
  LET h == TwoTo[IntBits - 1]
  IN  \A n \in Int :
        /\ - h <= n /\ n < h => AsInt(n) = n
        /\ h <= n /\ n < 3 * h => AsInt(n) = n - 2 * h
        /\ - 3 * h <= n /\ n < - h => AsInt(n) = n + 2 * h
<1> DEFINE h == TwoTo[IntBits - 1]
<1>1. h \in Nat /\ h >= 4 /\ TwoTo[IntBits] = 2 * h
  BY Sizes
<1>2. \A n : AsInt(n) = ((n + h) % (2 * h)) - h
  BY <1>1 DEF AsInt
<1> HIDE DEF h
<1>3. ASSUME NEW n \in Int, - h <= n, n < h PROVE AsInt(n) = n
  <2>1. (n + h) % (2 * h) = n + h
    BY <1>1, <1>3
  <2> QED
    BY <1>1, <1>2, <2>1
<1>4. ASSUME NEW n \in Int, h <= n, n < 3 * h PROVE AsInt(n) = n - 2 * h
  <2>1. (n + h) % (2 * h) = n + h - 2 * h
    BY <1>1, <1>4
  <2> QED
    BY <1>1, <1>2, <2>1
<1>5. ASSUME NEW n \in Int, - 3 * h <= n, n < - h PROVE AsInt(n) = n + 2 * h
  <2>1. (n + h) % (2 * h) = n + h + 2 * h
    BY <1>1, <1>5
  <2> QED
    BY <1>1, <1>2, <2>1
<1> QED
  BY <1>3, <1>4, <1>5 DEF h

Size(net) == TwoTo[AddrBits - net.ones]

\* The addresses of a mask: never more than there are, two at least below
\* the longest, four at least below these two.
LEMMA SizeIs ==
  ASSUME NEW net, net.ones \in Prefix
  PROVE  /\ Size(net) \in Nat /\ Size(net) >= 1
         /\ TwoTo[AddrBits] = Size(net) * TwoTo[net.ones]
         /\ TwoTo[net.ones] \in Nat
         /\ net.ones >= AddrBits - 1 => Size(net) <= 2
         /\ net.ones < AddrBits - 1 => Size(net) >= 4
         /\ net.ones = 0 => Size(net) = TwoTo[AddrBits]
         /\ net.ones # 0 => 2 * Size(net) <= TwoTo[AddrBits]
         /\ Size(net) <= TwoTo[AddrBits]
<1> DEFINE k == AddrBits - net.ones
<1>1. /\ AddrBits \in Nat /\ net.ones \in Nat /\ k \in Nat
      /\ k + net.ones = AddrBits /\ k <= AddrBits
  BY IfaceAssumption DEF Prefix
<1>2. Size(net) = TwoTo[k]
  BY DEF Size
<1> HIDE DEF k
<1>3. TwoTo[0] = 1 /\ TwoTo[1] = 2 /\ TwoTo[2] = 4
  <2>1. TwoTo[0 + 1] = 2 * TwoTo[0] /\ TwoTo[1 + 1] = 2 * TwoTo[1]
    BY TwoToNext
  <2> QED
    BY <2>1, TwoToNext
<1>4. /\ TwoTo[k] \in Nat /\ TwoTo[k] >= 1 /\ TwoTo[net.ones] \in Nat
      /\ TwoTo[AddrBits] = TwoTo[k] * TwoTo[net.ones]
      /\ TwoTo[k] <= TwoTo[AddrBits]
  BY <1>1, TwoToNext, TwoToSum, TwoToGrows
<1>5. net.ones >= AddrBits - 1 => TwoTo[k] <= 2
  <2>1. net.ones >= AddrBits - 1 => k = 0 \/ k = 1
    BY <1>1
  <2> QED
    BY <1>3, <2>1
<1>6. net.ones < AddrBits - 1 => TwoTo[k] >= 4
  <2>1. net.ones < AddrBits - 1 => 2 <= k
    BY <1>1
  <2> QED
    BY <1>1, <1>3, <2>1, TwoToGrows
<1>7. net.ones = 0 => k = AddrBits
  BY <1>1
<1>8. net.ones # 0 => 2 * TwoTo[k] <= TwoTo[AddrBits]
  <2> SUFFICES ASSUME net.ones # 0 PROVE 2 * TwoTo[k] <= TwoTo[AddrBits]
    OBVIOUS
  <2>1. k + 1 \in Nat /\ k + 1 <= AddrBits
    BY <1>1
  <2>2. TwoTo[k + 1] = 2 * TwoTo[k] /\ TwoTo[k + 1] <= TwoTo[AddrBits]
    BY <1>1, <2>1, TwoToNext, TwoToGrows
  <2> QED
    BY <2>2
<1> QED
  BY <1>2, <1>4, <1>5, <1>6, <1>7, <1>8

\* How many hosts the code counts: all but the first and the last where there
\* are more than two, or a negative number where the total has overflowed.
LEMMA CountIs ==
  ASSUME NEW net, net.ones \in Prefix
  PROVE  /\ From(net) = IF net.ones >= AddrBits - 1 THEN 0 ELSE 1
         /\ Count(net) = IF net.ones >= AddrBits - 1 THEN Size(net)
                         ELSE IF net.ones = 0 /\ IntBits = AddrBits THEN - 2
                         ELSE Size(net) - 2
<1> DEFINE h == TwoTo[IntBits - 1]
           s == Size(net)
           total == AsInt(s)
<1>1. /\ h \in Nat /\ h >= 4 /\ TwoTo[AddrBits] \in Nat
      /\ IntBits = AddrBits => TwoTo[AddrBits] = 2 * h
      /\ IntBits # AddrBits => 2 * TwoTo[AddrBits] <= h
  BY Sizes
<1>2. /\ s \in Nat /\ s >= 1
      /\ net.ones >= AddrBits - 1 => s <= 2
      /\ net.ones < AddrBits - 1 => s >= 4
      /\ net.ones = 0 => s = TwoTo[AddrBits]
      /\ net.ones # 0 => 2 * s <= TwoTo[AddrBits]
      /\ s <= TwoTo[AddrBits]
  BY SizeIs
<1>3. \A n \in Int :
        /\ - h <= n /\ n < h => AsInt(n) = n
        /\ h <= n /\ n < 3 * h => AsInt(n) = n - 2 * h
        /\ - 3 * h <= n /\ n < - h => AsInt(n) = n + 2 * h
  BY AsIntIs
<1>4. /\ From(net) = IF net.ones >= AddrBits - 1 THEN 0 ELSE 1
      /\ Until(net) = IF net.ones >= AddrBits - 1 THEN total ELSE AsInt(total - 1)
      /\ Count(net) = AsInt(Until(net) - From(net))
  BY DEF From, Until, Count, Size
<1>5. AddrBits \in Nat /\ net.ones \in Nat
  BY IfaceAssumption DEF Prefix
<1> HIDE DEF h, s
<1>6. CASE net.ones >= AddrBits - 1
  <2>1. total = s
    BY <1>1, <1>2, <1>3, <1>6
  <2>2. Until(net) - From(net) = s /\ AsInt(s) = s
    BY <1>2, <1>4, <1>6, <2>1
  <2> QED
    BY <1>4, <1>6, <2>2 DEF s
<1>7. CASE net.ones < AddrBits - 1
  <2>0. /\ ~(net.ones >= AddrBits - 1) /\ s >= 4
        /\ From(net) = 1 /\ Until(net) = AsInt(total - 1)
    BY <1>2, <1>4, <1>5, <1>7
  <2>1. CASE net.ones = 0 /\ IntBits = AddrBits
    <3>1. s = 2 * h
      BY <1>1, <1>2, <2>1
    <3>2. total = 0
      BY <1>1, <1>3, <3>1
    <3>3. AsInt(total - 1) = - 1
      BY <1>1, <1>3, <3>2
    <3>4. AsInt(- 2) = - 2
      BY <1>1, <1>3
    <3> QED
      BY <1>4, <2>0, <2>1, <3>3, <3>4
  <2>2. CASE s < h
    <3>1. total = s
      BY <1>1, <1>2, <1>3, <2>2
    <3>2. AsInt(total - 1) = s - 1
      BY <1>1, <1>2, <1>3, <2>2, <3>1
    <3>3. AsInt(s - 2) = s - 2
      BY <1>1, <1>2, <1>3, <2>2
    <3>4. s - 1 - 1 = s - 2
      BY <1>2
    <3>5. Count(net) = s - 2
      BY <1>4, <2>0, <3>2, <3>3, <3>4
    <3>6. ~(net.ones = 0 /\ IntBits = AddrBits)
      BY <1>1, <1>2, <2>2
    <3> QED
      BY <2>0, <3>5, <3>6, <1>4 DEF s
  <2>3. CASE s = h
    <3>1. total = - h
      BY <1>1, <1>3, <2>3
    <3>2. AsInt(total - 1) = h - 1
      BY <1>1, <1>3, <3>1
    <3>3. AsInt(h - 2) = h - 2
      BY <1>1, <1>3
    <3>4. h - 1 - 1 = s - 2
      BY <1>1, <2>3
    <3>5. Count(net) = s - 2
      BY <1>4, <2>0, <2>3, <3>2, <3>3, <3>4
    <3>6. ~(net.ones = 0 /\ IntBits = AddrBits)
      BY <1>1, <1>2, <2>3
    <3> QED
      BY <2>0, <3>5, <3>6, <1>4 DEF s
  <2>4. s < h \/ s = h \/ (net.ones = 0 /\ IntBits = AddrBits)
    BY <1>1, <1>2
  <2> QED
    BY <2>1, <2>2, <2>3, <2>4
<1> QED
  BY <1>5, <1>6, <1>7

\* The addresses with the mask's bits in common with a net's are consecutive:
\* as many as its size, from its base.
LEMMA SubnetIs ==
  ASSUME NEW net, net.ones \in Prefix, net.ip \in 0 .. TwoTo[AddrBits] - 1
  PROVE  /\ Base(net) \in Nat /\ Base(net) + Size(net) <= TwoTo[AddrBits]
         /\ {a \in 0 .. TwoTo[AddrBits] - 1 :
               a \div Size(net) = net.ip \div Size(net)}
              = Base(net) .. Base(net) + Size(net) - 1
<1> DEFINE s == Size(net)
           q == net.ip \div s
           t == TwoTo[net.ones]
           all == TwoTo[AddrBits]
<1>1. s \in Nat /\ s >= 1 /\ t \in Nat /\ all = s * t
  BY SizeIs
<1>2. net.ip \in Nat /\ net.ip < all /\ all \in Nat
  BY Sizes
<1>3. Base(net) = net.ip - (net.ip % s)
  BY DEF Base, Size
<1> HIDE DEF s, t, all
<1>4. q \in Nat /\ net.ip % s \in 0 .. s - 1 /\ net.ip = s * q + (net.ip % s)
  BY <1>1, <1>2, Division
<1> HIDE DEF q
<1>5. s * q \in Nat /\ Base(net) = s * q
  <2>1. s * q \in Nat
    BY <1>1, <1>4
  <2> QED
    BY <1>1, <1>2, <1>3, <1>4, <2>1
<1>6. s * q + s <= s * t
  <2>1. s * q < s * t
    BY <1>1, <1>2, <1>4, <1>5
  <2>2. q < t
    <3>1. t <= q => s * t <= s * q
      BY <1>1, <1>4, Times
    <3> QED
      BY <1>1, <1>4, <1>5, <2>1, <3>1
  <2>3. s * (q + 1) <= s * t /\ s * (q + 1) = s * q + s
    BY <1>1, <1>4, <2>2, Times
  <2> QED
    BY <2>3
<1>7. \A a \in Nat : a \div s = q <=> s * q <= a /\ a < s * q + s
  BY <1>1, <1>4, Quotient
<1>8. {a \in 0 .. all - 1 : a \div s = q} = s * q .. s * q + s - 1
  <2>1. ASSUME NEW a \in 0 .. all - 1
        PROVE  a \div s = q <=> a \in s * q .. s * q + s - 1
    BY <1>1, <1>2, <1>5, <1>7
  <2>2. ASSUME NEW a \in s * q .. s * q + s - 1 PROVE a \in 0 .. all - 1
    BY <1>1, <1>2, <1>5, <1>6
  <2> QED
    BY <2>1, <2>2
<1> QED
  BY <1>1, <1>5, <1>6, <1>8 DEF s, q, t, all

\* What Hosts(net) is to be, of the places in a sequence f.
HostsOf(net, f) ==
  LET b == Base(net) + From(net)
  IN  /\ DOMAIN f = 1 .. Count(net)
      /\ \A i \in DOMAIN f : f[i] = b + i - 1

LEMMA HostsAre ==
  ASSUME NEW net, net.ones \in Prefix, net.ip \in 0 .. TwoTo[AddrBits] - 1,
         Count(net) > 0
  PROVE  HostsOf(net, Hosts(net))
<1> DEFINE b == Base(net) + From(net)
           all == TwoTo[AddrBits]
<1>1. /\ Base(net) \in Nat /\ Size(net) \in Nat /\ all \in Nat
      /\ Base(net) + Size(net) <= all
  BY SubnetIs, SizeIs, Sizes
<1>2. From(net) \in {0, 1} /\ Count(net) \in Int /\ From(net) + Count(net) <= Size(net)
  <2>1. Size(net) >= 1 /\ (net.ones < AddrBits - 1 => Size(net) >= 4)
    BY SizeIs
  <2>2. AddrBits \in Nat /\ net.ones \in Nat
    BY IfaceAssumption DEF Prefix
  <2> QED
    BY <1>1, <2>1, <2>2, CountIs
<1>3. /\ DOMAIN Hosts(net) = 1 .. Count(net)
      /\ \A i \in 1 .. Count(net) : Hosts(net)[i] = (b + i - 1) % all
  BY DEF Hosts
<1> HIDE DEF all
<1>4. ASSUME NEW i \in 1 .. Count(net) PROVE (b + i - 1) % all = b + i - 1
  <2>1. b + i - 1 \in Int /\ 0 <= b + i - 1 /\ b + i - 1 < all
    BY <1>1, <1>2
  <2> HIDE DEF b
  <2> QED
    BY <1>1, <2>1
<1> QED
  BY <1>3, <1>4 DEF HostsOf, all

-----------------------------------------------------------------------------
(* Detect.                                                                 *)

Privates == {i \in Candidates : offered[i].ip \in Private}

\* While it looks, no private address has been offered and the fallback is
\* the first of the others; when it is done the preferred one is the result.
DetectInv ==
  /\ offered \in Seq(IPv4Nets) /\ looked \in Nat
  /\ detecting \in {"iface", "addrs", "done", "failed"}
  /\ detecting \in {"iface", "addrs"} =>
       /\ Privates = {}
       /\ fallback = IF Candidates = {} THEN NoNet
                     ELSE offered[Earliest(Candidates)]
  /\ looked = 0 => detecting # "addrs" /\ offered = <<>>
  /\ detecting = "done" => Candidates # {} /\ local = Preferred
  /\ detecting = "failed" => Candidates = {}

LEMMA DetectInitInv == DetectInit => DetectInv
<1> SUFFICES ASSUME DetectInit PROVE DetectInv
  OBVIOUS
<1>1. Candidates = {}
  BY DEF DetectInit, Candidates
<1> QED
  BY <1>1 DEF DetectInit, DetectInv, Privates

LEMMA EarliestIn ==
  ASSUME NEW I, I \subseteq Nat, I # {}
  PROVE  Earliest(I) \in I /\ \A j \in I : Earliest(I) <= j
BY Least DEF Earliest

\* An address is offered that is not link-local, or one that is.
LEMMA OfferedMore ==
  ASSUME DetectInv, NEW net \in IPv4Nets, offered' = Append(offered, net)
  PROVE  LET m == Len(offered) + 1
         IN  /\ offered' \in Seq(IPv4Nets) /\ m \in Nat /\ offered'[m] = net
             /\ \A i \in Candidates : i < m /\ i \in Nat /\ offered'[i] = offered[i]
             /\ Candidates' = IF net.ip \in LinkLocal THEN Candidates
                              ELSE Candidates \cup {m}
             /\ Privates' = IF net.ip \notin LinkLocal /\ net.ip \in Private
                              THEN Privates \cup {m} ELSE Privates
<1> DEFINE m == Len(offered) + 1
<1>1. /\ Len(offered) \in Nat /\ DOMAIN offered = 1 .. Len(offered)
      /\ offered' \in Seq(IPv4Nets) /\ DOMAIN offered' = 1 .. m
      /\ offered'[m] = net
      /\ \A i \in DOMAIN offered : offered'[i] = offered[i]
  BY DEF DetectInv
<1>2. \A i : i \in DOMAIN offered' <=> i \in DOMAIN offered \/ i = m
  BY <1>1
<1>3. \A i \in DOMAIN offered : i < m /\ i # m
  BY <1>1
<1>4. Candidates' = IF net.ip \in LinkLocal THEN Candidates
                    ELSE Candidates \cup {m}
  BY <1>1, <1>2, <1>3 DEF Candidates
<1>5. Candidates \subseteq DOMAIN offered
  BY DEF Candidates
<1>6. Privates' = IF net.ip \notin LinkLocal /\ net.ip \in Private
                    THEN Privates \cup {m} ELSE Privates
  BY <1>1, <1>3, <1>4, <1>5 DEF Privates
<1> QED
  BY <1>1, <1>3, <1>4, <1>5, <1>6

LEMMA DetectStep == DetectInv /\ [Detect]_detectVars => DetectInv'
<1> SUFFICES ASSUME DetectInv, [Detect]_detectVars PROVE DetectInv'
  OBVIOUS
<1>0. ASSUME offered' = offered
      PROVE  /\ Candidates' = Candidates /\ Privates' = Privates
             /\ Preferred' = Preferred
  <2>1. Candidates' = Candidates /\ Privates' = Privates
    BY <1>0 DEF Candidates, Privates
  <2>2. /\ Preferred = offered[Earliest(IF Privates # {} THEN Privates ELSE Candidates)]
        /\ Preferred' = offered'[Earliest(IF Privates' # {} THEN Privates' ELSE Candidates')]
    BY DEF Preferred, Privates
  <2> QED
    BY <1>0, <2>1, <2>2
<1>1. CASE NoInterfaces
  <2>1. Candidates = {}
    BY <1>1 DEF NoInterfaces, DetectInv, Candidates
  <2> QED
    BY <1>0, <1>1, <2>1 DEF NoInterfaces, DetectInv
<1>2. CASE NextIface
  BY <1>0, <1>2 DEF NextIface, DetectInv
<1>3. CASE NextAddr
  <2>1. PICK net \in IPv4Nets : Take(net) /\ offered' = Append(offered, net)
    BY <1>3 DEF NextAddr
  <2> DEFINE m == Len(offered) + 1
  <2>2. /\ offered' \in Seq(IPv4Nets) /\ m \in Nat /\ offered'[m] = net
        /\ \A i \in Candidates : i < m /\ i \in Nat /\ offered'[i] = offered[i]
        /\ Candidates' = IF net.ip \in LinkLocal THEN Candidates
                         ELSE Candidates \cup {m}
        /\ Privates' = IF net.ip \notin LinkLocal /\ net.ip \in Private
                         THEN Privates \cup {m} ELSE Privates
    BY <2>1, OfferedMore
  <2>3. /\ detecting = "addrs" /\ Privates = {} /\ looked # 0 /\ looked' = looked
        /\ looked \in Nat
        /\ fallback = IF Candidates = {} THEN NoNet
                      ELSE offered[Earliest(Candidates)]
    BY <1>3 DEF NextAddr, DetectInv
  <2> HIDE DEF m
  <2>4. Candidates # {} => /\ Earliest(Candidates) \in Candidates
                           /\ \A j \in Candidates : Earliest(Candidates) <= j
    BY <2>2, EarliestIn
  <2>5. CASE net.ip \in LinkLocal
    <3>1. UNCHANGED <<local, fallback, detecting>>
      BY <2>1, <2>5 DEF Take
    <3> QED
      BY <2>2, <2>3, <2>4, <2>5, <3>1 DEF DetectInv
  <2>6. CASE net.ip \notin LinkLocal /\ net.ip \in Private
    <3>1. local' = net /\ detecting' = "done"
      BY <2>1, <2>6 DEF Take
    <3>2. Privates' = {m} /\ Candidates' # {}
      BY <2>2, <2>3, <2>6
    <3>3. Earliest({m}) = m
      BY <2>2, EarliestIn
    <3>4. Preferred' = offered'[Earliest(IF Privates' # {} THEN Privates' ELSE Candidates')]
      BY DEF Preferred, Privates
    <3>5. Preferred' = net
      BY <2>2, <3>2, <3>3, <3>4
    <3> QED
      BY <2>2, <2>3, <3>1, <3>2, <3>5 DEF DetectInv
  <2>7. CASE net.ip \notin LinkLocal /\ net.ip \notin Private
    <3>1. fallback' = Keep(net) /\ UNCHANGED <<local, detecting>>
      BY <2>1, <2>7 DEF Take
    <3>2. Candidates' = Candidates \cup {m} /\ Privates' = {}
      BY <2>2, <2>3, <2>7
    <3>3. CASE Candidates = {}
      <4>1. Earliest(Candidates') = m /\ Candidates' # {}
        BY <2>2, <3>2, <3>3, EarliestIn
      <4>2. fallback' = net
        BY <2>3, <3>1, <3>3 DEF Keep
      <4> QED
        BY <2>2, <2>3, <3>1, <3>2, <4>1, <4>2 DEF DetectInv
    <3>4. CASE Candidates # {}
      <4> DEFINE e == Earliest(Candidates)
      <4>1. e \in Candidates /\ e \in Nat /\ e < m /\ \A j \in Candidates : e <= j
        BY <2>2, <2>4, <3>4
      <4>2. \A x \in Candidates' : (\A j \in Candidates' : x <= j) => x = e
        BY <2>2, <3>2, <4>1
      <4>3. Candidates' \subseteq Nat /\ Candidates' # {}
        BY <2>2, <3>2
      <4>4. Earliest(Candidates') = e
        BY <4>2, <4>3, EarliestIn
      <4>5. offered'[e] = fallback /\ fallback # NoNet
        <5>1. offered[e] \in IPv4Nets
          BY <4>1 DEF Candidates, DetectInv
        <5> QED
          BY <2>2, <2>3, <3>4, <4>1, <5>1, IfaceAssumption
      <4>6. fallback' = fallback
        BY <3>1, <4>5 DEF Keep
      <4> QED
        BY <2>2, <2>3, <3>1, <3>2, <4>3, <4>4, <4>5, <4>6 DEF DetectInv
    <3> QED
      BY <3>3, <3>4
  <2> QED
    BY <2>5, <2>6, <2>7
<1>4. CASE NoMoreAddrs
  BY <1>0, <1>4 DEF NoMoreAddrs, DetectInv
<1>5. CASE NoMoreIfaces
  <2>1. /\ Privates = {} /\ local' = fallback /\ UNCHANGED <<looked, fallback, offered>>
        /\ fallback = IF Candidates = {} THEN NoNet
                      ELSE offered[Earliest(Candidates)]
        /\ detecting' = IF fallback = NoNet THEN "failed" ELSE "done"
        /\ looked # 0
    BY <1>5 DEF NoMoreIfaces, DetectInv
  <2>2. Preferred = offered[Earliest(Candidates)]
    BY <2>1 DEF Preferred, Privates
  <2>3. Candidates # {} => fallback # NoNet
    <3> SUFFICES ASSUME Candidates # {} PROVE fallback # NoNet
      OBVIOUS
    <3>1. Candidates \subseteq DOMAIN offered /\ DOMAIN offered \subseteq Nat
      BY DEF Candidates, DetectInv
    <3>2. Earliest(Candidates) \in DOMAIN offered
      BY <3>1, EarliestIn
    <3>3. fallback \in IPv4Nets
      BY <2>1, <3>2 DEF DetectInv
    <3> QED
      BY <3>3, IfaceAssumption
  <2> QED
    BY <1>0, <2>1, <2>2, <2>3 DEF DetectInv
<1>6. CASE UNCHANGED detectVars
  BY <1>0, <1>6 DEF detectVars, DetectInv
<1> QED
  BY <1>1, <1>2, <1>3, <1>4, <1>5, <1>6 DEF Detect

-----------------------------------------------------------------------------
(* The targets.                                                            *)

\* The hosts of the preferred subnet are the addresses the code counts.
LEMMA SubnetHostsAre ==
  ASSUME Preferred.ones \in Prefix, Preferred.ip \in 0 .. TwoTo[AddrBits] - 1
  PROVE  LET b == Base(Preferred) + From(Preferred)
             n == Size(Preferred) - 2 * From(Preferred)
         IN  /\ b \in Nat /\ n \in Nat /\ n >= 1
             /\ SubnetHosts = b .. b + n - 1
             /\ Cardinality(SubnetHosts) = n
<1> DEFINE p == Preferred
           b == Base(p)
           s == Size(p)
           f == From(p)
<1>1. /\ b \in Nat /\ s \in Nat /\ s >= 1 /\ Subnet = b .. b + s - 1
  BY SubnetIs, SizeIs DEF Subnet, Size
<1>2. /\ f \in {0, 1}
      /\ f = 0 => s <= 2
      /\ f = 1 => s >= 4
  <2>1. AddrBits \in Nat /\ Preferred.ones \in Nat
    BY IfaceAssumption DEF Prefix
  <2> QED
    BY <2>1, CountIs, SizeIs
<1> HIDE DEF p, b, s, f
<1>3. Cardinality(Subnet) = s
  <2>1. b \in Int /\ b + s - 1 \in Int /\ ~(b > b + s - 1) /\ (b + s - 1) - b + 1 = s
    BY <1>1
  <2>2. Cardinality(b .. b + s - 1) = s
    BY <2>1, FS_Interval
  <2> QED
    BY <1>1, <2>2
<1>4. SubnetHosts = {a \in Subnet : s > 2 => (\E c \in Subnet : c < a)
                                              /\ (\E c \in Subnet : a < c)}
  BY <1>3 DEF SubnetHosts
<1>5. SubnetHosts = b + f .. b + f + (s - 2 * f) - 1
  <2>1. CASE f = 0
    BY <1>1, <1>2, <1>4, <2>1
  <2>2. CASE f = 1
    <3>1. ASSUME NEW a \in SubnetHosts PROVE a \in b + 1 .. b + s - 2
      BY <1>1, <1>2, <1>4, <2>2
    <3>2. ASSUME NEW a \in b + 1 .. b + s - 2 PROVE a \in SubnetHosts
      <4>1. a \in Subnet /\ b \in Subnet /\ b + s - 1 \in Subnet
            /\ b < a /\ a < b + s - 1
        BY <1>1, <1>2, <2>2
      <4> QED
        BY <1>4, <4>1
    <3>3. b + 1 + (s - 2 * 1) - 1 = b + s - 2
      BY <1>1
    <3> QED
      BY <2>2, <3>1, <3>2, <3>3
  <2> QED
    BY <1>2, <2>1, <2>2
<1>6. s - 2 * f \in Nat /\ s - 2 * f >= 1 /\ b + f \in Nat
  BY <1>1, <1>2
<1>7. Cardinality(SubnetHosts) = s - 2 * f
  <2> DEFINE u == b + f
             n == s - 2 * f
  <2>1. u \in Int /\ u + n - 1 \in Int /\ ~(u > u + n - 1) /\ (u + n - 1) - u + 1 = n
    BY <1>6
  <2>2. Cardinality(u .. u + n - 1) = n
    BY <2>1, FS_Interval
  <2> QED
    BY <1>5, <2>2
<1> QED
  BY <1>5, <1>6, <1>7 DEF p, b, s, f

TargetInv ==
  /\ DetectInv
  /\ stage \in {"env", "detect", "hosts", "ssh", "scan", "exit"}
  /\ maxHosts \in Nat
  /\ stage = "env" => detecting = "iface"
  /\ stage \in {"hosts", "ssh", "scan"} => detecting = "done"
  /\ stage \in {"ssh", "scan"} =>
       targets = Hosts(local) /\ ~HostsFail(local, maxHosts)
  /\ stage = "exit" /\ DetectOver =>
       detecting = "failed" \/ HostsFail(local, maxHosts)

LEMMA TargetInit == Init => TargetInv
<1> SUFFICES ASSUME Init PROVE TargetInv
  OBVIOUS
<1>1. DetectInv /\ detecting = "iface"
  BY DetectInitInv DEF Init, DetectInit
<1>2. stage = "env" /\ maxHosts \in Nat
  BY StartupAssumption DEF Init
<1> QED
  BY <1>1, <1>2 DEF TargetInv, DetectOver

LEMMA TargetStep == TargetInv /\ [Next]_runVars => TargetInv'
<1> SUFFICES ASSUME TargetInv, [Next]_runVars PROVE TargetInv'
  OBVIOUS
<1>0. UNCHANGED flags
  BY DEF Next, Start, LoadEnv, ParseFlags, DetectIface, Detected, Enumerate,
     ChooseMethods, Finished, runVars
<1>1. CASE DetectIface
  <2>1. DetectInv'
    BY <1>1, DetectStep DEF DetectIface, TargetInv
  <2> QED
    BY <1>0, <1>1, <2>1 DEF DetectIface, TargetInv, flags
<1>2. CASE ~DetectIface
  <2>1. UNCHANGED detectVars
    BY <1>2 DEF Next, Start, LoadEnv, ParseFlags, DetectIface, Detected,
       Enumerate, ChooseMethods, Finished, runVars
  <2>2. DetectInv'
    BY <2>1, DetectStep DEF TargetInv
  <2>3. /\ UNCHANGED <<detecting, local, maxHosts>> /\ DetectOver' = DetectOver
        /\ HostsFail(local, maxHosts)' = HostsFail(local, maxHosts)
        /\ Hosts(local)' = Hosts(local)
    BY <1>0, <2>1 DEF detectVars, DetectOver, flags
  <2>4. CASE LoadEnv \/ Finished \/ UNCHANGED runVars
    BY <2>2, <2>3, <2>4 DEF LoadEnv, Finished, runVars, TargetInv
  <2>5. CASE ParseFlags
    BY <2>2, <2>3, <2>5 DEF ParseFlags, TargetInv, DetectOver
  <2>6. CASE Detected
    BY <2>2, <2>3, <2>6 DEF Detected, TargetInv, DetectOver
  <2>7. CASE Enumerate
    BY <2>2, <2>3, <2>7 DEF Enumerate, TargetInv, DetectOver
  <2>8. CASE ChooseMethods
    BY <2>2, <2>3, <2>8 DEF ChooseMethods, TargetInv, DetectOver
  <2> QED
    BY <1>2, <2>4, <2>5, <2>6, <2>7, <2>8 DEF Next, Start
<1> QED
  BY <1>1, <1>2

LEMMA PreferredIs ==
  ASSUME DetectInv, Candidates # {}
  PROVE  Preferred \in IPv4Nets
<1>1. Candidates \subseteq DOMAIN offered /\ DOMAIN offered \subseteq Nat
  BY DEF Candidates, DetectInv
<1> DEFINE I == IF Privates # {} THEN Privates ELSE Candidates
<1>2. I \subseteq DOMAIN offered /\ I # {} /\ I \subseteq Nat
  BY <1>1 DEF Privates
<1>3. Preferred = offered[Earliest(I)]
  BY DEF Preferred, Privates
<1> HIDE DEF I
<1>4. Earliest(I) \in DOMAIN offered
  BY <1>2, EarliestIn
<1> QED
  BY <1>3, <1>4 DEF DetectInv

LEMMA TargetsFollow == TargetInv => TargetsExact
<1> SUFFICES ASSUME TargetInv PROVE TargetsExact
  OBVIOUS
<1> DEFINE p == Preferred
           b == Base(p) + From(p)
           n == Size(p) - 2 * From(p)
<1>1. ASSUME detecting = "done"
      PROVE  /\ local = p /\ Candidates # {} /\ p \in IPv4Nets
             /\ p.ip \in 0 .. TwoTo[AddrBits] - 1 /\ p.ones \in Prefix \cup {Odd}
  BY <1>1, PreferredIs, IfaceAssumption DEF TargetInv, DetectInv
<1>2. ASSUME detecting = "done", p.ones # Odd
      PROVE  /\ b \in Nat /\ n \in Nat /\ n >= 1
             /\ SubnetHosts = b .. b + n - 1
             /\ Cardinality(SubnetHosts) = n
  <2>1. p.ones \in Prefix /\ p.ip \in 0 .. TwoTo[AddrBits] - 1
    BY <1>1, <1>2
  <2> QED
    BY <2>1, SubnetHostsAre
<1>3. ASSUME detecting = "done", p.ones # Odd
      PROVE  \/ Count(p) = n
             \/ Count(p) = - 2 /\ p.ones = 0 /\ IntBits = AddrBits
  <2>1. p.ones \in Prefix
    BY <1>1, <1>3
  <2>2. Size(p) \in Nat
    BY <2>1, SizeIs
  <2> QED
    BY <2>1, <2>2, CountIs
<1> HIDE DEF p
<1>4. ASSUME stage \in {"ssh", "scan"}
      PROVE  /\ ToSet(targets) = SubnetHosts
             /\ \A i, j \in DOMAIN targets : i < j => targets[i] < targets[j]
             /\ maxHosts > 0 => Len(targets) <= maxHosts
  <2>1. /\ detecting = "done" /\ targets = Hosts(local)
        /\ ~HostsFail(local, maxHosts) /\ maxHosts \in Nat
    BY <1>4 DEF TargetInv
  <2>2. /\ local = p /\ p.ip \in 0 .. TwoTo[AddrBits] - 1
        /\ p.ones \in Prefix \cup {Odd}
    BY <1>1, <2>1
  <2>3. /\ p.ones # Odd /\ ~(Count(p) <= 0)
        /\ ~(maxHosts > 0 /\ Count(p) > maxHosts)
    BY <2>1, <2>2 DEF HostsFail
  <2>4. /\ b \in Nat /\ n \in Nat /\ n >= 1
        /\ SubnetHosts = b .. b + n - 1
        /\ Count(p) = n
    BY <1>2, <1>3, <2>1, <2>3
  <2>5. HostsOf(p, Hosts(p))
    BY <2>2, <2>3, <2>4, HostsAre
  <2>6. DOMAIN targets = 1 .. n /\ \A i \in 1 .. n : targets[i] = b + i - 1
    BY <2>1, <2>2, <2>4, <2>5 DEF HostsOf
  <2> HIDE DEF b, n
  <2>7. ToSet(targets) = SubnetHosts
    <3>1. ASSUME NEW a \in SubnetHosts PROVE \E i \in 1 .. n : targets[i] = a
      <4>1. a - b + 1 \in 1 .. n /\ b + (a - b + 1) - 1 = a
        BY <2>4
      <4> QED
        BY <2>6, <4>1
    <3>2. ASSUME NEW i \in 1 .. n PROVE targets[i] \in SubnetHosts
      BY <2>4, <2>6
    <3> QED
      BY <2>6, <3>1, <3>2 DEF ToSet
  <2>8. \A i, j \in DOMAIN targets : i < j => targets[i] < targets[j]
    BY <2>4, <2>6
  <2>9. Len(targets) = n
    <3>1. targets = [i \in 1 .. n |-> targets[i]]
      BY <2>1, <2>2, <2>4 DEF Hosts
    <3>2. \A i \in 1 .. n : targets[i] \in Nat
      BY <2>4, <2>6
    <3>3. targets \in Seq(Nat)
      BY <2>4, <3>1, <3>2
    <3> QED
      BY <2>4, <2>6, <3>3
  <2> QED
    BY <2>1, <2>3, <2>4, <2>7, <2>8, <2>9
<1>5. ASSUME stage = "exit", DetectOver
      PROVE  \/ Candidates = {}
             \/ p.ones = Odd
             \/ maxHosts > 0 /\ Cardinality(SubnetHosts) > maxHosts
             \/ p.ones = 0 /\ IntBits = AddrBits
  <2>1. CASE detecting = "failed"
    BY <2>1 DEF TargetInv, DetectInv
  <2>2. CASE detecting # "failed" /\ p.ones # Odd
    <3>1. detecting = "done" /\ HostsFail(local, maxHosts) /\ local = p
      BY <1>1, <1>5, <2>2 DEF TargetInv, DetectOver
    <3>2. Count(p) <= 0 \/ (maxHosts > 0 /\ Count(p) > maxHosts)
      BY <2>2, <3>1 DEF HostsFail
    <3>3. n \in Nat /\ n >= 1 /\ Cardinality(SubnetHosts) = n /\ maxHosts \in Nat
      BY <1>2, <2>2, <3>1 DEF TargetInv
    <3>4. \/ Count(p) = n
          \/ Count(p) = - 2 /\ p.ones = 0 /\ IntBits = AddrBits
      BY <1>3, <2>2, <3>1
    <3> HIDE DEF n
    <3> QED
      BY <3>2, <3>3, <3>4
  <2> QED
    BY <2>1, <2>2
<1> QED
  BY <1>4, <1>5 DEF TargetsExact, p

-----------------------------------------------------------------------------
(* The rest of the run.                                                    *)

StageInv ==
  /\ stage \in {"env", "detect", "hosts", "ssh", "scan", "exit"}
  /\ stage # "env" => LoadOver
  /\ LoginsConfigured

StartInv == EnvInv /\ StageInv

\* Once the file is loaded, nothing touches the environment.
LEMMA EnvRests ==
  [Next]_runVars => LoadFile \/ UNCHANGED envVars
BY DEF Next, Start, LoadEnv, ParseFlags, DetectIface, Detected, Enumerate,
       ChooseMethods, Finished, runVars

LEMMA EnvInvStep == EnvInv /\ [Next]_runVars => EnvInv'
BY EnvRests, EnvStep

LEMMA ToSetConcat ==
  ASSUME NEW S, NEW s \in Seq(S), NEW t \in Seq(S)
  PROVE  s \o t \in Seq(S) /\ ToSet(s \o t) = ToSet(s) \cup ToSet(t)
<1> DEFINE u == s \o t
<1>1. /\ Len(s) \in Nat /\ Len(t) \in Nat /\ u \in Seq(S)
      /\ DOMAIN s = 1 .. Len(s) /\ DOMAIN t = 1 .. Len(t)
      /\ DOMAIN u = 1 .. Len(s) + Len(t)
      /\ \A i \in 1 .. Len(s) + Len(t) :
           u[i] = IF i <= Len(s) THEN s[i] ELSE t[i - Len(s)]
  OBVIOUS
<1> HIDE DEF u
<1>2. ASSUME NEW i \in DOMAIN s PROVE i \in DOMAIN u /\ u[i] = s[i]
  BY <1>1
<1>3. ASSUME NEW i \in DOMAIN t PROVE i + Len(s) \in DOMAIN u /\ u[i + Len(s)] = t[i]
  BY <1>1
<1>4. ASSUME NEW i \in DOMAIN u
      PROVE  (\E j \in DOMAIN s : u[i] = s[j]) \/ (\E j \in DOMAIN t : u[i] = t[j])
  <2>1. CASE i <= Len(s)
    BY <1>1, <2>1
  <2>2. CASE i > Len(s)
    <3>1. i - Len(s) \in DOMAIN t /\ u[i] = t[i - Len(s)]
      BY <1>1, <2>2
    <3> QED
      BY <3>1
  <2> QED
    BY <1>1, <2>1, <2>2
<1>5. ToSet(u) = ToSet(s) \cup ToSet(t)
  BY <1>2, <1>3, <1>4 DEF ToSet
<1> QED
  BY <1>1, <1>5 DEF u

\* The methods are those chosen.
LEMMA MethodsChosen ==
  ASSUME NEW ping \in BOOLEAN, NEW ssh \in BOOLEAN
  PROVE  "ssh" \in ToSet((IF ping THEN <<>> ELSE <<"icmp">>) \o <<"arp">>
                           \o (IF ssh THEN <<"ssh">> ELSE <<>>)) <=> ssh
<1> DEFINE a == IF ping THEN <<>> ELSE <<"icmp">>
           b == <<"arp">>
           c == IF ssh THEN <<"ssh">> ELSE <<>>
           Names == {"icmp", "arp", "ssh"}
<1>0. /\ <<>> \in Seq(Names) /\ <<"icmp">> \in Seq(Names)
      /\ <<"arp">> \in Seq(Names) /\ <<"ssh">> \in Seq(Names)
  OBVIOUS
<1>1. a \in Seq(Names) /\ b \in Seq(Names) /\ c \in Seq(Names)
  BY <1>0
<1>2. "ssh" \notin ToSet(a) /\ "ssh" \notin ToSet(b)
  BY DEF ToSet
<1>3. "ssh" \in ToSet(c) <=> ssh
  <2>1. <<"ssh">>[1] = "ssh" /\ 1 \in DOMAIN <<"ssh">> /\ ToSet(<<>>) = {}
    BY DEF ToSet
  <2> QED
    BY <2>1 DEF ToSet
<1> HIDE DEF a, b, c, Names
<1>4. ToSet(a \o b \o c) = ToSet(a) \cup ToSet(b) \cup ToSet(c)
  <2> DEFINE ab == a \o b
  <2>1. ab \in Seq(Names) /\ ToSet(ab) = ToSet(a) \cup ToSet(b)
    BY <1>1, ToSetConcat
  <2> HIDE DEF ab
  <2>2. ToSet(ab \o c) = ToSet(ab) \cup ToSet(c)
    BY <1>1, <2>1, ToSetConcat
  <2> QED
    BY <2>1, <2>2 DEF ab
<1>5. "ssh" \in ToSet(a \o b \o c) <=> ssh
  BY <1>2, <1>3, <1>4
<1> QED
  BY <1>5 DEF a, b, c

LEMMA LoginsChosen == EnvInv /\ StageInv /\ ChooseMethods => LoginsConfigured'
<1> SUFFICES ASSUME EnvInv, StageInv, ChooseMethods PROVE LoginsConfigured'
  OBVIOUS
<1> DEFINE cred == CredentialsFromEnv(env)
           ssh == enableSSH /\ Usable(cred)
<1>1. /\ UNCHANGED <<envVars, flags>> /\ LoadOver
      /\ login' = IF ssh THEN cred ELSE NoLogin
      /\ "ssh" \in ToSet(methods') <=> ssh
  BY MethodsChosen DEF ChooseMethods, StageInv
<1>2. Merged' = Merged /\ was' = was /\ loading' = loading /\ enableSSH' = enableSSH
  BY <1>1, SameFile DEF envVars, flags
<1>3. /\ \A k \in Key : env[k] \in {was[k], Merged[k]}
      /\ loading = "done" => env = Merged
  BY InvMerged DEF EnvMerged
<1>4. cred[1] = env["SSH_USERS"] /\ cred[2] = env["SSH_PASSWORDS"]
  BY DEF CredentialsFromEnv
<1>5. Unset \notin Lists
  BY EnvAssumption, StartupAssumption
<1>6. login' # NoLogin <=> ssh
  <2>1. NoLogin[1] = Unset
    BY DEF NoLogin
  <2>2. Usable(cred) => cred # NoLogin
    BY <1>5, <2>1 DEF Usable
  <2> QED
    BY <1>1, <2>2
<1>7. ASSUME loading = "done"
      PROVE  login' = IF enableSSH /\ Merged["SSH_USERS"] \in Lists
                         /\ Merged["SSH_PASSWORDS"] \in Lists
                        THEN CredentialsFromEnv(Merged) ELSE NoLogin
  BY <1>1, <1>3, <1>4, <1>7 DEF Usable
<1>8. login' # NoLogin =>
         /\ enableSSH
         /\ login'[1] \in {was["SSH_USERS"], Merged["SSH_USERS"]}
         /\ login'[2] \in {was["SSH_PASSWORDS"], Merged["SSH_PASSWORDS"]}
  BY <1>1, <1>3, <1>4, <1>6, StartupAssumption
<1> QED
  BY <1>1, <1>2, <1>6, <1>7, <1>8 DEF LoginsConfigured, CredentialsFromEnv

LEMMA StageStep == EnvInv /\ StageInv /\ [Next]_runVars => StageInv'
<1> SUFFICES ASSUME EnvInv, StageInv, [Next]_runVars PROVE StageInv'
  OBVIOUS
<1> USE DEF StageInv
<1>1. CASE ChooseMethods
  BY <1>1, LoginsChosen DEF ChooseMethods, envVars, LoadOver
<1>2. CASE LoadEnv \/ ParseFlags \/ DetectIface \/ Detected \/ Enumerate
  <2>1. /\ stage \in {"env", "detect", "hosts"}
        /\ stage' \in {"env", "detect", "hosts", "ssh", "exit"}
        /\ stage' # "env" => LoadOver /\ UNCHANGED envVars
    BY <1>2 DEF LoadEnv, ParseFlags, DetectIface, Detected, Enumerate
  <2> QED
    BY <2>1 DEF LoadOver, envVars, LoginsConfigured
<1>3. CASE UNCHANGED runVars
  <2>1. UNCHANGED <<stage, login, methods, envVars, flags>> /\ Merged' = Merged
    BY <1>3, SameFile DEF runVars, envVars
  <2> QED
    BY <1>3, <2>1 DEF runVars, envVars, flags, LoadOver, LoginsConfigured
<1> QED
  BY <1>1, <1>2, <1>3 DEF Next, Start, Finished

LEMMA StartAlways == Spec => []StartInv
<1>1. Init => StartInv
  BY EnvInitInv DEF Init, StartInv, StageInv, LoginsConfigured
<1>2. StartInv /\ [Next]_runVars => StartInv'
  BY EnvInvStep, StageStep DEF StartInv
<1> QED
  BY <1>1, <1>2, PTL DEF Spec

\* "Existing process env wins", for every file, every environment, and every
\* order the variables are set in, a failure on the way included.
THEOREM EnvCorrect == Spec => []EnvMerged
<1>1. StartInv => EnvMerged
  BY InvMerged DEF StartInv
<1> QED
  BY StartAlways, <1>1, PTL

\* Logins are tried exactly as the environment, or the file where it is
\* silent, says, and after an error of the file with nothing from elsewhere.
THEOREM LoginsAsConfigured == Spec => []LoginsConfigured
<1>1. StartInv => LoginsConfigured
  BY DEF StartInv, StageInv
<1> QED
  BY StartAlways, <1>1, PTL
\* Detect and Hosts: whatever interfaces and addresses there are and whatever
\* the widths of an address and of an int, the targets are the hosts of the
\* first private address's subnet, or else of the first address's, and a run
\* that ends before has one of the reasons named.
THEOREM TargetsAreExact == Spec => []TargetsExact
BY TargetInit, TargetStep, TargetsFollow, PTL DEF Spec
=============================================================================

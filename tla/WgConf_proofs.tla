---------------------------- MODULE WgConf_proofs ----------------------------
(***************************************************************************)
(* wgconf::parse accepts exactly the files that are well-formed as a       *)
(* whole, and what it makes of them is what they say: for every set of     *)
(* lines, every length and every value.                                    *)
(*                                                                         *)
(* A list is gathered from many lines, so that the proof needs what the    *)
(* recursive functions Csv and FlattenSeq make of one more element.  They  *)
(* are defined by CHOOSE; the first part shows that a function so defined  *)
(* exists, by induction over a set of naturals, which has a least element  *)
(* outside of it or is all of them.  The second part says how what a text  *)
(* means changes with one more line; the third, that what the parser keeps *)
(* follows.                                                                *)
(***************************************************************************)
EXTENDS WgConf, SequenceTheorems, FiniteSetTheorems, WellFoundedInduction, TLAPS

(* Induction, and functions defined by recursion                           *)

Less == {p \in Nat \X Nat : p[1] < p[2]}

\* A set with 0 and with the successor of each number in it has every number.
LEMMA NatSetInduction ==
  ASSUME NEW T, 0 \in T, \A n \in Nat : n \in T => n + 1 \in T
  PROVE  \A n \in Nat : n \in T
<1> DEFINE S == Nat \ T
<1> SUFFICES ASSUME S # {} PROVE FALSE
  OBVIOUS
<1>1. IsWellFoundedOn(Less, Nat)
  BY NatLessThanWellFounded DEF OpToRel, Less
<1>2. PICK x \in S : \A y \in S : <<y, x>> \notin Less
  <2> S \subseteq Nat
    OBVIOUS
  <2> HIDE DEF S
  <2> QED  BY <1>1, WFMin
<1>3. x \in Nat /\ x # 0 /\ x - 1 \in Nat /\ x - 1 \in S
  OBVIOUS
<1>4. <<x - 1, x>> \in Less
  BY <1>3 DEF Less
<1> QED  BY <1>2, <1>3, <1>4

\* A function defined by what each of its values makes of the one before it exists.
Unfolds(f, n, x, G) == f[0] = x /\ \A i \in 1..n : f[i] = G[i][f[i - 1]]

LEMMA Recursion ==
  ASSUME NEW n \in Nat, NEW S, NEW x \in S, NEW G \in [1..n -> [S -> S]]
  PROVE  \E f \in [0..n -> S] : Unfolds(f, n, x, G)
<1> USE DEF Unfolds
<1> DEFINE Upto(m) == \E f \in [0..m -> S] :
                        f[0] = x /\ \A i \in 1..m : f[i] = G[i][f[i - 1]]
           T == {m \in Nat : m <= n => Upto(m)}
<1>1. Upto(0)
  <2> DEFINE g == [i \in 0..0 |-> x]
  <2>1. g \in [0..0 -> S] /\ g[0] = x /\ \A i \in 1..0 : g[i] = G[i][g[i - 1]]
    OBVIOUS
  <2> HIDE DEF g
  <2> QED  BY <2>1
<1>2. ASSUME NEW m \in Nat, m + 1 <= n, Upto(m)
      PROVE  Upto(m + 1)
  <2>1. PICK f \in [0..m -> S] : f[0] = x /\ \A i \in 1..m : f[i] = G[i][f[i - 1]]
    BY <1>2
  <2> DEFINE g == [i \in 0..(m + 1) |-> IF i = m + 1 THEN G[m + 1][f[m]] ELSE f[i]]
  <2>2. G[m + 1] \in [S -> S] /\ f[m] \in S
    BY <1>2
  <2>3. g \in [0..(m + 1) -> S]
    BY <2>2
  <2>4. g[0] = x
    BY <2>1
  <2>5. ASSUME NEW i \in 1..(m + 1)
        PROVE  g[i] = G[i][g[i - 1]]
    <3>1. CASE i = m + 1
      BY <3>1
    <3>2. CASE i \in 1..m
      BY <2>1, <3>2
    <3> QED  BY <3>1, <3>2
  <2> HIDE DEF g
  <2> QED  BY <2>3, <2>4, <2>5
<1> HIDE DEF Upto
<1>3. 0 \in T /\ \A m \in Nat : m \in T => m + 1 \in T
  BY <1>1, <1>2
<1>4. n \in T
  <2> HIDE DEF T
  <2> QED  BY <1>3, NatSetInduction
<1>5. Upto(n)
  BY <1>4
<1> QED  BY <1>5 DEF Upto

\* The same, up to a bound.
LEMMA UptoInduction ==
  ASSUME NEW n \in Nat, NEW T, 0 \in T, \A i \in 1..n : i - 1 \in T => i \in T
  PROVE  \A i \in 0..n : i \in T
<1> DEFINE U == {m \in Nat : m <= n => m \in T}
<1>1. 0 \in U
  OBVIOUS
<1>2. \A m \in Nat : m \in U => m + 1 \in U
  OBVIOUS
<1>3. \A m \in Nat : m \in U
  <2> HIDE DEF U
  <2> QED  BY <1>1, <1>2, NatSetInduction
<1> QED  BY <1>3

-----------------------------------------------------------------------------

\* What Csv has kept of the first parts of a value.
Kept(v) ==
  CHOOSE kept : kept = [i \in 0..Len(v) |->
    IF i = 0 THEN <<>>
    ELSE IF v[i] = Empty THEN kept[i - 1] ELSE Append(kept[i - 1], v[i])]

\* Csv is the last of what is kept.
LEMMA CsvKept ==
  ASSUME NEW v
  PROVE  Csv(v) = Kept(v)[Len(v)]
  BY DEF Csv, Kept

\* The function Csv chooses exists, and does what its definition says.
LEMMA KeptDef ==
  ASSUME NEW S, NEW v \in Seq(S)
  PROVE  /\ Kept(v) \in [0..Len(v) -> Seq(S \ {Empty})]
         /\ Kept(v)[0] = <<>>
         /\ \A i \in 1..Len(v) :
              Kept(v)[i] = IF v[i] = Empty THEN Kept(v)[i - 1] ELSE Append(Kept(v)[i - 1], v[i])
<1> DEFINE n == Len(v)
           W == Seq(S \ {Empty})
           Body(f) == [i \in 0..n |->
             IF i = 0 THEN <<>>
             ELSE IF v[i] = Empty THEN f[i - 1] ELSE Append(f[i - 1], v[i])]
           G == [i \in 1..n |-> [w \in W |-> IF v[i] = Empty THEN w ELSE Append(w, v[i])]]
<1>1. n \in Nat /\ <<>> \in W
  OBVIOUS
<1>2. G \in [1..n -> [W -> W]]
  <2>1. ASSUME NEW i \in 1..n, NEW w \in W, v[i] # Empty
        PROVE  Append(w, v[i]) \in W
    <3>1. v[i] \in S \ {Empty}
      BY <2>1
    <3> HIDE DEF n
    <3> QED  BY <3>1
  <2> HIDE DEF W, n
  <2> QED  BY <2>1
<1>3. PICK f \in [0..n -> W] : f[0] = <<>> /\ \A i \in 1..n : f[i] = G[i][f[i - 1]]
  <2> DEFINE x == <<>>
  <2>1. x \in W
    BY <1>1
  <2> HIDE DEF G, W, n, x
  <2>2. \E f \in [0..n -> W] : Unfolds(f, n, x, G)
    BY <1>1, <1>2, <2>1, Recursion
  <2> QED  BY <2>2 DEF x, Unfolds
<1>4. f = Body(f)
  <2>1. ASSUME NEW i \in 0..n
        PROVE  f[i] = Body(f)[i]
    <3>1. CASE i = 0
      BY <1>1, <1>3, <3>1
    <3>2. CASE i \in 1..n
      <4>1. f[i - 1] \in W /\ i # 0
        <5> HIDE DEF W, n, G
        <5> QED  BY <1>1, <1>3, <3>2
      <4>2. f[i] = IF v[i] = Empty THEN f[i - 1] ELSE Append(f[i - 1], v[i])
        <5> HIDE DEF W, n
        <5> QED  BY <1>3, <3>2, <4>1
      <4> QED  BY <4>1, <4>2
    <3> QED  BY <1>1, <3>1, <3>2
  <2>2. DOMAIN f = 0..n
    BY <1>3
  <2> QED  BY <1>3, <2>1, <2>2
<1>5. Kept(v) = CHOOSE kept : kept = Body(kept)
  BY DEF Kept
<1>6. Kept(v) = Body(Kept(v))
  <2> HIDE DEF Body
  <2> QED  BY <1>4, <1>5
<1> DEFINE k == Kept(v)
<1>7. /\ k[0] = <<>>
      /\ \A i \in 1..n : k[i] = IF v[i] = Empty THEN k[i - 1] ELSE Append(k[i - 1], v[i])
      /\ DOMAIN k = 0..n
  <2> DEFINE B == Body(k)
  <2>1. B = k
    BY <1>6
  <2>2. /\ B[0] = <<>>
        /\ \A i \in 1..n : B[i] = IF v[i] = Empty THEN k[i - 1] ELSE Append(k[i - 1], v[i])
        /\ DOMAIN B = 0..n
    <3> HIDE DEF k
    <3> QED  BY <1>1
  <2> HIDE DEF B, k
  <2> QED  BY <2>1, <2>2
<1>8. k = [i \in 0..n |-> k[i]]
  <2> HIDE DEF n
  <2> QED  BY <1>6
<1> HIDE DEF k
<1>9. \A i \in 0..n : k[i] \in W
  <2> DEFINE T == {i \in 0..n : k[i] \in W}
  <2>1. 0 \in T
    <3> HIDE DEF W, n
    <3> QED  BY <1>1, <1>7
  <2>2. ASSUME NEW i \in 1..n, i - 1 \in T
        PROVE  i \in T
    <3>1. v[i] \in S /\ k[i - 1] \in W
      BY <2>2
    <3>2. v[i] # Empty => Append(k[i - 1], v[i]) \in W
      BY <3>1
    <3>3. k[i] \in W
      <4> HIDE DEF W, n
      <4> QED  BY <1>7, <2>2, <3>1, <3>2
    <3>4. i \in 0..n
      <4> HIDE DEF W, n
      <4> QED  BY <1>1
    <3> QED  BY <3>3, <3>4
  <2>3. \A i \in 0..n : i \in T
    <3> HIDE DEF T, n
    <3> QED  BY <1>1, <2>1, <2>2, UptoInduction
  <2> QED  BY <2>3
<1>10. k \in [0..n -> W]
  <2> HIDE DEF W, n
  <2> QED  BY <1>8, <1>9
<1> QED  BY <1>7, <1>10 DEF k

\* What is left of a value has no empty part.
LEMMA CsvType ==
  ASSUME NEW S, NEW v \in Seq(S)
  PROVE  Csv(v) \in Seq(S \ {Empty})
  BY KeptDef, CsvKept

\* A part more changes nothing of what was kept of the parts before it.
LEMMA CsvAppend ==
  ASSUME NEW S, NEW v \in Seq(S), NEW x \in S
  PROVE  Csv(Append(v, x)) = IF x = Empty THEN Csv(v) ELSE Append(Csv(v), x)
<1> DEFINE u == Append(v, x)
           n == Len(v)
<1>1. /\ n \in Nat /\ u \in Seq(S) /\ Len(u) = n + 1
      /\ u[n + 1] = x /\ \A i \in 1..n : u[i] = v[i]
  OBVIOUS
<1>2. /\ Kept(v)[0] = <<>> /\ Kept(u)[0] = <<>>
      /\ \A i \in 1..n :
           Kept(v)[i] = IF v[i] = Empty THEN Kept(v)[i - 1] ELSE Append(Kept(v)[i - 1], v[i])
      /\ \A i \in 1..(n + 1) :
           Kept(u)[i] = IF u[i] = Empty THEN Kept(u)[i - 1] ELSE Append(Kept(u)[i - 1], u[i])
  <2> HIDE DEF u
  <2> QED  BY <1>1, KeptDef
<1> HIDE DEF u, n
<1>3. \A i \in 0..n : Kept(u)[i] = Kept(v)[i]
  <2> DEFINE T == {i \in 0..n : Kept(u)[i] = Kept(v)[i]}
  <2>1. 0 \in T
    BY <1>1, <1>2
  <2>2. ASSUME NEW i \in 1..n, i - 1 \in T
        PROVE  i \in T
    <3>1. i \in 1..(n + 1) /\ i \in 0..n
      BY <1>1
    <3> QED  BY <1>1, <1>2, <2>2, <3>1
  <2>3. \A i \in 0..n : i \in T
    <3> HIDE DEF T
    <3> QED  BY <1>1, <2>1, <2>2, UptoInduction
  <2> QED  BY <2>3
<1>4. Kept(u)[n + 1] = IF x = Empty THEN Kept(v)[n] ELSE Append(Kept(v)[n], x)
  <2>1. n + 1 \in 1..(n + 1) /\ (n + 1) - 1 = n /\ n \in 0..n
    BY <1>1
  <2> QED  BY <1>1, <1>2, <1>3, <2>1
<1>5. Csv(u) = Kept(u)[n + 1] /\ Csv(v) = Kept(v)[n]
  BY <1>1, CsvKept DEF n
<1> QED  BY <1>4, <1>5 DEF u

\* Nothing is left of nothing.
LEMMA CsvOfNothing == Csv(<<>>) = <<>>
<1>1. <<>> \in Seq({}) /\ Len(<<>>) = 0
  OBVIOUS
<1>2. Kept(<<>>)[0] = <<>>
  BY <1>1, KeptDef
<1> QED  BY <1>1, <1>2, CsvKept

\* Joining and appending under names the provers can instantiate a fact by.
Joint(v, w) == v \o w
Pushed(v, x) == Append(v, x)

\* An element appended to two sequences joined is appended to the second.
LEMMA JointPushed ==
  ASSUME NEW S, NEW v \in Seq(S), NEW w \in Seq(S), NEW x \in S
  PROVE  Pushed(Joint(v, w), x) = Joint(v, Pushed(w, x))
  BY DEF Joint, Pushed

\* A sequence with one more element.
LEMMA Appended ==
  ASSUME NEW S, NEW v \in Seq(S), NEW x \in S
  PROVE  /\ Len(v) \in Nat /\ Append(v, x) \in Seq(S) /\ Append(v, x) # <<>>
         /\ Len(Append(v, x)) = Len(v) + 1 /\ Append(v, x)[Len(v) + 1] = x
         /\ \A i \in 1..Len(v) : Append(v, x)[i] = v[i]
  BY AppendProperties, LenProperties

\* Dropping the empty parts of two values joined is joining what is left of each.
LEMMA CsvConcat ==
  ASSUME NEW S, NEW v \in Seq(S), NEW w \in Seq(S)
  PROVE  Csv(v \o w) = Csv(v) \o Csv(w)
<1> DEFINE T == {m \in Nat : \A z \in Seq(S) : Len(z) = m => Csv(v \o z) = Csv(v) \o Csv(z)}
<1>0. Csv(v) \in Seq(S)
  <2>1. Csv(v) \in Seq(S \ {Empty})
    BY CsvType
  <2> QED  BY <2>1
<1>1. 0 \in T
  <2> SUFFICES ASSUME NEW z \in Seq(S), Len(z) = 0
               PROVE  Csv(v \o z) = Csv(v) \o Csv(z)
    OBVIOUS
  <2>1. z = <<>> /\ v \o z = v
    OBVIOUS
  <2>2. Csv(v) \o <<>> = Csv(v)
    BY <1>0
  <2> QED  BY <2>1, <2>2, CsvOfNothing
<1>2. ASSUME NEW m \in Nat, m \in T
      PROVE  m + 1 \in T
  <2> SUFFICES ASSUME NEW z \in Seq(S), Len(z) = m + 1
               PROVE  Csv(v \o z) = Csv(v) \o Csv(z)
    OBVIOUS
  <2>1. PICK y \in Seq(S), x \in S : z = Append(y, x)
    <3>1. z # <<>>
      OBVIOUS
    <3> QED  BY <3>1, SequenceEmptyOrAppend
  <2>2. Len(y) = m
    BY <2>1
  <2>3. Csv(v \o y) = Csv(v) \o Csv(y)
    BY <1>2, <2>2
  <2>4. v \o z = Append(v \o y, x) /\ v \o y \in Seq(S)
    BY <2>1
  <2>5. Csv(y) \in Seq(S)
    <3>1. Csv(y) \in Seq(S \ {Empty})
      BY CsvType
    <3> QED  BY <3>1
  <2>6. Csv(v \o z) = IF x = Empty THEN Csv(v \o y) ELSE Append(Csv(v \o y), x)
    BY <2>4, CsvAppend
  <2>7. Csv(z) = IF x = Empty THEN Csv(y) ELSE Append(Csv(y), x)
    BY <2>1, CsvAppend
  <2>8. Append(Csv(v) \o Csv(y), x) = Csv(v) \o Append(Csv(y), x)
    <3>1. Pushed(Joint(Csv(v), Csv(y)), x) = Joint(Csv(v), Pushed(Csv(y), x))
      BY <1>0, <2>5, JointPushed
    <3> QED  BY <3>1 DEF Joint, Pushed
  <2> QED  BY <2>3, <2>6, <2>7, <2>8
<1>3. Len(w) \in T
  <2>1. Len(w) \in Nat
    OBVIOUS
  <2> HIDE DEF T
  <2> QED  BY <1>1, <1>2, <2>1, NatSetInduction
<1> QED  BY <1>3

-----------------------------------------------------------------------------
\* What FlattenSeq has joined of the first sequences.
Joined(s) ==
  CHOOSE flatten : flatten = [i \in 1..Len(s) |->
    IF i = 1 THEN s[i] ELSE flatten[i - 1] \o s[i]]

\* FlattenSeq is the last of what is joined.
LEMMA FlattenJoined ==
  ASSUME NEW s
  PROVE  FlattenSeq(s) = IF Len(s) = 0 THEN s ELSE Joined(s)[Len(s)]
  BY DEF FlattenSeq, Joined

\* The function FlattenSeq chooses exists, and does what its definition says.
LEMMA JoinedDef ==
  ASSUME NEW S, NEW s \in Seq(Seq(S)), s # <<>>
  PROVE  /\ Joined(s)[1] = s[1]
         /\ \A i \in 2..Len(s) : Joined(s)[i] = Joined(s)[i - 1] \o s[i]
         /\ \A i \in 1..Len(s) : Joined(s)[i] \in Seq(S)
<1> DEFINE n == Len(s)
           W == Seq(S)
           x == <<>>
           Body(f) == [i \in 1..n |-> IF i = 1 THEN s[i] ELSE f[i - 1] \o s[i]]
           G == [i \in 1..n |-> [w \in W |-> w \o s[i]]]
<1>1. n \in Nat /\ n >= 1 /\ x \in W /\ \A i \in 1..n : s[i] \in W
  OBVIOUS
<1>2. G \in [1..n -> [W -> W]]
  <2>1. ASSUME NEW i \in 1..n, NEW w \in W
        PROVE  w \o s[i] \in W
    <3>1. s[i] \in W
      BY <1>1
    <3> HIDE DEF n
    <3> QED  BY <3>1
  <2> HIDE DEF W, n
  <2> QED  BY <2>1
<1>3. PICK f \in [0..n -> W] : f[0] = <<>> /\ \A i \in 1..n : f[i] = G[i][f[i - 1]]
  <2> HIDE DEF G, W, n, x
  <2>2. \E f \in [0..n -> W] : Unfolds(f, n, x, G)
    BY <1>1, <1>2, Recursion
  <2> QED  BY <2>2 DEF x, Unfolds
<1> DEFINE g == [i \in 1..n |-> f[i]]
<1>4. g = Body(g)
  <2>1. ASSUME NEW i \in 1..n
        PROVE  g[i] = Body(g)[i]
    <3>1. f[i] = f[i - 1] \o s[i]
      <4>1. f[i - 1] \in W
        <5> HIDE DEF W, n, G
        <5> QED  BY <1>1, <1>3
      <4> HIDE DEF W, n
      <4> QED  BY <1>3, <4>1
    <3>2. CASE i = 1
      <4>1. f[1] = <<>> \o s[1]
        <5>1. i - 1 = 0 /\ f[i] = f[i - 1] \o s[i]
          BY <3>1, <3>2
        <5>2. f[0] = <<>>
          BY <1>3
        <5> QED  BY <3>2, <5>1, <5>2
      <4>2. <<>> \o s[1] = s[1]
        BY <1>1
      <4> HIDE DEF W, n, G
      <4> QED  BY <3>2, <4>1, <4>2
    <3>3. CASE i # 1
      <4>1. i - 1 \in 1..n
        <5> HIDE DEF n
        <5> QED  BY <1>1, <3>3
      <4> HIDE DEF W, n, G
      <4> QED  BY <3>1, <3>3, <4>1
    <3> QED  BY <3>2, <3>3
  <2> HIDE DEF n, G, W
  <2> QED  BY <2>1
<1>5. Joined(s) = CHOOSE flatten : flatten = Body(flatten)
  BY DEF Joined
<1>6. Joined(s) = Body(Joined(s))
  <2> HIDE DEF Body, g
  <2> QED  BY <1>4, <1>5
<1> DEFINE k == Joined(s)
<1>7. \A i \in 1..n : k[i] = IF i = 1 THEN s[i] ELSE k[i - 1] \o s[i]
  <2> DEFINE B == Body(k)
  <2>1. B = k
    BY <1>6
  <2>2. \A i \in 1..n : B[i] = IF i = 1 THEN s[i] ELSE k[i - 1] \o s[i]
    <3> HIDE DEF k, n
    <3> QED  BY <1>1
  <2> HIDE DEF B, k
  <2> QED  BY <2>1, <2>2
<1> HIDE DEF k
<1>8. \A i \in 1..n : k[i] \in W
  <2> DEFINE T == {i \in 0..n : i = 0 \/ k[i] \in W}
  <2>1. 0 \in T
    <3> HIDE DEF W, n
    <3> QED  BY <1>1
  <2>2. ASSUME NEW i \in 1..n, i - 1 \in T
        PROVE  i \in T
    <3>1. s[i] \in W
      BY <1>1
    <3>2. i # 1 => k[i - 1] \o s[i] \in W
      BY <2>2, <3>1
    <3>3. k[i] \in W /\ i \in 0..n
      <4> HIDE DEF W, n
      <4> QED  BY <1>1, <1>7, <3>1, <3>2
    <3> QED  BY <3>3
  <2>3. \A i \in 0..n : i \in T
    <3> HIDE DEF T, n
    <3> QED  BY <1>1, <2>1, <2>2, UptoInduction
  <2> HIDE DEF W, n
  <2> QED  BY <1>1, <2>3
<1>9. k[1] = s[1] /\ \A i \in 2..n : k[i] = k[i - 1] \o s[i]
  <2>1. 1 \in 1..n /\ \A i \in 2..n : i \in 1..n /\ i # 1
    <3> HIDE DEF n
    <3> QED  BY <1>1
  <2> HIDE DEF W, n
  <2> QED  BY <1>7, <2>1
<1> QED  BY <1>8, <1>9 DEF k

\* One sequence more is joined to the others.
LEMMA FlattenAppend ==
  ASSUME NEW S, NEW s \in Seq(Seq(S)), NEW w \in Seq(S)
  PROVE  FlattenSeq(Append(s, w)) = FlattenSeq(s) \o w /\ FlattenSeq(s) \in Seq(S)
<1> DEFINE u == Append(s, w)
           n == Len(s)
<1>1. /\ n \in Nat /\ u \in Seq(Seq(S)) /\ Len(u) = n + 1
      /\ u[n + 1] = w /\ u # <<>> /\ \A i \in 1..n : u[i] = s[i]
  BY Appended
<1>2. CASE s = <<>>
  <2>1. n = 0 /\ FlattenSeq(s) = <<>> /\ <<>> \o w = w
    BY <1>2, FlattenJoined
  <2>2. FlattenSeq(u) = Joined(u)[1]
    <3>1. Len(u) = 1
      BY <1>1, <2>1
    <3>2. FlattenSeq(u) = IF Len(u) = 0 THEN u ELSE Joined(u)[Len(u)]
      BY FlattenJoined
    <3> HIDE DEF u
    <3> QED  BY <3>1, <3>2
  <2>3. u # <<>> /\ u[1] = w
    BY <1>1, <2>1
  <2>4. Joined(u)[1] = w
    <3> HIDE DEF u
    <3> QED  BY <1>1, <2>3, JoinedDef
  <2>5. <<>> \in Seq(S)
    OBVIOUS
  <2> QED  BY <2>1, <2>2, <2>4, <2>5 DEF u
<1>3. CASE s # <<>>
  <2>0. n >= 1 /\ u # <<>>
    BY <1>1, <1>3
  <2>1. /\ Joined(s)[1] = s[1]
        /\ \A i \in 2..n : Joined(s)[i] = Joined(s)[i - 1] \o s[i]
        /\ \A i \in 1..n : Joined(s)[i] \in Seq(S)
    BY <1>3, JoinedDef
  <2>2. /\ Joined(u)[1] = u[1]
        /\ \A i \in 2..(n + 1) : Joined(u)[i] = Joined(u)[i - 1] \o u[i]
    <3> HIDE DEF u
    <3> QED  BY <1>1, <2>0, JoinedDef
  <2> HIDE DEF u, n
  <2>3. \A i \in 1..n : Joined(u)[i] = Joined(s)[i]
    <3> DEFINE T == {i \in 0..n : i = 0 \/ Joined(u)[i] = Joined(s)[i]}
    <3>1. 0 \in T
      BY <1>1
    <3>2. ASSUME NEW i \in 1..n, i - 1 \in T
          PROVE  i \in T
      <4>1. CASE i = 1
        BY <1>1, <2>1, <2>2, <4>1
      <4>2. CASE i # 1
        <5>1. i \in 2..n /\ i \in 2..(n + 1) /\ i - 1 # 0 /\ i \in 0..n
          BY <1>1, <4>2
        <5> QED  BY <1>1, <2>1, <2>2, <3>2, <5>1
      <4> QED  BY <4>1, <4>2
    <3>3. \A i \in 0..n : i \in T
      <4> HIDE DEF T
      <4> QED  BY <1>1, <3>1, <3>2, UptoInduction
    <3> QED  BY <1>1, <3>3
  <2>4. Joined(u)[n + 1] = Joined(s)[n] \o w
    <3>1. n + 1 \in 2..(n + 1) /\ (n + 1) - 1 = n /\ n \in 1..n
      BY <1>1, <2>0
    <3> QED  BY <1>1, <2>2, <2>3, <3>1
  <2>5. FlattenSeq(u) = Joined(u)[n + 1] /\ FlattenSeq(s) = Joined(s)[n]
    BY <1>1, <2>0, FlattenJoined DEF n
  <2>6. Joined(s)[n] \in Seq(S)
    BY <1>1, <2>0, <2>1
  <2> QED  BY <2>4, <2>5, <2>6 DEF u
<1> QED  BY <1>2, <1>3

-----------------------------------------------------------------------------
(* Which section a line is in, as one more line is read.                   *)

NoHeader(t, name) == \A i \in 1..Len(t) : ~IsHeader(t[i], name)

TwoHeaders(t, name) ==
  \E i, j \in 1..Len(t) : i # j /\ IsHeader(t[i], name) /\ IsHeader(t[j], name)

\* Every line is in order.
LinesFine(t) ==
  \A i \in 1..Len(t) :
    /\ t[i].kind # "malformed"
    /\ t[i].kind = "header" => t[i].name \in {"interface", "peer"}
    /\ t[i].kind = "setting" => \E j \in 1..i : t[j].kind = "header"

\* A line appended leaves the others where they are.
LEMMA AppendedLine ==
  ASSUME NEW t \in Seq(Lines), NEW l \in Lines
  PROVE  /\ Append(t, l) \in Seq(Lines)
         /\ Len(Append(t, l)) = Len(t) + 1
         /\ Len(t) \in Nat
         /\ \A i \in 1..Len(t) : Append(t, l)[i] = t[i]
         /\ Append(t, l)[Len(t) + 1] = l
  OBVIOUS

\* A line that is not a header of that name neither adds nor hides one.
LEMMA OtherLine ==
  ASSUME NEW t \in Seq(Lines), NEW l \in Lines, NEW name, ~IsHeader(l, name)
  PROVE  /\ NoHeader(t, name) => NoHeader(Append(t, l), name)
         /\ OneHeader(t, name) => OneHeader(Append(t, l), name)
  <1>1. NoHeader(t, name) => NoHeader(Append(t, l), name)
    BY AppendedLine DEF NoHeader
  <1>2. ASSUME OneHeader(t, name)
        PROVE  OneHeader(Append(t, l), name)
    <2>1. PICK i \in 1..Len(t) : \A j \in 1..Len(t) : IsHeader(t[j], name) <=> j = i
      BY <1>2 DEF OneHeader
    <2>2. \A j \in 1..Len(Append(t, l)) : IsHeader(Append(t, l)[j], name) <=> j = i
      BY <2>1, AppendedLine
    <2>3. i \in 1..Len(Append(t, l))
      BY AppendedLine
    <2> QED
      BY <2>2, <2>3 DEF OneHeader
  <1> QED
    BY <1>1, <1>2

\* The first header of a name is the only one.
LEMMA FirstHeader ==
  ASSUME NEW t \in Seq(Lines), NEW l \in Lines, NEW name,
         IsHeader(l, name), NoHeader(t, name)
  PROVE  OneHeader(Append(t, l), name)
  <1>1. \A j \in 1..Len(Append(t, l)) :
          IsHeader(Append(t, l)[j], name) <=> j = Len(t) + 1
    BY AppendedLine DEF NoHeader
  <1>2. Len(t) + 1 \in 1..Len(Append(t, l))
    BY AppendedLine
  <1> QED
    BY <1>1, <1>2 DEF OneHeader

\* A line is in order on its own, and where it stands among the others.
LineFine(t, l) ==
  /\ l.kind # "malformed"
  /\ l.kind = "header" => l.name \in {"interface", "peer"}
  /\ l.kind = "setting" => \E j \in 1..Len(t) : t[j].kind = "header"

LEMMA FineLine ==
  ASSUME NEW t \in Seq(Lines), NEW l \in Lines, LinesFine(t), LineFine(t, l)
  PROVE  LinesFine(Append(t, l))
  <1> DEFINE u == Append(t, l)
  <1> SUFFICES ASSUME NEW i \in 1..Len(u)
               PROVE  /\ u[i].kind # "malformed"
                      /\ u[i].kind = "header" => u[i].name \in {"interface", "peer"}
                      /\ u[i].kind = "setting" => \E j \in 1..i : u[j].kind = "header"
    BY DEF LinesFine
  <1>1. CASE i \in 1..Len(t)
    <2>1. u[i] = t[i] /\ \A j \in 1..i : u[j] = t[j]
      BY <1>1, AppendedLine
    <2> QED
      BY <1>1, <2>1 DEF LinesFine
  <1>2. CASE i = Len(t) + 1
    <2>1. u[i] = l /\ \A j \in 1..Len(t) : u[j] = t[j] /\ j \in 1..i
      BY <1>2, AppendedLine
    <2> QED
      BY <2>1 DEF LineFine
  <1> QED
    BY <1>1, <1>2, AppendedLine

\* A header of a name there is already makes two, and two stay two.
LEMMA SecondHeader ==
  ASSUME NEW t \in Seq(Lines), NEW l \in Lines, NEW name
  PROVE  /\ IsHeader(l, name) /\ (\E i \in 1..Len(t) : IsHeader(t[i], name)) =>
              TwoHeaders(Append(t, l), name)
         /\ TwoHeaders(t, name) => TwoHeaders(Append(t, l), name)
<1> DEFINE u == Append(t, l)
           n == Len(t)
<1>1. /\ n \in Nat /\ Len(u) = n + 1 /\ u[n + 1] = l
      /\ \A i \in 1..n : u[i] = t[i] /\ i \in 1..(n + 1) /\ i # n + 1
      /\ n + 1 \in 1..(n + 1)
  BY AppendedLine
<1> HIDE DEF u, n
<1>2. IsHeader(l, name) /\ (\E i \in 1..n : IsHeader(t[i], name)) => TwoHeaders(u, name)
  BY <1>1 DEF TwoHeaders
<1>3. TwoHeaders(t, name) => TwoHeaders(u, name)
  BY <1>1 DEF TwoHeaders, n
<1> QED  BY <1>2, <1>3 DEF u, n

\* Two headers of a name, or none, are not one.
LEMMA TwoNotOne ==
  ASSUME NEW t, NEW name
  PROVE  /\ TwoHeaders(t, name) => ~OneHeader(t, name)
         /\ NoHeader(t, name) => ~OneHeader(t, name)
  BY DEF TwoHeaders, OneHeader, NoHeader

\* Of the lines of a text, the last one of some kind exists.
LEMMA HighestExists ==
  ASSUME NEW n \in Nat, NEW A \in SUBSET (1..n), A # {}
  PROVE  \E j \in A : \A k \in A : k <= j
<1> DEFINE HasHighest(B) == \E j \in B : \A k \in B : k <= j
           T == {m \in Nat : \A B \in SUBSET (1..m) : B # {} => HasHighest(B)}
<1>1. 0 \in T
  <2>1. 1..0 = {}
    OBVIOUS
  <2>2. \A B \in SUBSET (1..0) : B = {}
    BY <2>1
  <2> HIDE DEF HasHighest
  <2> QED  BY <2>2
<1>2. ASSUME NEW m \in Nat, m \in T
      PROVE  m + 1 \in T
  <2> SUFFICES ASSUME NEW B \in SUBSET (1..(m + 1)), B # {}
               PROVE  HasHighest(B)
    OBVIOUS
  <2>1. CASE m + 1 \in B
    <3>1. \A k \in B : k <= m + 1
      OBVIOUS
    <3> QED  BY <2>1, <3>1
  <2>2. CASE m + 1 \notin B
    <3>1. B \in SUBSET (1..m)
      BY <2>2
    <3> HIDE DEF HasHighest
    <3> QED  BY <1>2, <3>1
  <2> QED  BY <2>1, <2>2
<1>3. n \in T
  <2> HIDE DEF T
  <2> QED  BY <1>1, <1>2, NatSetInduction
<1> HIDE DEF HasHighest
<1>4. HasHighest(A)
  BY <1>3
<1> QED  BY <1>4 DEF HasHighest

Above(t, i) == {j \in 1..i : t[j].kind = "header"}
Highest(A) == CHOOSE j \in A : \A k \in A : k <= j

\* The line CHOOSE takes is the last one.
LEMMA HighestIn ==
  ASSUME NEW n \in Nat, NEW A \in SUBSET (1..n), A # {}
  PROVE  Highest(A) \in A /\ \A k \in A : k <= Highest(A)
  BY HighestExists DEF Highest

\* SectionAt in those words.
LEMMA SectionAbove ==
  ASSUME NEW t, NEW i
  PROVE  SectionAt(t, i) = IF Above(t, i) = {} THEN "none" ELSE t[Highest(Above(t, i))].name
  BY DEF SectionAt, Above, Highest

\* A line read moves no line before it to another section, and is itself in its own
\* section, if it is a header, or else in that of the line before it.
LEMMA SectionRead ==
  ASSUME NEW t \in Seq(Lines), NEW l \in Lines
  PROVE  /\ \A i \in 0..Len(t) : SectionAt(Append(t, l), i) = SectionAt(t, i)
         /\ SectionAt(Append(t, l), Len(t) + 1) =
              IF l.kind = "header" THEN l.name ELSE SectionAt(t, Len(t))
<1> DEFINE u == Append(t, l)
           n == Len(t)
<1>1. /\ n \in Nat /\ u[n + 1] = l
      /\ \A i \in 1..n : u[i] = t[i]
  BY AppendedLine
<1> HIDE DEF u, n
<1>2. ASSUME NEW i \in 0..n
      PROVE  Above(u, i) = Above(t, i) /\ SectionAt(u, i) = SectionAt(t, i)
  <2>1. i \in Nat /\ \A j \in 1..i : j \in 1..n /\ u[j] = t[j]
    BY <1>1
  <2>2. Above(u, i) = Above(t, i) /\ Above(t, i) \in SUBSET (1..i)
    BY <2>1 DEF Above
  <2>3. CASE Above(t, i) = {}
    BY <2>2, <2>3, SectionAbove
  <2>4. CASE Above(t, i) # {}
    <3>1. Highest(Above(t, i)) \in 1..i
      BY <2>1, <2>2, <2>4, HighestIn
    <3>2. u[Highest(Above(t, i))] = t[Highest(Above(t, i))]
      BY <2>1, <3>1
    <3> QED  BY <2>2, <3>2, SectionAbove
  <2> QED  BY <2>2, <2>3, <2>4
<1>3. CASE l.kind = "header"
  <2> DEFINE A == Above(u, n + 1)
  <2>1. n + 1 \in A /\ A \in SUBSET (1..(n + 1)) /\ n + 1 \in Nat
    BY <1>1, <1>3 DEF Above
  <2>2. Highest(A) \in A /\ \A k \in A : k <= Highest(A)
    <3> HIDE DEF A
    <3> QED  BY <2>1, HighestIn
  <2>3. Highest(A) = n + 1
    <3> HIDE DEF A
    <3>1. Highest(A) \in 1..(n + 1) /\ n + 1 <= Highest(A)
      BY <2>1, <2>2
    <3> QED  BY <1>1, <3>1
  <2>4. A # {}
    BY <2>1
  <2>5. SectionAt(u, n + 1) = l.name
    <3>1. SectionAt(u, n + 1) = IF A = {} THEN "none" ELSE u[Highest(A)].name
      BY SectionAbove
    <3> HIDE DEF A
    <3> QED  BY <1>1, <2>3, <2>4, <3>1
  <2> QED  BY <1>2, <1>3, <2>5 DEF u, n
<1>4. CASE l.kind # "header"
  <2>1. n \in 0..n /\ \A j \in 1..(n + 1) : j \in 1..n \/ j = n + 1
    BY <1>1
  <2>2. Above(u, n + 1) = Above(u, n)
    BY <1>1, <1>4, <2>1 DEF Above
  <2>3. SectionAt(u, n + 1) = SectionAt(u, n)
    BY <2>2, SectionAbove
  <2>4. SectionAt(u, n + 1) = SectionAt(t, n)
    BY <1>2, <2>1, <2>3
  <2> QED  BY <1>2, <1>4, <2>4 DEF u, n
<1> QED  BY <1>3, <1>4

\* A line in a section that has a name has that header above it.
LEMMA SectionHasHeader ==
  ASSUME NEW t \in Seq(Lines), NEW i \in 0..Len(t)
  PROVE  \/ Above(t, i) = {} /\ SectionAt(t, i) = "none"
         \/ \E j \in 1..i : t[j].kind = "header" /\ t[j].name = SectionAt(t, i)
<1>1. CASE Above(t, i) = {}
  BY <1>1, SectionAbove
<1>2. CASE Above(t, i) # {}
  <2>1. i \in Nat /\ Above(t, i) \in SUBSET (1..i)
    BY DEF Above
  <2>2. Highest(Above(t, i)) \in Above(t, i)
    BY <1>2, <2>1, HighestIn
  <2>3. t[Highest(Above(t, i))].name = SectionAt(t, i)
    BY <1>2, SectionAbove
  <2> QED  BY <2>2, <2>3 DEF Above
<1> QED  BY <1>1, <1>2

\* The line read is given to the key it names in the section it is in, and to no other.
LEMMA GivenRead ==
  ASSUME NEW t \in Seq(Lines), NEW l \in Lines, NEW name, NEW key
  PROVE  /\ Given(Append(t, l), name, key) =
              IF l.kind = "setting" /\ l.key = key /\ SectionAt(t, Len(t)) = name
              THEN Given(t, name, key) \cup {Len(t) + 1}
              ELSE Given(t, name, key)
         /\ Given(t, name, key) \subseteq 1..Len(t)
<1> DEFINE u == Append(t, l)
           n == Len(t)
           G == Given(t, name, key)
           H == Given(u, name, key)
<1>1. /\ n \in Nat /\ Len(u) = n + 1 /\ u[n + 1] = l
      /\ \A i \in 1..n : u[i] = t[i]
      /\ \A i \in 1..(n + 1) : i \in 1..n \/ i = n + 1
      /\ \A i \in 1..n : i \in 1..(n + 1) /\ i # n + 1 /\ i \in 0..n
      /\ n + 1 \in 1..(n + 1)
  BY AppendedLine
<1>2. \A i \in 1..n : SectionAt(u, i) = SectionAt(t, i)
  BY <1>1, SectionRead
<1>3. l.kind = "setting" => SectionAt(u, n + 1) = SectionAt(t, n)
  BY SectionRead
<1> HIDE DEF u, n
<1>4. \A i \in 1..n : i \in H <=> i \in G
  BY <1>1, <1>2 DEF Given, n
<1>5. n + 1 \in H <=> l.kind = "setting" /\ l.key = key /\ SectionAt(t, n) = name
  BY <1>1, <1>3 DEF Given
<1>6. H \subseteq 1..(n + 1) /\ G \subseteq 1..n
  BY <1>1 DEF Given, n
<1> HIDE DEF G, H
<1>7. H = IF l.kind = "setting" /\ l.key = key /\ SectionAt(t, n) = name
          THEN G \cup {n + 1} ELSE G
  <2>1. \A i \in H : i \in G \/ i = n + 1
    BY <1>1, <1>4, <1>6
  <2>2. \A i \in G : i \in H
    BY <1>4, <1>6
  <2>3. n + 1 \notin G
    BY <1>1, <1>6
  <2>4. CASE n + 1 \in H
    <3>1. H = G \cup {n + 1}
      BY <2>1, <2>2, <2>4
    <3> QED  BY <1>5, <2>4, <3>1
  <2>5. CASE n + 1 \notin H
    <3>1. H = G
      BY <2>1, <2>2, <2>5
    <3> QED  BY <1>5, <2>5, <3>1
  <2> QED  BY <2>4, <2>5
<1> QED  BY <1>6, <1>7 DEF G, H, n, u

-----------------------------------------------------------------------------
(* What a section says, as one more line is read.                          *)

\* The kinds of keys a section has.
LEMMA KeysParts ==
  ASSUME NEW keys \in {InterfaceKeys, PeerKeys}
  PROVE  /\ keys.scalars \cap keys.lists = {} /\ keys.numbers \cap keys.lists = {}
         /\ keys.scalars \subseteq Known(keys) /\ keys.lists \subseteq Known(keys)
         /\ keys.numbers \subseteq Known(keys) /\ keys.numbers \subseteq Numbers
  BY DEF InterfaceKeys, PeerKeys, Known, Numbers

\* Values, and what is left of one.
LEMMA ValueFacts ==
  /\ <<>> \in Values /\ Unset \notin Values /\ Seq(Tokens) \subseteq Values
  /\ \A v \in Values : Csv(v) \in Seq(Tokens)
<1>1. (Tokens \cup {Empty}) \ {Empty} = Tokens
  BY WgConfAssumption
<1>2. \A v \in Values : Csv(v) \in Seq(Tokens)
  BY <1>1, CsvType DEF Values
<1> QED  BY <1>2, WgConfAssumption DEF Values

\* What a line adds to the value of key in section name.
Adds(t, l, name, key) ==
  IF l.kind = "setting" /\ l.key = key /\ SectionAt(t, Len(t)) = name THEN l.value ELSE <<>>

\* A list gathers the parts of the line read, if it names it, after those it had.
LEMMA GatheredRead ==
  ASSUME NEW t \in Seq(Lines), NEW l \in Lines, NEW name, NEW key
  PROVE  /\ Gathered(Append(t, l), name, key) =
              Gathered(t, name, key) \o Csv(Adds(t, l, name, key))
         /\ Gathered(t, name, key) \in Seq(Tokens)
<1> DEFINE u == Append(t, l)
           n == Len(t)
           x == Adds(t, l, name, key)
           parts == [i \in 1..n |-> IF i \in Given(t, name, key) THEN t[i].value ELSE <<>>]
           more == [i \in 1..(n + 1) |-> IF i \in Given(u, name, key) THEN u[i].value ELSE <<>>]
<1>1. /\ n \in Nat /\ Len(u) = n + 1 /\ u[n + 1] = l
      /\ \A i \in 1..n : u[i] = t[i]
      /\ \A i \in 1..n : t[i] \in Lines
  BY AppendedLine
<1>2. x \in Values
  BY WgConfAssumption, ValueFacts DEF Adds
<1>3. ASSUME NEW i \in 1..n
      PROVE  parts[i] \in Values
  <2>1. i \in Given(t, name, key) => t[i].kind = "setting" /\ t[i] \in Lines
    BY <1>1 DEF Given
  <2>2. i \in Given(t, name, key) => t[i].value \in Values
    BY <2>1, WgConfAssumption
  <2> HIDE DEF n
  <2> QED  BY <2>2, ValueFacts
<1>4. parts \in Seq(Values) /\ Len(parts) = n
  <2>1. parts \in [1..n -> Values]
    <3> HIDE DEF n
    <3> QED  BY <1>3
  <2> HIDE DEF n, parts
  <2>2. parts \in Seq(Values)
    BY <1>1, <2>1, SeqDef
  <2> QED  BY <1>1, <2>1, <2>2, LenProperties
<1>5. more = Append(parts, x)
  <2>1. ASSUME NEW i \in 1..n
        PROVE  more[i] = parts[i] /\ i \in 1..(n + 1)
    <3>1. i \in Given(u, name, key) <=> i \in Given(t, name, key)
      BY <1>1, GivenRead
    <3>2. i \in 1..(n + 1) /\ u[i] = t[i]
      BY <1>1
    <3> HIDE DEF n, u
    <3> QED  BY <3>1, <3>2
  <2>2. more[n + 1] = x
    <3>1. n + 1 \in Given(u, name, key) <=>
            l.kind = "setting" /\ l.key = key /\ SectionAt(t, n) = name
      BY <1>1, GivenRead
    <3>2. n + 1 \in 1..(n + 1)
      BY <1>1
    <3> HIDE DEF u
    <3> QED  BY <1>1, <3>1, <3>2 DEF Adds
  <2>3. Append(parts, x) \in Seq(Values) /\ Len(Append(parts, x)) = n + 1
        /\ Append(parts, x)[n + 1] = x /\ \A i \in 1..n : Append(parts, x)[i] = parts[i]
    <3> HIDE DEF parts, x, n
    <3> QED  BY <1>2, <1>4, Appended
  <2>4. more \in [1..(n + 1) -> Values]
    <3>1. \A i \in 1..(n + 1) : more[i] \in Values
      <4>1. \A i \in 1..(n + 1) : i \in 1..n \/ i = n + 1
        BY <1>1
      <4> HIDE DEF more, n, parts, x
      <4> QED  BY <1>2, <1>3, <2>1, <2>2, <4>1
    <3>2. more = [i \in 1..(n + 1) |-> more[i]]
      <4> HIDE DEF n, u
      <4> QED  OBVIOUS
    <3> HIDE DEF more, n
    <3> QED  BY <3>1, <3>2
  <2> HIDE DEF more, parts, x, n
  <2>5. more \in Seq(Values) /\ Len(more) = n + 1
    <3>1. n + 1 \in Nat
      BY <1>1
    <3>2. more \in Seq(Values)
      BY <2>4, <3>1, SeqDef
    <3> QED  BY <2>4, <3>1, <3>2, LenProperties
  <2>6. \A i \in 1..(n + 1) : more[i] = Append(parts, x)[i]
    <3>1. \A i \in 1..(n + 1) : i \in 1..n \/ i = n + 1
      BY <1>1
    <3> QED  BY <2>1, <2>2, <2>3, <3>1
  <2> QED  BY <2>3, <2>5, <2>6, SeqEqual
<1>6. Gathered(u, name, key) = Csv(FlattenSeq(more)) /\ Gathered(t, name, key) = Csv(FlattenSeq(parts))
  BY <1>1 DEF Gathered
<1> HIDE DEF more, parts, x, u, n
<1>7. FlattenSeq(more) = FlattenSeq(parts) \o x /\ FlattenSeq(parts) \in Values
  BY <1>2, <1>4, <1>5, FlattenAppend DEF Values
<1>8. Csv(FlattenSeq(parts) \o x) = Csv(FlattenSeq(parts)) \o Csv(x)
  BY <1>2, <1>7, CsvConcat DEF Values
<1>9. Csv(FlattenSeq(parts)) \in Seq(Tokens)
  BY <1>7, ValueFacts
<1> QED  BY <1>6, <1>7, <1>8, <1>9 DEF u, x

\* An empty text gives nothing.
LEMMA GatheredNothing ==
  ASSUME NEW name, NEW key
  PROVE  Gathered(<<>>, name, key) = <<>> /\ Given(<<>>, name, key) = {}
<1>1. [i \in 1..Len(<<>>) |-> IF i \in Given(<<>>, name, key) THEN <<>>[i].value ELSE <<>>] = <<>>
  OBVIOUS
<1>2. FlattenSeq(<<>>) = <<>>
  BY FlattenJoined
<1> QED  BY <1>1, <1>2, CsvOfNothing DEF Gathered, Given

-----------------------------------------------------------------------------
\* What a section holds: the parts of a list are all there is of it.
SectionType(keys) == {s \in Slots(keys) : \A k \in keys.lists : s[k] \in Seq(Tokens)}

\* The slots of a section are what the lines of that section say.
SaysAll(t, name, keys, slots) == \A k \in Known(keys) : Says(t, name, keys, k, slots[k])

\* No scalar is given twice and every number fits.
Fine(t, name, keys) ==
  /\ \A k \in keys.scalars : \A i, j \in Given(t, name, k) : i = j
  /\ \A k \in keys.numbers : \A i \in Given(t, name, k) : \E n \in Fits[k] : t[i].value = <<n>>

\* The line gives key, in the section called name, its value.
Gives(t, l, name, key) == l.kind = "setting" /\ l.key = key /\ SectionAt(t, Len(t)) = name

\* A line that does not give a key changes nothing of it.
LEMMA NotGiven ==
  ASSUME NEW t \in Seq(Lines), NEW l \in Lines, NEW name, NEW key, ~Gives(t, l, name, key)
  PROVE  /\ Given(Append(t, l), name, key) = Given(t, name, key)
         /\ Gathered(Append(t, l), name, key) = Gathered(t, name, key)
<1>1. Given(Append(t, l), name, key) = Given(t, name, key)
  BY GivenRead DEF Gives
<1>2. Gathered(Append(t, l), name, key) = Gathered(t, name, key) \o <<>>
      /\ Gathered(t, name, key) \in Seq(Tokens)
  <2>1. Adds(t, l, name, key) = <<>>
    BY DEF Adds, Gives
  <2> QED  BY <2>1, GatheredRead, CsvOfNothing
<1>3. \A v \in Seq(Tokens) : v \o <<>> = v
  OBVIOUS
<1> QED  BY <1>1, <1>2, <1>3

\* What the text says of a key stays true over a line that does not give it.
LEMMA SaysKept ==
  ASSUME NEW t \in Seq(Lines), NEW l \in Lines, NEW name, NEW keys, NEW key, NEW value,
         ~Gives(t, l, name, key), Says(t, name, keys, key, value)
  PROVE  Says(Append(t, l), name, keys, key, value)
<1> DEFINE u == Append(t, l)
           G == Given(t, name, key)
<1>1. /\ \A i \in 1..Len(t) : u[i] = t[i] /\ i \in 1..Len(u)
  BY AppendedLine
<1>2. Given(u, name, key) = G /\ Gathered(u, name, key) = Gathered(t, name, key)
  BY NotGiven
<1> HIDE DEF u, G
<1>3. CASE key \in keys.lists
  BY <1>2, <1>3 DEF Says, u
<1>4. CASE key \notin keys.lists /\ G = {}
  BY <1>2, <1>4 DEF Says, u, G
<1>5. CASE key \notin keys.lists /\ G # {}
  <2>1. PICK i \in 1..Len(t) : IsLastOf(i, G) /\ value = t[i].value
    BY <1>5 DEF Says, G
  <2>2. i \in 1..Len(u) /\ value = u[i].value
    BY <1>1, <2>1
  <2> QED  BY <1>2, <1>5, <2>1, <2>2 DEF Says, u
<1> QED  BY <1>3, <1>4, <1>5

\* A list takes the parts of the line, any other setting its value.
LEMMA SaysGiven ==
  ASSUME NEW t \in Seq(Lines), NEW l \in Lines, NEW name, NEW keys, NEW key, NEW value,
         Gives(t, l, name, key), Says(t, name, keys, key, value)
  PROVE  Says(Append(t, l), name, keys, key,
              IF key \in keys.lists THEN value \o Csv(l.value) ELSE l.value)
<1> DEFINE u == Append(t, l)
           n == Len(t)
           G == Given(t, name, key)
<1>1. /\ n \in Nat /\ Len(u) = n + 1 /\ u[n + 1] = l /\ n + 1 \in 1..Len(u)
      /\ \A i \in 1..n : i <= n + 1
  BY AppendedLine
<1>2. Given(u, name, key) = G \cup {n + 1} /\ G \subseteq 1..n
  BY GivenRead DEF Gives
<1>3. Gathered(u, name, key) = Gathered(t, name, key) \o Csv(l.value)
  BY GatheredRead DEF Adds, Gives
<1> HIDE DEF u, n, G
<1>4. CASE key \in keys.lists
  BY <1>3, <1>4 DEF Says, u
<1>5. CASE key \notin keys.lists
  <2>1. IsLastOf(n + 1, G \cup {n + 1})
    BY <1>1, <1>2 DEF IsLastOf
  <2> QED  BY <1>1, <1>2, <1>5, <2>1 DEF Says, u
<1> QED  BY <1>4, <1>5

\* A setting that is not a list is unset exactly when no line gives it.
LEMMA SaysUnset ==
  ASSUME NEW t \in Seq(Lines), NEW name, NEW keys, NEW key, NEW value,
         key \notin keys.lists, Says(t, name, keys, key, value)
  PROVE  value = Unset <=> Given(t, name, key) = {}
<1>1. CASE Given(t, name, key) = {}
  BY <1>1 DEF Says
<1>2. CASE Given(t, name, key) # {}
  <2>1. PICK i \in 1..Len(t) : i \in Given(t, name, key) /\ value = t[i].value
    BY <1>2 DEF Says, IsLastOf
  <2>2. t[i] \in Lines /\ t[i].kind = "setting"
    BY <2>1 DEF Given
  <2>3. value \in Values
    BY <2>1, <2>2, WgConfAssumption
  <2> QED  BY <1>2, <2>3, ValueFacts
<1> QED  BY <1>1, <1>2

\* A line that gives the section nothing leaves it fine, as does one that may be set.
LEMMA FineKept ==
  ASSUME NEW t \in Seq(Lines), NEW l \in Lines, NEW name,
         NEW keys \in {InterfaceKeys, PeerKeys}, Fine(t, name, keys),
         \A k \in keys.scalars : Gives(t, l, name, k) => Given(t, name, k) = {},
         \A k \in keys.numbers : Gives(t, l, name, k) => \E n \in Fits[k] : l.value = <<n>>
  PROVE  Fine(Append(t, l), name, keys)
<1> DEFINE u == Append(t, l)
           m == Len(t)
<1>1. /\ m \in Nat /\ u[m + 1] = l
      /\ \A i \in 1..m : u[i] = t[i]
  BY AppendedLine
<1>2. \A k : /\ Given(u, name, k) = IF Gives(t, l, name, k) THEN Given(t, name, k) \cup {m + 1}
                                    ELSE Given(t, name, k)
             /\ Given(t, name, k) \subseteq 1..m
  BY GivenRead DEF Gives
<1> HIDE DEF u, m
<1>3. ASSUME NEW k \in keys.scalars, NEW i \in Given(u, name, k), NEW j \in Given(u, name, k)
      PROVE  i = j
  <2>1. CASE Gives(t, l, name, k)
    BY <1>2, <1>3, <2>1
  <2>2. CASE ~Gives(t, l, name, k)
    BY <1>2, <1>3, <2>2 DEF Fine
  <2> QED  BY <2>1, <2>2
<1>4. ASSUME NEW k \in keys.numbers, NEW i \in Given(u, name, k)
      PROVE  \E n \in Fits[k] : u[i].value = <<n>>
  <2>1. CASE i \in Given(t, name, k)
    <3>1. u[i] = t[i]
      BY <1>1, <1>2, <2>1
    <3> QED  BY <1>4, <2>1, <3>1 DEF Fine
  <2>2. CASE i \notin Given(t, name, k)
    <3>1. Gives(t, l, name, k) /\ i = m + 1
      BY <1>2, <1>4, <2>2
    <3> QED  BY <1>1, <1>4, <3>1
  <2> QED  BY <2>1, <2>2
<1> QED  BY <1>3, <1>4 DEF Fine, u

\* A line set in its section: the section still says what the text does.
LEMMA SetKeeps ==
  ASSUME NEW t \in Seq(Lines), NEW l \in Lines, l.kind = "setting", NEW name,
         SectionAt(t, Len(t)) = name,
         NEW keys \in {InterfaceKeys, PeerKeys}, NEW slots \in SectionType(keys),
         SaysAll(t, name, keys, slots), Fine(t, name, keys), Settable(slots, keys, l)
  PROVE  /\ SaysAll(Append(t, l), name, keys, Set(slots, keys, l))
         /\ Fine(Append(t, l), name, keys)
<1>1. DOMAIN slots = Known(keys)
  BY DEF SectionType, Slots
<1>2. ASSUME NEW k \in Known(keys)
      PROVE  Says(Append(t, l), name, keys, k, Set(slots, keys, l)[k])
  <2>1. Says(t, name, keys, k, slots[k])
    BY <1>2 DEF SaysAll
  <2>2. CASE k = l.key
    <3>1. Gives(t, l, name, k)
      BY <2>2 DEF Gives
    <3>2. Set(slots, keys, l)[k] = IF k \in keys.lists THEN slots[k] \o Csv(l.value) ELSE l.value
      BY <1>1, <2>2 DEF Set
    <3> QED  BY <2>1, <3>1, <3>2, SaysGiven
  <2>3. CASE k # l.key
    <3>1. ~Gives(t, l, name, k)
      BY <2>3 DEF Gives
    <3>2. Set(slots, keys, l)[k] = slots[k]
      BY <1>1, <2>3 DEF Set
    <3> QED  BY <2>1, <3>1, <3>2, SaysKept
  <2> QED  BY <2>2, <2>3
<1>3. ASSUME NEW k \in keys.scalars, Gives(t, l, name, k)
      PROVE  Given(t, name, k) = {}
  <2>1. k \in Known(keys) /\ k \notin keys.lists /\ slots[k] = Unset
    BY <1>3, KeysParts DEF Settable, Gives
  <2>2. Says(t, name, keys, k, slots[k])
    BY <2>1 DEF SaysAll
  <2> QED  BY <2>1, <2>2, SaysUnset
<1>4. ASSUME NEW k \in keys.numbers, Gives(t, l, name, k)
      PROVE  \E n \in Fits[k] : l.value = <<n>>
  BY <1>4 DEF Settable, Gives
<1>5. Fine(Append(t, l), name, keys)
  BY <1>3, <1>4, FineKept
<1> QED  BY <1>2, <1>5 DEF SaysAll

\* A line set in a section leaves it one.
LEMMA SetType ==
  ASSUME NEW l \in Lines, l.kind = "setting",
         NEW keys \in {InterfaceKeys, PeerKeys}, NEW slots \in SectionType(keys)
  PROVE  Set(slots, keys, l) \in SectionType(keys)
<1>1. slots \in [Known(keys) -> Values \cup {Unset}] /\ \A k \in keys.lists : slots[k] \in Seq(Tokens)
  BY DEF SectionType, Slots
<1>2. l.value \in Values /\ Csv(l.value) \in Seq(Tokens)
  BY WgConfAssumption, ValueFacts
<1>3. \A v, w \in Seq(Tokens) : v \o w \in Seq(Tokens)
  OBVIOUS
<1> DEFINE New(k) == IF k # l.key THEN slots[k]
                     ELSE IF k \in keys.lists THEN slots[k] \o Csv(l.value) ELSE l.value
<1>4. Set(slots, keys, l) = [k \in Known(keys) |-> New(k)]
  BY <1>1 DEF Set
<1>5. \A k \in keys.lists : k \in Known(keys) /\ New(k) \in Seq(Tokens)
  BY <1>1, <1>2, <1>3, KeysParts
<1>6. \A k \in Known(keys) : New(k) \in Values \cup {Unset}
  BY <1>1, <1>2, <1>5, ValueFacts
<1> HIDE DEF New
<1> QED  BY <1>4, <1>5, <1>6 DEF SectionType, Slots

\* A line that cannot be set makes the text one no parser may accept.
LEMMA RefusedSetting ==
  ASSUME NEW t \in Seq(Lines), NEW l \in Lines, l.kind = "setting", NEW name,
         SectionAt(t, Len(t)) = name,
         NEW keys \in {InterfaceKeys, PeerKeys}, NEW slots \in SectionType(keys),
         SaysAll(t, name, keys, slots), ~Settable(slots, keys, l), NEW required
  PROVE  ~KeysAreFine(Append(t, l), name, keys, required)
<1> DEFINE u == Append(t, l)
           n == Len(t)
           k == l.key
           G == Given(t, name, k)
<1>1. n \in Nat /\ u[n + 1] = l
  BY AppendedLine
<1>2. Given(u, name, k) = G \cup {n + 1} /\ G \subseteq 1..n
  BY GivenRead
<1> HIDE DEF u, n, G
<1>3. CASE k \in keys.scalars /\ slots[k] # Unset
  <2>1. k \in Known(keys) /\ k \notin keys.lists
    BY <1>3, KeysParts
  <2>2. Says(t, name, keys, k, slots[k])
    BY <2>1 DEF SaysAll
  <2>3. PICK i : i \in G
    BY <1>3, <2>1, <2>2, SaysUnset DEF G
  <2>4. n + 1 \notin G /\ IsFiniteSet(G)
    <3>1. IsFiniteSet(1..n) /\ n + 1 \notin 1..n
      BY <1>1, FS_Interval
    <3> QED  BY <1>2, <3>1, FS_Subset
  <2>5. Cardinality(G \cup {n + 1}) = Cardinality(G) + 1
    BY <2>4, FS_AddElement
  <2>6. Cardinality(G) \in Nat /\ Cardinality(G) # 0
    BY <2>3, <2>4, FS_CardinalityType, FS_EmptySet
  <2>7. ~(Cardinality(Given(u, name, k)) <= 1)
    BY <1>2, <2>5, <2>6
  <2> QED  BY <1>3, <2>7 DEF KeysAreFine, u
<1>4. CASE k \in keys.numbers /\ ~(\E m \in Fits[k] : l.value = <<m>>)
  <2>1. n + 1 \in Given(u, name, k)
    BY <1>2
  <2> QED  BY <1>1, <1>4, <2>1 DEF KeysAreFine, u
<1> QED  BY <1>3, <1>4 DEF Settable

\* What is fine and has what is required is fine as a whole.
LEMMA FineEnough ==
  ASSUME NEW t \in Seq(Lines), NEW name, NEW keys, NEW required,
         Fine(t, name, keys), \A k \in required : Given(t, name, k) # {}
  PROVE  KeysAreFine(t, name, keys, required)
<1>1. ASSUME NEW k \in keys.scalars
      PROVE  Cardinality(Given(t, name, k)) <= 1
  <2> DEFINE G == Given(t, name, k)
  <2>1. \A i, j \in G : i = j
    BY DEF Fine
  <2> HIDE DEF G
  <2>2. CASE G = {}
    <3>1. Cardinality({}) = 0
      BY FS_EmptySet
    <3> QED  BY <2>2, <3>1 DEF G
  <2>3. CASE G # {}
    <3>1. PICK i : i \in G
      BY <2>3
    <3>2. G = {i}
      BY <2>1, <3>1
    <3>3. Cardinality({i}) = 1
      BY FS_Singleton
    <3> QED  BY <3>2, <3>3 DEF G
  <2> QED  BY <2>2, <2>3
<1> QED  BY <1>1 DEF KeysAreFine, Fine

-----------------------------------------------------------------------------
(* The sections of one name and the text they were read from.              *)

Sections(keys) == Seq(SectionType(keys))

\* What the one section of a name holds, or would if its header came next.
SlotsOf(s, keys) == IF Len(s) = 0 THEN Fresh(keys) ELSE s[1]

\* There are as many sections as headers, as far as it matters, and the only one
\* there is says what its lines do.
Follows(t, s, name, keys) ==
  /\ Len(s) = 0 => NoHeader(t, name)
  /\ Len(s) = 1 => OneHeader(t, name)
  /\ Len(s) > 1 => TwoHeaders(t, name)
  /\ Len(s) <= 1 => SaysAll(t, name, keys, SlotsOf(s, keys)) /\ Fine(t, name, keys)

\* Only one section, and so the text has one header of its name.
LEMMA FollowsOne ==
  ASSUME NEW t, NEW s, NEW name, NEW keys, Len(s) = 1, OneHeader(t, name),
         SaysAll(t, name, keys, SlotsOf(s, keys)), Fine(t, name, keys)
  PROVE  Follows(t, s, name, keys)
  BY DEF Follows

\* Of several sections only their number matters.
LEMMA FollowsMany ==
  ASSUME NEW t, NEW s, NEW name, NEW keys, NEW n \in Nat, Len(s) = n, n > 1,
         TwoHeaders(t, name)
  PROVE  Follows(t, s, name, keys)
  BY DEF Follows

\* Some sections are one or more.
LEMMA OneOrMore ==
  ASSUME NEW n \in Nat, n > 0
  PROVE  n = 1 \/ n > 1
  OBVIOUS

\* A section just started is one.
LEMMA FreshType ==
  ASSUME NEW keys
  PROVE  Fresh(keys) \in SectionType(keys)
<1>1. <<>> \in Seq(Tokens)
  OBVIOUS
<1>2. \A k \in keys.lists : k \in Known(keys)
  BY DEF Known
<1> QED  BY <1>1, <1>2, ValueFacts DEF Fresh, SectionType, Slots

\* No section yet, and no line.
LEMMA FollowsNothing ==
  ASSUME NEW name, NEW keys \in {InterfaceKeys, PeerKeys}
  PROVE  Follows(<<>>, <<>>, name, keys)
<1>1. Len(<<>>) = 0
  OBVIOUS
<1>2. NoHeader(<<>>, name)
  BY <1>1 DEF NoHeader
<1>3. \A k : Given(<<>>, name, k) = {} /\ Gathered(<<>>, name, k) = <<>>
  BY GatheredNothing
<1>4. SaysAll(<<>>, name, keys, Fresh(keys))
  <2> SUFFICES ASSUME NEW k \in Known(keys)
               PROVE  Says(<<>>, name, keys, k, Fresh(keys)[k])
    BY DEF SaysAll
  <2> QED  BY <1>3 DEF Says, Fresh
<1>5. Fine(<<>>, name, keys)
  BY <1>3 DEF Fine
<1> QED  BY <1>1, <1>2, <1>4, <1>5 DEF Follows, SlotsOf

\* A line that gives a section nothing leaves it as fine and as truthful as it was.
LEMMA NothingGiven ==
  ASSUME NEW t \in Seq(Lines), NEW l \in Lines, NEW name,
         NEW keys \in {InterfaceKeys, PeerKeys}, NEW slots,
         l.kind = "setting" => SectionAt(t, Len(t)) # name,
         SaysAll(t, name, keys, slots), Fine(t, name, keys)
  PROVE  SaysAll(Append(t, l), name, keys, slots) /\ Fine(Append(t, l), name, keys)
<1>1. \A k : ~Gives(t, l, name, k)
  BY DEF Gives
<1>2. SaysAll(Append(t, l), name, keys, slots)
  BY <1>1, SaysKept DEF SaysAll
<1>3. Fine(Append(t, l), name, keys)
  BY <1>1, FineKept
<1> QED  BY <1>2, <1>3

\* A line that is about something else.
LEMMA OtherFollows ==
  ASSUME NEW t \in Seq(Lines), NEW l \in Lines, NEW name,
         NEW keys \in {InterfaceKeys, PeerKeys}, NEW s, Follows(t, s, name, keys),
         ~IsHeader(l, name), l.kind = "setting" => SectionAt(t, Len(t)) # name
  PROVE  Follows(Append(t, l), s, name, keys)
<1>1. Len(s) = 0 => NoHeader(Append(t, l), name)
  BY OtherLine DEF Follows
<1>2. Len(s) = 1 => OneHeader(Append(t, l), name)
  BY OtherLine DEF Follows
<1>3. Len(s) > 1 => TwoHeaders(Append(t, l), name)
  BY SecondHeader DEF Follows
<1>4. Len(s) <= 1 => /\ SaysAll(Append(t, l), name, keys, SlotsOf(s, keys))
                     /\ Fine(Append(t, l), name, keys)
  BY NothingGiven DEF Follows
<1> QED  BY <1>1, <1>2, <1>3, <1>4 DEF Follows

\* A header starts a section that has nothing yet.
LEMMA HeaderFollows ==
  ASSUME NEW t \in Seq(Lines), NEW l \in Lines, NEW name,
         NEW keys \in {InterfaceKeys, PeerKeys}, NEW s \in Sections(keys),
         Follows(t, s, name, keys), IsHeader(l, name)
  PROVE  /\ Follows(Append(t, l), Append(s, Fresh(keys)), name, keys)
         /\ Append(s, Fresh(keys)) \in Sections(keys)
         /\ Len(Append(s, Fresh(keys))) = Len(s) + 1
<1> DEFINE u == Append(t, l)
           r == Append(s, Fresh(keys))
<1>1. /\ Len(s) \in Nat /\ Len(r) \in Nat /\ Len(r) = Len(s) + 1 /\ r \in Sections(keys)
      /\ Len(s) = 0 => r[1] = Fresh(keys)
  BY FreshType, Appended DEF Sections
<1>2. l.kind # "setting"
  BY DEF IsHeader
<1> HIDE DEF r
<1>3. CASE Len(s) = 0
  <2>1. Len(r) = 1 /\ SlotsOf(r, keys) = Fresh(keys)
    BY <1>1, <1>3 DEF SlotsOf
  <2>2. OneHeader(u, name)
    BY <1>3, FirstHeader DEF Follows
  <2>3. SaysAll(t, name, keys, Fresh(keys)) /\ Fine(t, name, keys)
    BY <1>3 DEF Follows, SlotsOf
  <2>4. SaysAll(u, name, keys, Fresh(keys)) /\ Fine(u, name, keys)
    BY <1>2, <2>3, NothingGiven
  <2>5. Follows(u, r, name, keys)
    BY <2>1, <2>2, <2>4, FollowsOne
  <2> QED  BY <1>1, <2>5 DEF r
<1>4. CASE Len(s) > 0
  <2>1. Len(r) > 1
    BY <1>1, <1>4
  <2>2. \E i \in 1..Len(t) : IsHeader(t[i], name)
    <3>1. CASE Len(s) = 1
      BY <3>1 DEF Follows, OneHeader
    <3>2. CASE Len(s) > 1
      BY <3>2 DEF Follows, TwoHeaders
    <3>3. Len(s) = 1 \/ Len(s) > 1
      BY <1>1, <1>4, OneOrMore
    <3> QED  BY <3>1, <3>2, <3>3
  <2>3. TwoHeaders(u, name)
    BY <2>2, SecondHeader
  <2>4. Follows(u, r, name, keys)
    BY <1>1, <2>1, <2>3, FollowsMany
  <2> QED  BY <1>1, <2>4 DEF r
<1> QED  BY <1>1, <1>3, <1>4

\* The sections, with a setting in the n-th of them.
SetIn(s, n, keys, l) == [s EXCEPT ![n] = Set(s[n], keys, l)]

\* The section a setting is set in is the last one.
LEMMA SettingFollows ==
  ASSUME NEW t \in Seq(Lines), NEW l \in Lines, l.kind = "setting", NEW name,
         SectionAt(t, Len(t)) = name,
         NEW keys \in {InterfaceKeys, PeerKeys}, NEW s \in Sections(keys), NEW n, n = Len(s),
         n > 0, Follows(t, s, name, keys), Settable(s[n], keys, l)
  PROVE  /\ Follows(Append(t, l), SetIn(s, n, keys, l), name, keys)
         /\ SetIn(s, n, keys, l) \in Sections(keys)
         /\ Len(SetIn(s, n, keys, l)) = n
<1> DEFINE u == Append(t, l)
           r == SetIn(s, n, keys, l)
<1>1. n \in Nat /\ s[n] \in SectionType(keys)
  BY DEF Sections
<1>2. Set(s[n], keys, l) \in SectionType(keys)
  BY <1>1, SetType
<1>3. r \in Sections(keys) /\ Len(r) = n /\ r[n] = Set(s[n], keys, l)
  <2> HIDE DEF Sections
  <2>1. Set(s[n], keys, l) = Set(s[n], keys, l) /\ n \in 1..Len(s)
    BY <1>1
  <2> DEFINE x == Set(s[n], keys, l)
  <2>2. x \in SectionType(keys)
    BY <1>2
  <2> HIDE DEF x
  <2>3. /\ [s EXCEPT ![n] = x] \in Seq(SectionType(keys))
        /\ Len([s EXCEPT ![n] = x]) = n
        /\ [s EXCEPT ![n] = x][n] = x
    BY <1>1, <2>1, <2>2, ExceptSeq DEF Sections
  <2> QED  BY <2>3 DEF x, Sections, SetIn
<1>4. ~IsHeader(l, name)
  BY DEF IsHeader
<1> HIDE DEF r
<1>5. CASE n = 1
  <2>1. SlotsOf(r, keys) = Set(s[1], keys, l) /\ SlotsOf(s, keys) = s[1]
    BY <1>3, <1>5 DEF SlotsOf
  <2>2. SaysAll(t, name, keys, s[1]) /\ Fine(t, name, keys)
    BY <1>5, <2>1 DEF Follows
  <2>3. SaysAll(u, name, keys, Set(s[1], keys, l)) /\ Fine(u, name, keys)
    BY <1>1, <1>5, <2>2, SetKeeps
  <2>4. OneHeader(u, name)
    BY <1>4, <1>5, OtherLine DEF Follows
  <2>5. Follows(u, r, name, keys)
    BY <1>3, <1>5, <2>1, <2>3, <2>4, FollowsOne
  <2> QED  BY <1>3, <2>5 DEF r
<1>6. CASE n > 1
  <2>1. TwoHeaders(u, name)
    BY <1>6, SecondHeader DEF Follows
  <2>2. Follows(u, r, name, keys)
    BY <1>1, <1>3, <1>6, <2>1, FollowsMany
  <2> QED  BY <1>3, <2>2 DEF r
<1>7. n = 1 \/ n > 1
  BY <1>1, OneOrMore
<1> QED  BY <1>5, <1>6, <1>7

\* A setting refused by its section: the text is no longer one to accept.
LEMMA RefusedFollows ==
  ASSUME NEW t \in Seq(Lines), NEW l \in Lines, l.kind = "setting", NEW name,
         SectionAt(t, Len(t)) = name,
         NEW keys \in {InterfaceKeys, PeerKeys}, NEW s \in Sections(keys), NEW n, n = Len(s),
         n > 0, Follows(t, s, name, keys), ~Settable(s[n], keys, l), NEW required
  PROVE  ~(OneHeader(Append(t, l), name) /\ KeysAreFine(Append(t, l), name, keys, required))
<1>1. n \in Nat /\ s[n] \in SectionType(keys)
  BY DEF Sections
<1>2. CASE n = 1
  <2>1. SaysAll(t, name, keys, s[1])
    BY <1>2 DEF Follows, SlotsOf
  <2> QED  BY <1>1, <1>2, <2>1, RefusedSetting
<1>3. CASE n > 1
  <2>1. TwoHeaders(Append(t, l), name)
    BY <1>3, SecondHeader DEF Follows
  <2>2. ~OneHeader(Append(t, l), name)
    BY <2>1, TwoNotOne
  <2> QED  BY <2>2
<1>4. n = 1 \/ n > 1
  BY <1>1, OneOrMore
<1> QED  BY <1>2, <1>3, <1>4

-----------------------------------------------------------------------------
(* The invariant                                                           *)

Typed ==
  /\ text \in Seq(Lines)
  /\ iface \in Sections(InterfaceKeys) /\ Len(iface) <= 1
  /\ peers \in Sections(PeerKeys)
  /\ section \in {"none", "interface", "peer"}
  /\ outcome \in {"reading", "refused", "parsed"}

\* What the parser keeps of the lines read, until one of them is refused.
Tracks ==
  /\ LinesFine(text)
  /\ section = SectionAt(text, Len(text))
  /\ Follows(text, iface, "interface", InterfaceKeys)
  /\ Follows(text, peers, "peer", PeerKeys)

IInv ==
  /\ Typed
  /\ SectionStarted
  /\ outcome = "refused" => ~WellFormed(text)
  /\ outcome # "refused" => Tracks
  /\ outcome = "parsed" => Complete /\ config = Config(iface[1], peers[1])
  /\ outcome # "parsed" => config = Unset

\* Nothing read.
LEMMA InitHolds == Init => IInv
<1> SUFFICES ASSUME Init PROVE IInv
  OBVIOUS
<1>1. text = <<>> /\ iface = <<>> /\ peers = <<>>
  BY DEF Init
<1>2. Typed
  <2>1. \A S : <<>> \in Seq(S) /\ Len(<<>>) = 0
    OBVIOUS
  <2>2. Len(<<>>) <= 1
    BY <2>1
  <2> QED  BY <1>1, <2>1, <2>2 DEF Init, Typed, Sections
<1>3. LinesFine(text)
  BY <1>1 DEF LinesFine
<1>4. SectionAt(text, Len(text)) = "none"
  <2>1. Above(<<>>, Len(<<>>)) = {}
    BY DEF Above
  <2> QED  BY <1>1, <2>1, SectionAbove
<1>5. Tracks
  BY <1>1, <1>3, <1>4, FollowsNothing DEF Init, Tracks
<1> QED  BY <1>2, <1>5 DEF Init, IInv, SectionStarted

\* What is known of the text when a line is read.
LEMMA LineRead ==
  ASSUME IInv, NEW l \in Lines, Read(l)
  PROVE  /\ text \in Seq(Lines) /\ text' = Append(text, l) /\ text' \in Seq(Lines)
         /\ Len(text) \in Nat /\ Len(text') = Len(text) + 1 /\ text'[Len(text) + 1] = l
         /\ Len(text) + 1 \in 1..Len(text')
         /\ outcome = "reading" /\ config' = Unset /\ Typed /\ Tracks /\ SectionStarted
  BY AppendedLine DEF IInv, Typed, Read

\* An [Interface] is the only one.
LEMMA OnlySection ==
  ASSUME Typed, iface # <<>>
  PROVE  Len(iface) = 1
<1>1. \A S : \A s \in Seq(S) : s # <<>> => Len(s) \in Nat /\ Len(s) # 0
  OBVIOUS
<1>2. Len(iface) \in Nat /\ Len(iface) # 0 /\ Len(iface) <= 1
  BY <1>1 DEF Typed, Sections
<1>3. \A n \in Nat : n # 0 /\ n <= 1 => n = 1
  OBVIOUS
<1> QED  BY <1>2, <1>3

\* A refusal is right as soon as the text is not well-formed; no line is read after it.
LEMMA RefuseStep ==
  ASSUME IInv, NEW l \in Lines, Read(l), Refuse, ~WellFormed(text')
  PROVE  IInv'
<1>1. Typed' /\ SectionStarted' /\ config' = Unset
  BY LineRead DEF Refuse, Typed, SectionStarted
<1> QED  BY <1>1 DEF Refuse, IInv

\* A line accepted: what is kept has to follow the text.
LEMMA AcceptStep ==
  ASSUME IInv, NEW l \in Lines, Read(l), Accept, Typed', SectionStarted', Tracks'
  PROVE  IInv'
  BY LineRead DEF IInv, Accept

\* A line that is neither a header nor a setting.
LEMMA SkipStep ==
  ASSUME IInv, NEW l \in Lines, Skip(l)
  PROVE  IInv'
<1>1. Read(l) /\ Accept /\ UNCHANGED <<iface, peers, section>> /\ l.kind = "blank"
  BY DEF Skip
<1>2. Typed' /\ SectionStarted'
  BY <1>1, LineRead DEF Typed, SectionStarted, Accept
<1>3. LinesFine(text')
  <2>1. LineFine(text, l)
    BY <1>1 DEF LineFine
  <2>2. LinesFine(text)
    BY <1>1, LineRead DEF Tracks
  <2> QED  BY <1>1, <2>1, <2>2, LineRead, FineLine
<1>4. section' = SectionAt(text', Len(text'))
  BY <1>1, LineRead, SectionRead DEF Tracks
<1>5. \A name : ~IsHeader(l, name)
  BY <1>1 DEF IsHeader
<1>6. Follows(text', iface, "interface", InterfaceKeys) /\ Follows(text', peers, "peer", PeerKeys)
  BY <1>1, <1>5, LineRead, OtherFollows DEF Tracks
<1>7. Tracks'
  BY <1>1, <1>3, <1>4, <1>6 DEF Tracks
<1> QED  BY <1>1, <1>2, <1>7, AcceptStep

\* A line without "=".
LEMMA MalformedStep ==
  ASSUME IInv, NEW l \in Lines, Malformed(l)
  PROVE  IInv'
<1>1. Read(l) /\ Refuse /\ l.kind = "malformed"
  BY DEF Malformed
<1>2. ~WellFormed(text')
  BY <1>1, LineRead DEF WellFormed, SectionsFine
<1> QED  BY <1>1, <1>2, RefuseStep

\* A header: a second [Interface] or an unknown name is refused, and rightly.
LEMMA HeaderStep ==
  ASSUME IInv, NEW l \in Lines, Header(l)
  PROVE  IInv'
<1>1. Read(l) /\ l.kind = "header"
  BY DEF Header
<1>2. ASSUME l.name \in {"interface", "peer"}, section' = l.name
      PROVE  LinesFine(text') /\ section' = SectionAt(text', Len(text'))
  <2>1. LinesFine(text')
    <3>1. LineFine(text, l)
      BY <1>1, <1>2 DEF LineFine
    <3>2. LinesFine(text)
      BY <1>1, LineRead DEF Tracks
    <3> QED  BY <1>1, <3>1, <3>2, LineRead, FineLine
  <2>2. section' = SectionAt(text', Len(text'))
    <3>1. text \in Seq(Lines) /\ text' = Append(text, l) /\ Len(text') = Len(text) + 1
      BY <1>1, LineRead
    <3>2. SectionAt(Append(text, l), Len(text) + 1) = l.name
      BY <1>1, <3>1, SectionRead
    <3> QED  BY <1>2, <3>1, <3>2
  <2> QED  BY <2>1, <2>2
<1>3. ASSUME (l.name = "interface" => iface # <<>>) /\ l.name # "peer" /\ Refuse
      PROVE  IInv'
  <2>1. ASSUME l.name = "interface"
        PROVE  ~OneHeader(text', "interface")
    <3>1. Len(iface) = 1
      BY <1>1, <1>3, <2>1, LineRead, OnlySection
    <3>2. \E i \in 1..Len(text) : IsHeader(text[i], "interface")
      BY <1>1, <3>1, LineRead DEF Tracks, Follows, OneHeader
    <3>3. IsHeader(l, "interface")
      BY <1>1, <2>1 DEF IsHeader
    <3>4. TwoHeaders(text', "interface")
      BY <1>1, <3>2, <3>3, LineRead, SecondHeader
    <3> QED  BY <3>4, TwoNotOne
  <2>2. l.name # "interface" => ~SectionsFine(text')
    BY <1>1, <1>3, LineRead DEF SectionsFine
  <2>3. ~WellFormed(text')
    BY <2>1, <2>2 DEF WellFormed, SectionsFine
  <2> QED  BY <1>1, <1>3, <2>3, RefuseStep
<1>4. ASSUME l.name = "interface", iface = <<>>, iface' = <<Fresh(InterfaceKeys)>>,
             section' = "interface", Accept, peers' = peers
      PROVE  IInv'
  <2>1. IsHeader(l, "interface") /\ ~IsHeader(l, "peer")
    BY <1>1, <1>4 DEF IsHeader
  <2>2. iface \in Sections(InterfaceKeys) /\ Len(iface) = 0
        /\ Append(iface, Fresh(InterfaceKeys)) = iface'
    <3>1. \A x : Append(<<>>, x) = <<x>> /\ Len(<<>>) = 0
      OBVIOUS
    <3> QED  BY <1>1, <1>4, <3>1, LineRead DEF Typed
  <2>3. /\ Follows(text', iface', "interface", InterfaceKeys)
        /\ iface' \in Sections(InterfaceKeys)
        /\ Len(iface') = Len(iface) + 1
    <3>1. Follows(text, iface, "interface", InterfaceKeys)
      BY <1>1, LineRead DEF Tracks
    <3>2. text \in Seq(Lines) /\ text' = Append(text, l)
      BY <1>1, LineRead
    <3> QED  BY <2>1, <2>2, <3>1, <3>2, HeaderFollows
  <2>4. Follows(text', peers, "peer", PeerKeys)
    BY <1>1, <2>1, LineRead, OtherFollows DEF Tracks
  <2>5. Len(iface') = 1 /\ iface' # <<>>
    BY <1>4
  <2>6. Typed' /\ SectionStarted'
    BY <1>1, <1>4, <2>3, <2>5, LineRead DEF Typed, SectionStarted, Accept
  <2>7. Tracks'
    BY <1>2, <1>4, <2>3, <2>4 DEF Tracks
  <2> QED  BY <1>1, <1>4, <2>6, <2>7, AcceptStep
<1>5. ASSUME l.name = "peer", peers' = Append(peers, Fresh(PeerKeys)),
             section' = "peer", Accept, iface' = iface
      PROVE  IInv'
  <2>1. IsHeader(l, "peer") /\ ~IsHeader(l, "interface")
    BY <1>1, <1>5 DEF IsHeader
  <2>2. /\ Follows(text', peers', "peer", PeerKeys)
        /\ peers' \in Sections(PeerKeys)
        /\ Len(peers') = Len(peers) + 1
    <3>1. Follows(text, peers, "peer", PeerKeys) /\ peers \in Sections(PeerKeys)
      BY <1>1, LineRead DEF Tracks, Typed
    <3>2. text \in Seq(Lines) /\ text' = Append(text, l)
      BY <1>1, LineRead
    <3> QED  BY <1>5, <2>1, <3>1, <3>2, HeaderFollows
  <2>3. Follows(text', iface, "interface", InterfaceKeys)
    BY <1>1, <2>1, LineRead, OtherFollows DEF Tracks
  <2>4. peers' # <<>>
    <3>1. Len(peers) \in Nat
      BY <1>1, LineRead DEF Typed, Sections
    <3>2. Len(<<>>) = 0
      OBVIOUS
    <3> QED  BY <2>2, <3>1, <3>2
  <2>5. Typed' /\ SectionStarted'
    BY <1>1, <1>5, <2>2, <2>4, LineRead DEF Typed, SectionStarted, Accept
  <2>6. Tracks'
    BY <1>2, <1>5, <2>2, <2>3 DEF Tracks
  <2> QED  BY <1>1, <1>5, <2>5, <2>6, AcceptStep
<1> QED  BY <1>3, <1>4, <1>5 DEF Header

\* A setting goes to the last section started, or is refused, and rightly.
LEMMA SettingStep ==
  ASSUME IInv, NEW l \in Lines, Setting(l)
  PROVE  IInv'
<1>1. Read(l) /\ l.kind = "setting"
  BY DEF Setting
<1>2. /\ text \in Seq(Lines) /\ text' = Append(text, l)
      /\ section = SectionAt(text, Len(text))
      /\ Follows(text, iface, "interface", InterfaceKeys) /\ iface \in Sections(InterfaceKeys)
      /\ Follows(text, peers, "peer", PeerKeys) /\ peers \in Sections(PeerKeys)
  BY <1>1, LineRead DEF Tracks, Typed
<1>3. \A name : ~IsHeader(l, name)
  BY <1>1 DEF IsHeader
<1>4. ASSUME section # "none"
      PROVE  LinesFine(text') /\ section = SectionAt(text', Len(text'))
  <2>1. \E j \in 1..Len(text) : text[j].kind = "header"
    <3>1. Len(text) \in 0..Len(text)
      BY <1>1, LineRead
    <3> QED  BY <1>2, <1>4, <3>1, SectionHasHeader
  <2>2. LineFine(text, l)
    BY <1>1, <2>1 DEF LineFine
  <2>3. LinesFine(text')
    BY <1>1, <2>2, LineRead, FineLine DEF Tracks
  <2>4. section = SectionAt(text', Len(text'))
    BY <1>1, <1>2, LineRead, SectionRead
  <2> QED  BY <2>3, <2>4
<1>5. ASSUME section = "none", Refuse
      PROVE  IInv'
  <2>1. \A j \in 1..Len(text) : text[j].kind # "header"
    <3>1. Len(text) \in 0..Len(text)
      BY <1>1, LineRead
    <3>2. \A j \in 1..Len(text) : text[j].kind = "header" => text[j].name # "none"
      BY <1>1, LineRead DEF Tracks, LinesFine
    <3>3. Above(text, Len(text)) = {}
      BY <1>2, <1>5, <3>1, <3>2, SectionHasHeader
    <3> QED  BY <3>3 DEF Above
  <2>2. \A j \in 1..(Len(text) + 1) : text'[j].kind # "header"
    <3>1. \A j \in 1..(Len(text) + 1) : j \in 1..Len(text) \/ j = Len(text) + 1
      BY <1>1, LineRead
    <3> QED  BY <1>1, <1>2, <2>1, <3>1, AppendedLine
  <2>3. ~SectionsFine(text')
    BY <1>1, <2>2, LineRead DEF SectionsFine
  <2> QED  BY <1>1, <1>5, <2>3, RefuseStep DEF WellFormed
<1>6. ASSUME section = "interface", Settable(iface[1], InterfaceKeys, l),
             iface' = SetIn(iface, 1, InterfaceKeys, l),
             Accept, UNCHANGED <<peers, section>>
      PROVE  IInv'
  <2>1. Len(iface) = 1
    BY <1>1, <1>6, LineRead, OnlySection DEF SectionStarted
  <2>2. /\ Follows(text', iface', "interface", InterfaceKeys)
        /\ iface' \in Sections(InterfaceKeys) /\ Len(iface') = 1
    <3>1. 1 = Len(iface) /\ 1 > 0 /\ SectionAt(text, Len(text)) = "interface"
      BY <1>2, <1>6, <2>1
    <3>2. PICK m : m = 1
      OBVIOUS
    <3>3. m = Len(iface) /\ m > 0 /\ Settable(iface[m], InterfaceKeys, l)
          /\ iface' = SetIn(iface, m, InterfaceKeys, l)
      BY <1>6, <3>1, <3>2
    <3>4. /\ Follows(text', iface', "interface", InterfaceKeys)
          /\ iface' \in Sections(InterfaceKeys) /\ Len(iface') = m
      BY <1>1, <1>2, <3>1, <3>3, SettingFollows
    <3> QED  BY <3>2, <3>4
  <2>3. Follows(text', peers, "peer", PeerKeys)
    BY <1>2, <1>3, <1>6, OtherFollows
  <2>4. iface' # <<>> /\ Len(iface') <= 1
    BY <2>2
  <2>5. Typed' /\ SectionStarted'
    BY <1>1, <1>6, <2>2, <2>4, LineRead DEF Typed, SectionStarted, Accept
  <2>6. Tracks'
    BY <1>4, <1>6, <2>2, <2>3 DEF Tracks
  <2> QED  BY <1>1, <1>6, <2>5, <2>6, AcceptStep
<1>7. ASSUME section = "interface", ~Settable(iface[1], InterfaceKeys, l), Refuse
      PROVE  IInv'
  <2>1. Len(iface) = 1
    BY <1>1, <1>7, LineRead, OnlySection DEF SectionStarted
  <2>2. ~(/\ OneHeader(text', "interface")
          /\ KeysAreFine(text', "interface", InterfaceKeys, {"privatekey"}))
    <3>1. 1 = Len(iface) /\ 1 > 0 /\ SectionAt(text, Len(text)) = "interface"
      BY <1>2, <1>7, <2>1
    <3> QED  BY <1>1, <1>2, <1>7, <3>1, RefusedFollows
  <2> QED  BY <1>1, <1>7, <2>2, RefuseStep DEF WellFormed, SectionsFine
<1> DEFINE n == Len(peers)
<1>8. section = "peer" => n \in Nat /\ n > 0
  <2>1. \A S : \A s \in Seq(S) : s # <<>> => Len(s) \in Nat /\ Len(s) > 0
    OBVIOUS
  <2> QED  BY <1>1, <1>2, <2>1, LineRead DEF SectionStarted, Sections
<1>9. ASSUME section = "peer", Settable(peers[n], PeerKeys, l),
             peers' = SetIn(peers, n, PeerKeys, l),
             Accept, UNCHANGED <<iface, section>>
      PROVE  IInv'
  <2>1. /\ Follows(text', peers', "peer", PeerKeys)
        /\ peers' \in Sections(PeerKeys) /\ Len(peers') = n
    <3>1. n = Len(peers) /\ n > 0 /\ SectionAt(text, Len(text)) = "peer"
      BY <1>2, <1>8, <1>9
    <3> HIDE DEF n
    <3> QED  BY <1>1, <1>2, <1>9, <3>1, SettingFollows
  <2>2. Follows(text', iface, "interface", InterfaceKeys)
    BY <1>2, <1>3, <1>9, OtherFollows
  <2>3. peers' # <<>>
    <3>1. Len(<<>>) = 0
      OBVIOUS
    <3>2. Len(peers') > 0
      BY <1>8, <1>9, <2>1
    <3> QED  BY <3>1, <3>2
  <2>4. Typed' /\ SectionStarted'
    BY <1>1, <1>9, <2>1, <2>3, LineRead DEF Typed, SectionStarted, Accept
  <2>5. Tracks'
    BY <1>4, <1>9, <2>1, <2>2 DEF Tracks
  <2> QED  BY <1>1, <1>9, <2>4, <2>5, AcceptStep
<1>10. ASSUME section = "peer", ~Settable(peers[n], PeerKeys, l), Refuse
       PROVE  IInv'
  <2>1. ~(/\ OneHeader(text', "peer")
          /\ KeysAreFine(text', "peer", PeerKeys, {"publickey", "endpoint"}))
    BY <1>1, <1>2, <1>8, <1>10, RefusedFollows
  <2> QED  BY <1>1, <1>10, <2>1, RefuseStep DEF WellFormed, SectionsFine
<1> QED  BY <1>5, <1>6, <1>7, <1>9, <1>10 DEF Setting, Last, SetIn

\* The parser's own test at the end of the text is the one of the text as a whole.
LEMMA CompleteIsWellFormed ==
  ASSUME Typed, Tracks
  PROVE  Complete <=> WellFormed(text)
<1> DEFINE i == iface[1]
           p == peers[1]
<1>1. /\ Follows(text, iface, "interface", InterfaceKeys)
      /\ Follows(text, peers, "peer", PeerKeys)
      /\ LinesFine(text) /\ text \in Seq(Lines)
  BY DEF Tracks, Typed
<1>2. \A S : \A s \in Seq(S) : Len(s) \in Nat /\ (Len(s) = 0 <=> s = <<>>)
  OBVIOUS
<1>3. /\ Len(iface) \in Nat /\ (Len(iface) = 0 <=> iface = <<>>) /\ Len(iface) <= 1
      /\ Len(peers) \in Nat
  BY <1>2 DEF Typed, Sections
<1>4. OneHeader(text, "interface") <=> iface # <<>>
  <2>1. iface # <<>> => Len(iface) = 1
    BY OnlySection
  <2> QED  BY <1>1, <1>3, <2>1, TwoNotOne DEF Follows
<1>5. OneHeader(text, "peer") <=> Len(peers) = 1
  <2>1. \A n \in Nat : n = 0 \/ n = 1 \/ n > 1
    OBVIOUS
  <2> QED  BY <1>1, <1>3, <2>1, TwoNotOne DEF Follows
<1>6. SectionsFine(text) <=> iface # <<>> /\ Len(peers) = 1
  BY <1>1, <1>4, <1>5 DEF SectionsFine, LinesFine
<1>7. ASSUME iface # <<>>
      PROVE  /\ i["privatekey"] # Unset <=> Given(text, "interface", "privatekey") # {}
             /\ i["address"] = Gathered(text, "interface", "address")
             /\ Fine(text, "interface", InterfaceKeys)
  <2>1. Len(iface) = 1
    BY <1>7, OnlySection
  <2>2. SaysAll(text, "interface", InterfaceKeys, i) /\ Fine(text, "interface", InterfaceKeys)
    BY <1>1, <2>1 DEF Follows, SlotsOf
  <2>3. /\ "privatekey" \in Known(InterfaceKeys) /\ "privatekey" \notin InterfaceKeys.lists
        /\ "address" \in Known(InterfaceKeys) /\ "address" \in InterfaceKeys.lists
    BY DEF Known, InterfaceKeys
  <2>4. /\ Says(text, "interface", InterfaceKeys, "privatekey", i["privatekey"])
        /\ Says(text, "interface", InterfaceKeys, "address", i["address"])
    BY <2>2, <2>3 DEF SaysAll
  <2>5. i["address"] = Gathered(text, "interface", "address")
    BY <2>3, <2>4 DEF Says
  <2> QED  BY <1>1, <2>2, <2>3, <2>4, <2>5, SaysUnset
<1>8. ASSUME Len(peers) = 1
      PROVE  /\ p["publickey"] # Unset <=> Given(text, "peer", "publickey") # {}
             /\ p["endpoint"] # Unset <=> Given(text, "peer", "endpoint") # {}
             /\ Fine(text, "peer", PeerKeys)
  <2>1. SaysAll(text, "peer", PeerKeys, p) /\ Fine(text, "peer", PeerKeys)
    BY <1>1, <1>8 DEF Follows, SlotsOf
  <2>2. /\ "publickey" \in Known(PeerKeys) /\ "publickey" \notin PeerKeys.lists
        /\ "endpoint" \in Known(PeerKeys) /\ "endpoint" \notin PeerKeys.lists
    BY DEF Known, PeerKeys
  <2>3. /\ Says(text, "peer", PeerKeys, "publickey", p["publickey"])
        /\ Says(text, "peer", PeerKeys, "endpoint", p["endpoint"])
    BY <2>1, <2>2 DEF SaysAll
  <2> QED  BY <1>1, <2>1, <2>2, <2>3, SaysUnset
<1> HIDE DEF i, p
<1>9. ASSUME Complete
      PROVE  WellFormed(text)
  <2>1. /\ iface # <<>> /\ Len(peers) = 1
        /\ i["privatekey"] # Unset /\ i["address"] # <<>>
        /\ p["publickey"] # Unset /\ p["endpoint"] # Unset
    BY <1>9 DEF Complete, i, p
  <2>2. KeysAreFine(text, "interface", InterfaceKeys, {"privatekey"})
    BY <1>1, <1>7, <2>1, FineEnough
  <2>3. KeysAreFine(text, "peer", PeerKeys, {"publickey", "endpoint"})
    BY <1>1, <1>8, <2>1, FineEnough
  <2> QED  BY <1>6, <1>7, <2>1, <2>2, <2>3 DEF WellFormed
<1>10. ASSUME WellFormed(text)
       PROVE  Complete
  <2>1. iface # <<>> /\ Len(peers) = 1
    BY <1>6, <1>10 DEF WellFormed
  <2>2. /\ Given(text, "interface", "privatekey") # {}
        /\ Given(text, "peer", "publickey") # {} /\ Given(text, "peer", "endpoint") # {}
        /\ Gathered(text, "interface", "address") # <<>>
    BY <1>10 DEF WellFormed, KeysAreFine
  <2> QED  BY <1>7, <1>8, <2>1, <2>2 DEF Complete, i, p
<1> QED  BY <1>9, <1>10

\* The settings of an accepted file are those of its two sections.
LEMMA ConfigSays ==
  ASSUME Typed, Tracks, Complete, config = Config(iface[1], peers[1])
  PROVE  /\ config # Unset
         /\ \A k \in Known(InterfaceKeys) :
              Says(text, "interface", InterfaceKeys, k, config[k])
         /\ \A k \in Known(PeerKeys) \ {"allowedips"} :
              Says(text, "peer", PeerKeys, k, config[k])
         /\ \/ Says(text, "peer", PeerKeys, "allowedips", config["allowedips"])
            \/ /\ Gathered(text, "peer", "allowedips") = <<>>
               /\ config["allowedips"] = <<Ipv4All>>
<1> DEFINE i == iface[1]
           p == peers[1]
           KI == Known(InterfaceKeys)
           KP == Known(PeerKeys)
           Allowed == AllowedOrAll(p["allowedips"])
<1>1. i \in SectionType(InterfaceKeys) /\ p \in SectionType(PeerKeys)
      /\ Len(iface) = 1 /\ Len(peers) = 1
  <2>1. Len(iface) = 1 /\ Len(peers) = 1
    BY OnlySection DEF Complete
  <2>2. \A S : \A s \in Seq(S) : Len(s) = 1 => s[1] \in S
    OBVIOUS
  <2> QED  BY <2>1, <2>2 DEF Typed, Sections
<1>2. i \in [KI -> Values \cup {Unset}] /\ p \in [KP -> Values \cup {Unset}]
  BY <1>1 DEF SectionType, Slots
<1>3. SaysAll(text, "interface", InterfaceKeys, i) /\ SaysAll(text, "peer", PeerKeys, p)
  BY <1>1 DEF Tracks, Follows, SlotsOf
<1>4. /\ KI \cap KP = {} /\ "allowedips" \in KP /\ "allowedips" \in PeerKeys.lists
      /\ "allowedips" \notin KI
  BY DEF Known, InterfaceKeys, PeerKeys
<1>5. Allowed \in Values
  <2>1. p["allowedips"] \in Seq(Tokens)
    BY <1>1, <1>4 DEF SectionType
  <2>2. <<Ipv4All>> \in Seq(Tokens)
    <3>1. Ipv4All \in Tokens
      BY WgConfAssumption
    <3> QED  BY <3>1
  <2> QED  BY <2>1, <2>2, ValueFacts DEF AllowedOrAll
<1>6. config = [k \in KI \cup KP |-> IF k \in KI THEN i[k]
                                     ELSE IF k = "allowedips" THEN Allowed ELSE p[k]]
  <2>1. DOMAIN i = KI /\ DOMAIN p = KP
    BY <1>2
  <2> HIDE DEF KI, KP, i, p
  <2>2. config = [k \in KI \cup KP |-> IF k \in KI THEN i[k]
                                       ELSE IF k = "allowedips" THEN AllowedOrAll(p[k]) ELSE p[k]]
    BY <2>1 DEF Config, i, p
  <2> QED  BY <2>2
<1> HIDE DEF i, p, KI, KP, Allowed
<1>7. /\ \A k \in KI : config[k] = i[k]
      /\ \A k \in KP \ {"allowedips"} : config[k] = p[k]
      /\ config["allowedips"] = Allowed
  BY <1>4, <1>6
<1>8. config \in [KI \cup KP -> Values \cup {Unset}]
  BY <1>2, <1>4, <1>5, <1>6
<1>9. config # Unset
  BY <1>8, WgConfAssumption DEF KI, KP
<1>10. \/ Says(text, "peer", PeerKeys, "allowedips", config["allowedips"])
       \/ /\ Gathered(text, "peer", "allowedips") = <<>>
          /\ config["allowedips"] = <<Ipv4All>>
  <2>1. Says(text, "peer", PeerKeys, "allowedips", p["allowedips"])
    BY <1>3, <1>4 DEF SaysAll, KP
  <2>2. p["allowedips"] = Gathered(text, "peer", "allowedips")
    BY <1>4, <2>1 DEF Says
  <2> QED  BY <1>7, <2>1, <2>2 DEF AllowedOrAll, Allowed
<1> QED  BY <1>3, <1>7, <1>9, <1>10 DEF SaysAll, KI, KP

\* The end of the text.
LEMMA EndStep ==
  ASSUME IInv, End
  PROVE  IInv'
<1>1. outcome = "reading" /\ UNCHANGED <<text, iface, peers, section>>
  BY DEF End
<1>2. Typed /\ Tracks /\ SectionStarted /\ config = Unset
  BY <1>1 DEF IInv
<1>3. Complete <=> WellFormed(text)
  BY <1>2, CompleteIsWellFormed
<1>4. Tracks' /\ SectionStarted' /\ (WellFormed(text))' = WellFormed(text)
  BY <1>1, <1>2 DEF Tracks, SectionStarted
<1>5. CASE Complete /\ outcome' = "parsed" /\ config' = Config(iface[1], peers[1])
  BY <1>1, <1>2, <1>4, <1>5 DEF IInv, Typed, Complete
<1>6. CASE ~Complete /\ outcome' = "refused" /\ config' = config
  BY <1>1, <1>2, <1>3, <1>4, <1>6 DEF IInv, Typed
<1> QED  BY <1>5, <1>6 DEF End

\* Each step keeps the invariant.
LEMMA Inductive == IInv /\ [Next]_vars => IInv'
<1> SUFFICES ASSUME IInv, [Next]_vars
             PROVE  IInv'
  OBVIOUS
<1>1. ASSUME NEW l \in Lines, Skip(l)
      PROVE  IInv'
  BY <1>1, SkipStep
<1>2. ASSUME NEW l \in Lines, Header(l)
      PROVE  IInv'
  BY <1>2, HeaderStep
<1>3. ASSUME NEW l \in Lines, Malformed(l)
      PROVE  IInv'
  BY <1>3, MalformedStep
<1>4. ASSUME NEW l \in Lines, Setting(l)
      PROVE  IInv'
  BY <1>4, SettingStep
<1>5. CASE End
  BY <1>5, EndStep
<1>6. CASE UNCHANGED vars
  BY <1>6 DEF vars, IInv, Typed, Tracks, SectionStarted, Complete
<1> QED  BY <1>1, <1>2, <1>3, <1>4, <1>5, <1>6 DEF Next

\* The invariant holds throughout.
LEMMA Invariance == Spec => []IInv
  BY InitHolds, Inductive, PTL DEF Spec

-----------------------------------------------------------------------------
\* Every variable keeps its type: a list holds nothing but what stood between the
\* commas, there is at most one [Interface], and a config exactly when one is parsed.
THEOREM TypeCorrect == Spec => []TypeOK
<1>1. IInv => TypeOK
  <2> SUFFICES ASSUME IInv PROVE TypeOK
    OBVIOUS
  <2>1. /\ iface \in Seq(SectionType(InterfaceKeys)) /\ peers \in Seq(SectionType(PeerKeys))
    BY DEF IInv, Typed, Sections
  <2>2. iface \in Seq(Slots(InterfaceKeys)) /\ peers \in Seq(Slots(PeerKeys))
    <3>1. \A S, T : S \subseteq T => \A s \in Seq(S) : s \in Seq(T)
      OBVIOUS
    <3>2. \A keys : SectionType(keys) \subseteq Slots(keys)
      BY DEF SectionType
    <3> QED  BY <2>1, <3>1, <3>2
  <2>3. ASSUME NEW slots \in ToSet(iface \o peers)
        PROVE  slots \in SectionType(InterfaceKeys) \/ slots \in SectionType(PeerKeys)
    <3> DEFINE S == SectionType(InterfaceKeys) \cup SectionType(PeerKeys)
    <3>1. \A A, B : \A s \in Seq(A), t \in Seq(B) : s \o t \in Seq(A \cup B)
      OBVIOUS
    <3>2. \A r \in Seq(S) : ToSet(r) \subseteq S
      BY DEF ToSet
    <3>3. iface \o peers \in Seq(S)
      BY <2>1, <3>1
    <3> QED  BY <2>3, <3>2, <3>3
  <2>4. ASSUME NEW slots \in ToSet(iface \o peers), NEW k \in {"address", "dns", "allowedips"},
               k \in DOMAIN slots
        PROVE  slots[k] \in Seq(Tokens)
    <3>1. ASSUME NEW keys \in {InterfaceKeys, PeerKeys}, slots \in SectionType(keys)
          PROVE  slots[k] \in Seq(Tokens)
      <4>1. DOMAIN slots = Known(keys)
        BY <3>1 DEF SectionType, Slots
      <4>2. k \in keys.lists
        BY <2>4, <4>1 DEF Known, InterfaceKeys, PeerKeys
      <4> QED  BY <3>1, <4>2 DEF SectionType
    <3> QED  BY <2>3, <3>1
  <2>5. config # Unset <=> outcome = "parsed"
    BY ConfigSays DEF IInv
  <2> QED  BY <2>2, <2>4, <2>5 DEF IInv, Typed, TypeOK
<1> QED  BY <1>1, Invariance, PTL

\* parse never stores a setting in a section it has not started: neither expect
\* fails, whatever the file.
THEOREM NeverPanics == Spec => []SectionStarted
<1>1. IInv => SectionStarted
  BY DEF IInv
<1> QED  BY <1>1, Invariance, PTL

\* A file is accepted exactly when it is well-formed as a whole, and then every
\* setting is what the file says in that setting's section: for files of any lines,
\* any length and any values.
THEOREM ParsesWhatItSays == Spec => []MeansWhatItSays
<1>1. IInv => MeansWhatItSays
  <2> SUFFICES ASSUME IInv, outcome # "reading" PROVE MeansWhatItSays
    BY DEF MeansWhatItSays
  <2>1. CASE outcome = "parsed"
    <3>1. Typed /\ Tracks /\ Complete /\ config = Config(iface[1], peers[1])
      BY <2>1 DEF IInv
    <3>2. WellFormed(text)
      BY <3>1, CompleteIsWellFormed
    <3> QED  BY <2>1, <3>1, <3>2, ConfigSays DEF MeansWhatItSays
  <2>2. CASE outcome = "refused"
    BY <2>2 DEF IInv, MeansWhatItSays
  <2> QED  BY <2>1, <2>2 DEF IInv, Typed
<1> QED  BY <1>1, Invariance, PTL

\* An accepted file has exactly one section of each kind, and no line that is
\* malformed, unknown as a header, or a setting above the first of them.
THEOREM AcceptsOneOfEach == Spec => [](outcome = "parsed" => SectionsFine(text))
<1>1. MeansWhatItSays => (outcome = "parsed" => SectionsFine(text))
  BY DEF MeansWhatItSays, WellFormed
<1> QED  BY <1>1, ParsesWhatItSays, PTL
=============================================================================

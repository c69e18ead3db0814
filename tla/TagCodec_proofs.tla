-------------------------- MODULE TagCodec_proofs --------------------------
(***************************************************************************)
(* What the encoder of asn1.c writes for any values, and what a card that  *)
(* knows the grammar reads in it; facts by induction over the octets and   *)
(* over the steps of a function.                                           *)
(***************************************************************************)
EXTENDS TagCodec, SequenceTheorems, WellFoundedInduction, TLAPS

-----------------------------------------------------------------------------
(* Induction over the natural numbers, on a set in place of a predicate.   *)

Below == OpToRel(<, Nat)

LEMMA LeastNumber ==
  ASSUME NEW T, T \subseteq Nat, T # {}
  PROVE  \E x \in T : \A y \in T : x <= y
<1>1. IsWellFoundedOn(Below, Nat)
  BY NatLessThanWellFounded DEF Below
<1>2. \A x, y \in Nat : <<y, x>> \in Below <=> y < x
  BY DEF Below, OpToRel
<1>3. PICK x \in T : \A y \in T : ~ (<<y, x>> \in Below)
  BY <1>1, WFMin
<1>4. ASSUME NEW y \in T PROVE x <= y
  <2>1. x \in Nat /\ y \in Nat
    OBVIOUS
  <2>2. ~ (y < x)
    BY <1>2, <1>3, <2>1
  <2>3. QED
    BY <2>1, <2>2
<1>5. QED
  BY <1>4

LEMMA SetInduction ==
  ASSUME NEW S, 0 \in S, \A n \in Nat : n \in S => n + 1 \in S
  PROVE  \A n \in Nat : n \in S
<1> SUFFICES ASSUME Nat \ S # {} PROVE FALSE
  OBVIOUS
<1>1. PICK x \in Nat \ S : \A y \in Nat \ S : x <= y
  BY LeastNumber
<1>2. x # 0 /\ x - 1 \in Nat /\ x - 1 \in S
  BY <1>1
<1>3. QED
  BY <1>1, <1>2

(* The same for the steps from 0 to n. *)
LEMMA StepInduction ==
  ASSUME NEW n \in Nat, NEW S, 0 \in S, \A k \in 1..n : k - 1 \in S => k \in S
  PROVE  \A k \in 0..n : k \in S
<1> DEFINE T == {k \in Nat : k \in 0..n => k \in S}
<1>1. 0 \in T
  OBVIOUS
<1>2. ASSUME NEW k \in Nat, k \in T PROVE k + 1 \in T
  <2>1. CASE k + 1 \in 0..n
    <3>1. k + 1 \in 1..n /\ (k + 1) - 1 = k /\ k \in S
      BY <1>2, <2>1
    <3>2. QED
      BY <3>1
  <2>2. QED
    BY <2>1
<1>3. \A k \in Nat : k \in T
  <2> HIDE DEF T
  <2>1. QED
    BY <1>1, <1>2, SetInduction
<1>4. QED
  BY <1>3

-----------------------------------------------------------------------------
(* A function on D whose value at x follows (by F) from its values where   *)
(* size is smaller exists.                                                 *)

Causal(D, V, size, F) ==
  \A x \in D : \A g, h \in [D -> V] :
    (\A y \in D : size[y] < size[x] => g[y] = h[y]) => F[x][g] = F[x][h]

Solved(D, V, size, F, n) ==
  {f \in [D -> V] : \A x \in D : size[x] < n => f[x] = F[x][f]}

LEMMA Unique ==
  ASSUME NEW D, NEW V, NEW size \in [D -> Nat], NEW F, Causal(D, V, size, F),
         NEW m \in Nat, NEW n \in Nat,
         NEW f \in Solved(D, V, size, F, m), NEW g \in Solved(D, V, size, F, n)
  PROVE  \A x \in D : size[x] < m /\ size[x] < n => f[x] = g[x]
<1> DEFINE S == {k \in Nat : \A x \in D : size[x] < k /\ size[x] < m /\ size[x] < n => f[x] = g[x]}
<1>0. f \in [D -> V] /\ g \in [D -> V]
  BY DEF Solved
<1>1. 0 \in S
  OBVIOUS
<1>2. ASSUME NEW k \in Nat, k \in S PROVE k + 1 \in S
  <2> SUFFICES ASSUME NEW x \in D, size[x] < k + 1, size[x] < m, size[x] < n
               PROVE  f[x] = g[x]
    OBVIOUS
  <2>1. ASSUME NEW y \in D, size[y] < size[x] PROVE f[y] = g[y]
    <3>1. size[x] \in Nat /\ size[y] \in Nat
      OBVIOUS
    <3>2. size[y] < k /\ size[y] < m /\ size[y] < n
      BY <2>1, <3>1
    <3>3. QED
      BY <1>2, <3>2
  <2>2. F[x][f] = F[x][g]
    BY <1>0, <2>1 DEF Causal
  <2>3. f[x] = F[x][f] /\ g[x] = F[x][g]
    BY DEF Solved
  <2>4. QED
    BY <2>2, <2>3
<1>3. \A k \in Nat : k \in S
  <2> HIDE DEF S
  <2>1. QED
    BY <1>1, <1>2, SetInduction
<1>4. QED
  <2> SUFFICES ASSUME NEW x \in D, size[x] < m, size[x] < n PROVE f[x] = g[x]
    OBVIOUS
  <2>1. size[x] + 1 \in S /\ size[x] < size[x] + 1
    BY <1>3
  <2>2. QED
    BY <2>1

LEMMA Solvable ==
  ASSUME NEW D, NEW V, V # {}, NEW size \in [D -> Nat], NEW F, Causal(D, V, size, F),
         \A x \in D : \A g \in [D -> V] : F[x][g] \in V
  PROVE  \A n \in Nat : Solved(D, V, size, F, n) # {}
<1> DEFINE S == {n \in Nat : Solved(D, V, size, F, n) # {}}
<1>1. 0 \in S
  <2>1. PICK v \in V : TRUE
    OBVIOUS
  <2>2. [x \in D |-> v] \in Solved(D, V, size, F, 0)
    BY DEF Solved
  <2>3. QED
    BY <2>2
<1>2. ASSUME NEW n \in Nat, n \in S PROVE n + 1 \in S
  <2>1. PICK f \in Solved(D, V, size, F, n) : TRUE
    BY <1>2
  <2>2. f \in [D -> V]
    BY <2>1 DEF Solved
  <2> DEFINE g == [x \in D |-> IF size[x] < n THEN f[x] ELSE F[x][f]]
  <2>3. g \in [D -> V]
    BY <2>2
  <2>4. ASSUME NEW x \in D, size[x] < n + 1 PROVE g[x] = F[x][g]
    <3>1. \A y \in D : size[y] < size[x] => g[y] = f[y]
      BY <2>4
    <3>2. F[x][g] = F[x][f]
      <4> HIDE DEF g
      <4>1. QED
        BY <2>2, <2>3, <3>1 DEF Causal
    <3>3. size[x] < n => f[x] = F[x][f]
      BY <2>1 DEF Solved
    <3>4. g[x] = F[x][f]
      BY <3>3
    <3>5. QED
      BY <3>2, <3>4
  <2>5. g \in Solved(D, V, size, F, n + 1)
    <3> HIDE DEF g
    <3>1. QED
      BY <2>3, <2>4 DEF Solved
  <2>6. QED
    BY <2>5
<1>3. \A n \in Nat : n \in S
  <2> HIDE DEF S
  <2>1. QED
    BY <1>1, <1>2, SetInduction
<1>4. QED
  BY <1>3

Sized(D, size)  == size \in [D -> Nat]
Closed(D, V, F) == V # {} /\ \A x \in D : \A g \in [D -> V] : F[x][g] \in V
Exists(D, V, F) == \E f \in [D -> V] : \A x \in D : f[x] = F[x][f]

LEMMA RecursiveFunction ==
  ASSUME NEW D, NEW V, NEW size, NEW F, Sized(D, size), Causal(D, V, size, F), Closed(D, V, F)
  PROVE  Exists(D, V, F)
<1> SUFFICES ASSUME size \in [D -> Nat], V # {},
                    \A x \in D : \A g \in [D -> V] : F[x][g] \in V
             PROVE  \E f \in [D -> V] : \A x \in D : f[x] = F[x][f]
  BY DEF Sized, Closed, Exists
<1> DEFINE G(n) == CHOOSE f : f \in Solved(D, V, size, F, n)
           f == [x \in D |-> G(size[x] + 1)[x]]
<1>1. \A n \in Nat : G(n) \in Solved(D, V, size, F, n)
  BY Solvable
<1> HIDE DEF G
<1>2. \A n \in Nat : G(n) \in [D -> V]
  BY <1>1 DEF Solved
<1>3. f \in [D -> V]
  BY <1>2
<1>4. ASSUME NEW x \in D PROVE f[x] = F[x][f]
  <2>1. size[x] + 1 \in Nat /\ size[x] < size[x] + 1
    OBVIOUS
  <2> DEFINE g == G(size[x] + 1)
  <2>2. g \in Solved(D, V, size, F, size[x] + 1) /\ g \in [D -> V]
    BY <1>1, <1>2, <2>1
  <2>3. g[x] = F[x][g]
    BY <2>1, <2>2 DEF Solved
  <2>4. ASSUME NEW y \in D, size[y] < size[x] PROVE g[y] = f[y]
    <3>1. size[y] + 1 \in Nat /\ size[y] < size[y] + 1 /\ size[y] < size[x] + 1
      BY <2>4
    <3>2. G(size[y] + 1) \in Solved(D, V, size, F, size[y] + 1)
      BY <1>1, <3>1
    <3>3. G(size[y] + 1)[y] = g[y]
      <4> HIDE DEF g
      <4>1. QED
        BY <2>1, <2>2, <3>1, <3>2, Unique
    <3>4. QED
      BY <3>3
  <2>5. F[x][g] = F[x][f]
    <3> HIDE DEF f, g
    <3>1. QED
      BY <1>3, <2>2, <2>4 DEF Causal
  <2>6. QED
    BY <2>3, <2>5
<1>5. QED
  <2> HIDE DEF f
  <2>1. QED
    BY <1>3, <1>4

(* And each function of that kind has its values in V. *)
Hereditary(D, V, size, f) ==
  \A x \in D : (\A y \in D : size[y] < size[x] => f[y] \in V) => f[x] \in V

LEMMA RecursiveType ==
  ASSUME NEW D, NEW V, NEW size, NEW f, Sized(D, size), f = [x \in D |-> f[x]],
         Hereditary(D, V, size, f)
  PROVE  f \in [D -> V]
<1> SUFFICES ASSUME size \in [D -> Nat],
                    \A x \in D : (\A y \in D : size[y] < size[x] => f[y] \in V) => f[x] \in V
             PROVE  f \in [D -> V]
  BY DEF Sized, Hereditary
<1> DEFINE S == {n \in Nat : \A x \in D : size[x] < n => f[x] \in V}
<1>1. 0 \in S
  OBVIOUS
<1>2. ASSUME NEW n \in Nat, n \in S PROVE n + 1 \in S
  <2> SUFFICES ASSUME NEW x \in D, size[x] < n + 1 PROVE f[x] \in V
    OBVIOUS
  <2>1. \A y \in D : size[y] < size[x] => f[y] \in V
    <3> SUFFICES ASSUME NEW y \in D, size[y] < size[x] PROVE f[y] \in V
      OBVIOUS
    <3>1. size[y] < n
      OBVIOUS
    <3>2. QED
      BY <1>2, <3>1
  <2>2. QED
    BY <2>1
<1>3. \A n \in Nat : n \in S
  <2> HIDE DEF S
  <2>1. QED
    BY <1>1, <1>2, SetInduction
<1>4. ASSUME NEW x \in D PROVE f[x] \in V
  <2>1. size[x] + 1 \in S /\ size[x] < size[x] + 1
    BY <1>3
  <2>2. QED
    BY <2>1
<1>5. QED
  BY <1>4

-----------------------------------------------------------------------------
(* OctetStrings and numbers                                                      *)

Front(s) == SubSeq(s, 1, Len(s) - 1)

LEMMA OctetAt ==
  ASSUME NEW s \in OctetStrings
  PROVE  /\ Len(s) \in Nat /\ s \in [1..Len(s) -> Byte] /\ DOMAIN s = 1..Len(s)
         /\ s # <<>> => Len(s) > 0
         /\ \A i \in 1..Len(s) : s[i] \in Byte
<1>1. Len(s) \in Nat /\ s \in [1..Len(s) -> Byte] /\ DOMAIN s = 1..Len(s)
  BY LenProperties DEF OctetStrings
<1>2. s # <<>> => Len(s) > 0
  BY EmptySeq DEF OctetStrings
<1>3. QED
  BY <1>1, <1>2

LEMMA SubOctets ==
  ASSUME NEW s \in OctetStrings, NEW m \in Nat \ {0}, NEW n \in Nat, n <= Len(s)
  PROVE  /\ SubSeq(s, m, n) \in OctetStrings
         /\ Len(SubSeq(s, m, n)) = IF m <= n THEN n - m + 1 ELSE 0
         /\ \A i \in 1..(n - m + 1) : SubSeq(s, m, n)[i] = s[m + i - 1]
<1>1. \A i \in m..n : i \in 1..Len(s)
  BY OctetAt
<1>2. \A i \in m..n : s[i] \in Byte
  BY <1>1, OctetAt
<1>3. QED
  BY <1>2, SubSeqProperties DEF OctetStrings

LEMMA OctetIsNat == \A x \in Byte : x \in Nat
  BY DEF Byte

LEMMA LastOctet ==
  ASSUME NEW s \in OctetStrings, s # <<>>
  PROVE  Len(s) \in Nat /\ Len(s) > 0 /\ s[Len(s)] \in Byte /\ s[Len(s)] \in Nat
<1>1. Len(s) \in Nat /\ Len(s) > 0
  BY OctetAt
<1>2. Len(s) \in 1..Len(s)
  BY <1>1
<1>3. s[Len(s)] \in Byte
  BY <1>1, <1>2, OctetAt
<1>4. QED
  BY ZenonT(20), <1>1, <1>3, OctetIsNat

LEMMA Fronts ==
  ASSUME NEW s \in OctetStrings, s # <<>>
  PROVE  /\ Front(s) \in OctetStrings /\ Len(Front(s)) = Len(s) - 1
         /\ \A i \in 1..(Len(s) - 1) : Front(s)[i] = s[i]
<1>1. Len(s) \in Nat /\ Len(s) > 0
  BY LastOctet
<1>2. Len(s) - 1 \in Nat /\ Len(s) - 1 <= Len(s) /\ 1 \in Nat \ {0}
  BY <1>1
<1>3. Front(s) \in OctetStrings
  BY <1>2, SubOctets DEF Front
<1>4. Len(Front(s)) = IF 1 <= Len(s) - 1 THEN Len(s) - 1 - 1 + 1 ELSE 0
  BY <1>2, SubOctets DEF Front
<1>5. \A i \in 1..(Len(s) - 1 - 1 + 1) : Front(s)[i] = s[1 + i - 1]
  BY <1>2, SubOctets DEF Front
<1>6. Len(Front(s)) = Len(s) - 1
  <2>1. \A n \in Nat : n > 0 => (IF 1 <= n - 1 THEN n - 1 - 1 + 1 ELSE 0) = n - 1
    OBVIOUS
  <2>2. QED
    BY ZenonT(20), <1>1, <1>4, <2>1
<1>7. ASSUME NEW i \in 1..(Len(s) - 1) PROVE Front(s)[i] = s[i]
  <2>1. Len(s) - 1 - 1 + 1 = Len(s) - 1 /\ 1 + i - 1 = i
    BY <1>1
  <2>2. QED
    BY <1>5, <2>1
<1>8. QED
  BY <1>3, <1>6, <1>7

NumberBody(g, s) == IF s = <<>> THEN 0 ELSE g[Front(s)] * 256 + s[Len(s)]

(* The function Number exists, and is what its definition says. *)
LEMMA NumberEquation ==
  /\ Number \in [OctetStrings -> Nat]
  /\ Number[<<>>] = 0
  /\ \A s \in OctetStrings : s # <<>> => Number[s] = Number[Front(s)] * 256 + s[Len(s)]
<1> DEFINE size == [s \in OctetStrings |-> Len(s)]
           F == [s \in OctetStrings |-> [g \in [OctetStrings -> Nat] |-> NumberBody(g, s)]]
<1>1. size \in [OctetStrings -> Nat]
  BY DEF OctetStrings
<1>a. \A s \in OctetStrings : s # <<>> => Front(s) \in OctetStrings /\ size[Front(s)] < size[s]
  BY Fronts
<1>2. \A s \in OctetStrings : \A g \in [OctetStrings -> Nat] : F[s][g] = NumberBody(g, s)
  OBVIOUS
<1>3. \A s \in OctetStrings : \A g \in [OctetStrings -> Nat] : F[s][g] \in Nat
  <2> SUFFICES ASSUME NEW s \in OctetStrings, NEW g \in [OctetStrings -> Nat], s # <<>>
               PROVE  g[Front(s)] * 256 + s[Len(s)] \in Nat
    BY DEF NumberBody
  <2>1. g[Front(s)] \in Nat
    BY Fronts
  <2>2. s[Len(s)] \in Nat
    BY LastOctet
  <2>3. QED
    BY <2>1, <2>2
<1>4. Causal(OctetStrings, Nat, size, F)
  <2> SUFFICES ASSUME NEW s \in OctetStrings, NEW g \in [OctetStrings -> Nat], NEW h \in [OctetStrings -> Nat],
                      \A t \in OctetStrings : size[t] < size[s] => g[t] = h[t]
               PROVE  NumberBody(g, s) = NumberBody(h, s)
    BY <1>2 DEF Causal
  <2>1. s # <<>> => g[Front(s)] = h[Front(s)]
    BY <1>a
  <2>2. QED
    BY <2>1 DEF NumberBody
<1>5. Exists(OctetStrings, Nat, F)
  <2>1. Closed(OctetStrings, Nat, F)
    BY <1>3 DEF Closed
  <2> HIDE DEF size, F
  <2>2. Sized(OctetStrings, size)
    BY <1>1 DEF Sized
  <2>3. QED
    BY <1>4, <2>1, <2>2, RecursiveFunction
<1>6. PICK f \in [OctetStrings -> Nat] : \A s \in OctetStrings : f[s] = NumberBody(f, s)
  BY <1>2, <1>5 DEF Exists
<1>7. f = [s \in OctetStrings |-> NumberBody(f, s)]
  BY <1>6
<1>8. Number = CHOOSE g : g = [s \in OctetStrings |-> NumberBody(g, s)]
  BY DEF Number, NumberBody, Front, OctetStrings
<1>9. Number = [s \in OctetStrings |-> NumberBody(Number, s)]
  BY <1>7, <1>8
<1>10. \A s \in OctetStrings : Number[s] = NumberBody(Number, s)
  BY <1>9
<1>11. Number \in [OctetStrings -> Nat]
  <2>1. ASSUME NEW s \in OctetStrings, \A t \in OctetStrings : size[t] < size[s] => Number[t] \in Nat
        PROVE  Number[s] \in Nat
    <3>1. CASE s = <<>>
      BY <1>10, <3>1 DEF NumberBody
    <3>2. CASE s # <<>>
      <4>1. Front(s) \in OctetStrings /\ size[Front(s)] < size[s]
        BY <1>a, <3>2
      <4>a. Number[Front(s)] \in Nat
        BY <2>1, <4>1
      <4>b. s[Len(s)] \in Nat
        BY <3>2, LastOctet
      <4>2. Number[s] = Number[Front(s)] * 256 + s[Len(s)]
        BY <1>10, <3>2 DEF NumberBody
      <4>3. QED
        BY <4>a, <4>b, <4>2
    <3>3. QED
      BY <3>1, <3>2
  <2>2. Number = [s \in OctetStrings |-> Number[s]]
    BY <1>9, <1>10
  <2> HIDE DEF size
  <2>3. Sized(OctetStrings, size) /\ Hereditary(OctetStrings, Nat, size, Number)
    BY <1>1, <2>1 DEF Sized, Hereditary
  <2>4. QED
    BY ZenonT(20), <2>2, <2>3, RecursiveType
<1>12. <<>> \in OctetStrings
  BY EmptySeq DEF OctetStrings
<1>13. QED
  BY <1>10, <1>11, <1>12 DEF NumberBody

BaseBody(g, n) == IF n < 256 THEN <<n>> ELSE Append(g[n \div 256], n % 256)

LEMMA Halves ==
  ASSUME NEW n \in Nat
  PROVE  /\ n \div 256 \in Nat /\ n % 256 \in Byte /\ n = 256 * (n \div 256) + (n % 256)
         /\ n >= 256 => n \div 256 < n /\ n \div 256 > 0
  BY DEF Byte

(* So does Base256. *)
LEMMA BaseEquation ==
  /\ Base256 \in [Nat -> OctetStrings]
  /\ \A n \in Nat : n < 256 => Base256[n] = <<n>>
  /\ \A n \in Nat : n >= 256 => Base256[n] = Append(Base256[n \div 256], n % 256)
<1> DEFINE size == [n \in Nat |-> n]
           F == [n \in Nat |-> [g \in [Nat -> OctetStrings] |-> BaseBody(g, n)]]
<1>1. size \in [Nat -> Nat]
  OBVIOUS
<1>a. \A n \in Nat : n >= 256 => n \div 256 \in Nat /\ size[n \div 256] < size[n]
  BY Halves
<1>2. \A n \in Nat : \A g \in [Nat -> OctetStrings] : F[n][g] = BaseBody(g, n)
  OBVIOUS
<1>b. ASSUME NEW n \in Nat, NEW s, n >= 256 => s \in OctetStrings
      PROVE  (IF n < 256 THEN <<n>> ELSE Append(s, n % 256)) \in OctetStrings
  <2>1. CASE n < 256
    <3>1. n \in Byte
      BY <2>1 DEF Byte
    <3>2. QED
      BY <2>1, <3>1 DEF OctetStrings
  <2>2. CASE n >= 256
    <3>1. n % 256 \in Byte /\ ~(n < 256)
      BY <2>2 DEF Byte
    <3>2. Append(s, n % 256) \in OctetStrings
      BY <1>b, <2>2, <3>1, AppendProperties DEF OctetStrings
    <3>3. QED
      BY <3>1, <3>2
  <2>3. QED
    BY <2>1, <2>2
<1>3. \A n \in Nat : \A g \in [Nat -> OctetStrings] : F[n][g] \in OctetStrings
  <2> SUFFICES ASSUME NEW n \in Nat, NEW g \in [Nat -> OctetStrings]
               PROVE  BaseBody(g, n) \in OctetStrings
    BY <1>2
  <2>1. n >= 256 => g[n \div 256] \in OctetStrings
    BY Halves
  <2> HIDE DEF size, F
  <2>2. QED
    BY <1>b, <2>1 DEF BaseBody
<1>4. Causal(Nat, OctetStrings, size, F)
  <2> SUFFICES ASSUME NEW n \in Nat, NEW g \in [Nat -> OctetStrings], NEW h \in [Nat -> OctetStrings],
                      \A m \in Nat : size[m] < size[n] => g[m] = h[m]
               PROVE  BaseBody(g, n) = BaseBody(h, n)
    BY <1>2 DEF Causal
  <2>1. n >= 256 => g[n \div 256] = h[n \div 256]
    BY <1>a
  <2>2. QED
    BY <2>1 DEF BaseBody
<1>5. Exists(Nat, OctetStrings, F)
  <2>0. OctetStrings # {}
    BY EmptySeq DEF OctetStrings
  <2>1. Closed(Nat, OctetStrings, F)
    BY <1>3, <2>0 DEF Closed
  <2> HIDE DEF size, F
  <2>2. Sized(Nat, size)
    BY <1>1 DEF Sized
  <2>3. QED
    BY <1>4, <2>1, <2>2, RecursiveFunction
<1>6. PICK f \in [Nat -> OctetStrings] : \A n \in Nat : f[n] = BaseBody(f, n)
  BY <1>2, <1>5 DEF Exists
<1>7. f = [n \in Nat |-> BaseBody(f, n)]
  BY <1>6
<1>8. Base256 = CHOOSE g : g = [n \in Nat |-> BaseBody(g, n)]
  BY DEF Base256, BaseBody
<1>9. Base256 = [n \in Nat |-> BaseBody(Base256, n)]
  BY <1>7, <1>8
<1>10. \A n \in Nat : Base256[n] = BaseBody(Base256, n)
  BY <1>9
<1>11. Base256 \in [Nat -> OctetStrings]
  <2>1. ASSUME NEW n \in Nat, \A m \in Nat : size[m] < size[n] => Base256[m] \in OctetStrings
        PROVE  Base256[n] \in OctetStrings
    <3>1. n >= 256 => Base256[n \div 256] \in OctetStrings
      BY <1>a, <2>1
    <3>2. BaseBody(Base256, n) \in OctetStrings
      <4> HIDE DEF size, F
      <4>1. QED
        BY <1>b, <3>1 DEF BaseBody
    <3> HIDE DEF size, F
    <3>3. QED
      BY <1>10, <3>2
  <2>2. Base256 = [n \in Nat |-> Base256[n]]
    BY <1>9, <1>10
  <2> HIDE DEF size
  <2>3. Sized(Nat, size) /\ Hereditary(Nat, OctetStrings, size, Base256)
    BY <1>1, <2>1 DEF Sized, Hereditary
  <2>4. QED
    BY ZenonT(20), <2>2, <2>3, RecursiveType
<1>12. \A n \in Nat : n < 256 => Base256[n] = <<n>>
  BY <1>10 DEF BaseBody
<1>13. \A n \in Nat : n >= 256 => Base256[n] = Append(Base256[n \div 256], n % 256)
  <2>1. \A n \in Nat : n >= 256 => ~(n < 256)
    OBVIOUS
  <2>2. QED
    BY <1>10, <2>1 DEF BaseBody
<1>14. QED
  BY <1>11, <1>12, <1>13

-----------------------------------------------------------------------------
(* What the card reads                                                     *)

Tags == {"INTEGER", "ENUMERATED", "BOOLEAN", "OCTET-STRING", "SEQUENCE", "CHOICE", "END",
         "UNKNOWN"}
ElementSeqs == Seq([tag : Tags, v : Seq(Int)])

LEMMA Drops ==
  ASSUME NEW s \in OctetStrings, NEW n \in 1..Len(s)
  PROVE  Drop(s, n) \in OctetStrings /\ Len(Drop(s, n)) = Len(s) - n
<1>1. Len(s) \in Nat /\ n \in Nat /\ n <= Len(s) /\ n + 1 \in Nat \ {0}
  BY OctetAt
<1>2. Drop(s, n) \in OctetStrings
  BY <1>1, SubOctets DEF Drop
<1>3. Len(Drop(s, n)) = IF n + 1 <= Len(s) THEN Len(s) - (n + 1) + 1 ELSE 0
  BY <1>1, SubOctets DEF Drop
<1>4. \A l, k \in Nat : k <= l => (IF k + 1 <= l THEN l - (k + 1) + 1 ELSE 0) = l - k
  OBVIOUS
<1>5. QED
  BY ZenonT(20), <1>1, <1>2, <1>3, <1>4

LEMMA SizesTyped ==
  ASSUME NEW s \in OctetStrings, Len(s) >= 2, 1 + SizeOctets(s) <= Len(s)
  PROVE  /\ SizeOctets(s) \in Nat /\ SizeOctets(s) >= 1
         /\ ContentSize(s) \in Nat
         /\ WholeSize(s) \in Nat /\ WholeSize(s) >= 2
<1>1. Len(s) \in Nat /\ 2 \in 1..Len(s)
  BY OctetAt
<1>2. s[2] \in Byte
  BY <1>1, OctetAt
<1>3. SizeOctets(s) \in Nat /\ SizeOctets(s) >= 1
  <2>1. \A x \in Byte : (IF x < 128 THEN 1 ELSE x - 127) \in {n \in Nat : n >= 1}
    BY DEF Byte
  <2>2. SizeOctets(s) \in {n \in Nat : n >= 1}
    BY ZenonT(20), <1>2, <2>1 DEF SizeOctets
  <2>3. QED
    BY <2>2
<1>4. ContentSize(s) \in Nat
  <2>1. CASE SizeOctets(s) = 1
    BY ZenonT(20), <1>2, <2>1, OctetIsNat DEF ContentSize
  <2>2. CASE SizeOctets(s) # 1
    <3>1. SizeOctets(s) + 1 \in Nat /\ SizeOctets(s) + 1 <= Len(s) /\ 3 \in Nat \ {0}
      BY <1>1, <1>3
    <3>2. SubSeq(s, 3, SizeOctets(s) + 1) \in OctetStrings
      BY <3>1, SubOctets
    <3>3. Number[SubSeq(s, 3, SizeOctets(s) + 1)] \in Nat
      BY <3>2, NumberEquation
    <3>4. QED
      BY <2>2, <3>3 DEF ContentSize
  <2>3. QED
    BY <2>1, <2>2
<1>5. QED
  BY <1>3, <1>4 DEF WholeSize

LEMMA ReadsInteger ==
  ASSUME NEW s \in OctetStrings
  PROVE  OctetsInteger(s) \in Int
<1>1. Number[s] \in Nat
  BY NumberEquation
<1>2. [i \in DOMAIN s |-> 255 - s[i]] \in OctetStrings
  <2>1. Len(s) \in Nat /\ DOMAIN s = 1..Len(s) /\ \A i \in 1..Len(s) : s[i] \in Byte
    BY OctetAt
  <2>0. \A x \in Byte : 255 - x \in Byte
    BY DEF Byte
  <2>2. \A i \in 1..Len(s) : 255 - s[i] \in Byte
    BY ZenonT(20), <2>0, <2>1
  <2>3. [i \in DOMAIN s |-> 255 - s[i]] \in [1..Len(s) -> Byte]
    BY <2>1, <2>2
  <2>4. QED
    BY <2>1, <2>3 DEF OctetStrings
<1>3. Number[[i \in DOMAIN s |-> 255 - s[i]]] \in Nat
  BY <1>2, NumberEquation
<1>4. QED
  BY <1>1, <1>3 DEF OctetsInteger

LEMMA ElementTyped ==
  ASSUME NEW tag \in Tags, NEW v \in Seq(Int)
  PROVE  Element(tag, v) \in ElementSeqs
  BY DEF Element, ElementSeqs

LEMMA OctetsAreInts == ASSUME NEW s \in OctetStrings PROVE s \in Seq(Int)
<1>1. Len(s) \in Nat /\ DOMAIN s = 1..Len(s) /\ \A i \in 1..Len(s) : s[i] \in Byte
  BY OctetAt
<1>a. \A x \in Byte : x \in Int
  BY DEF Byte
<1>b. s \in [1..Len(s) -> Byte] /\ \A i \in 1..Len(s) : s[i] \in Int
  BY ZenonT(20), <1>1, <1>a, OctetAt
<1>2. s \in [1..Len(s) -> Int]
  BY ZenonT(20), <1>b
<1>3. QED
  BY <1>1, <1>2

LEMMA ElementOfTyped ==
  ASSUME NEW id \in Int, NEW s \in OctetStrings
  PROVE  ElementOf(id, s) \in ElementSeqs
<1>1. OctetsInteger(s) \in Int /\ s \in Seq(Int)
  BY ReadsInteger, OctetsAreInts
<1>2. <<OctetsInteger(s)>> \in Seq(Int) /\ <<IF s[1] = 0 THEN 0 ELSE 1>> \in Seq(Int) /\ <<id>> \in Seq(Int)
  BY <1>1
<1>3. /\ INTEGER(OctetsInteger(s)) \in ElementSeqs /\ ENUMERATED(OctetsInteger(s)) \in ElementSeqs
      /\ BOOLEAN_(IF s[1] = 0 THEN 0 ELSE 1) \in ElementSeqs
      /\ OCTET_STRING(s) \in ElementSeqs /\ Element("UNKNOWN", <<id>>) \in ElementSeqs
  <2>1. /\ "INTEGER" \in Tags /\ "ENUMERATED" \in Tags /\ "BOOLEAN" \in Tags
        /\ "OCTET-STRING" \in Tags /\ "UNKNOWN" \in Tags
    BY DEF Tags
  <2>2. QED
    BY ZenonT(30), <1>1, <1>2, <2>1, ElementTyped DEF INTEGER, ENUMERATED, BOOLEAN_, OCTET_STRING
<1>4. QED
  BY <1>3 DEF ElementOf


Cut(s)  == 1 + SizeOctets(s) > Len(s) \/ WholeSize(s) > Len(s)
FirstElement(s) == ElementOf(s[1], SubSeq(s, 2 + SizeOctets(s), WholeSize(s)))

ElementsBody(g, s) ==
  IF s = <<>> THEN <<>>
  ELSE IF Len(s) = 1 THEN Element("UNKNOWN", s)
  ELSE CASE s[1] = 0 /\ s[2] = 0    -> Element("END", <<>>) \o g[Drop(s, 2)]
         [] s[1] = 48 /\ s[2] = 128 -> Element("SEQUENCE", <<>>) \o g[Drop(s, 2)]
         [] s[1] \in 160..190 /\ s[2] = 128 ->
              Element("CHOICE", <<s[1] - 160>>) \o g[Drop(s, 2)]
         [] OTHER -> IF Cut(s) THEN Element("UNKNOWN", s)
                     ELSE FirstElement(s) \o g[Drop(s, WholeSize(s))]

(* The octets that are left have been read by g.                           *)
LEMMA Rests ==
  ASSUME NEW s \in OctetStrings, s # <<>>, Len(s) # 1
  PROVE  /\ Drop(s, 2) \in OctetStrings /\ Len(Drop(s, 2)) < Len(s)
         /\ ~Cut(s) => /\ Drop(s, WholeSize(s)) \in OctetStrings
                       /\ Len(Drop(s, WholeSize(s))) < Len(s)
<1>1. Len(s) \in Nat /\ Len(s) > 0
  BY OctetAt
<1>a. \A l \in Nat : l > 0 /\ l # 1 => l >= 2 /\ 2 \in 1..l /\ l - 2 < l
  OBVIOUS
<1>2. Len(s) >= 2 /\ 2 \in 1..Len(s) /\ Len(s) - 2 < Len(s)
  BY ZenonT(20), <1>1, <1>a
<1>3. Drop(s, 2) \in OctetStrings /\ Len(Drop(s, 2)) < Len(s)
  BY <1>2, Drops
<1>4. ASSUME ~Cut(s)
      PROVE  /\ Drop(s, WholeSize(s)) \in OctetStrings
             /\ Len(Drop(s, WholeSize(s))) < Len(s)
  <2>1. ~(1 + SizeOctets(s) > Len(s)) /\ ~(WholeSize(s) > Len(s))
    BY <1>4 DEF Cut
  <2>a. s[2] \in Byte
    BY <1>2, OctetAt
  <2>b. \A x \in Byte : (IF x < 128 THEN 1 ELSE x - 127) \in Nat
    BY DEF Byte
  <2>2. SizeOctets(s) \in Nat
    BY ZenonT(20), <2>a, <2>b DEF SizeOctets
  <2>3. 1 + SizeOctets(s) <= Len(s)
    BY <1>1, <2>1, <2>2
  <2>4. WholeSize(s) \in Nat /\ WholeSize(s) >= 2
    BY <1>2, <2>3, SizesTyped
  <2>5. WholeSize(s) \in 1..Len(s) /\ Len(s) - WholeSize(s) < Len(s)
    BY <1>1, <2>1, <2>4
  <2>6. QED
    BY <2>5, Drops
<1>5. QED
  BY <1>3, <1>4

(* And so does Elements. *)
LEMMA ElementsEquation ==
  /\ Elements \in [OctetStrings -> ElementSeqs]
  /\ \A s \in OctetStrings : Elements[s] = ElementsBody(Elements, s)
<1> DEFINE size == [s \in OctetStrings |-> Len(s)]
           F == [s \in OctetStrings |-> [g \in [OctetStrings -> ElementSeqs] |-> ElementsBody(g, s)]]
<1>1. size \in [OctetStrings -> Nat]
  BY DEF OctetStrings
<1>a. ASSUME NEW s \in OctetStrings, s # <<>>, Len(s) # 1
      PROVE  /\ Drop(s, 2) \in OctetStrings /\ size[Drop(s, 2)] < size[s]
             /\ ~Cut(s) => /\ Drop(s, WholeSize(s)) \in OctetStrings
                           /\ size[Drop(s, WholeSize(s))] < size[s]
  BY <1>a, Rests
<1>2. \A s \in OctetStrings : \A g \in [OctetStrings -> ElementSeqs] : F[s][g] = ElementsBody(g, s)
  OBVIOUS
<1>b. ASSUME NEW s \in OctetStrings, NEW g,
             s # <<>> /\ Len(s) # 1 => /\ g[Drop(s, 2)] \in ElementSeqs
                                       /\ ~Cut(s) => g[Drop(s, WholeSize(s))] \in ElementSeqs
      PROVE  ElementsBody(g, s) \in ElementSeqs
  <2> HIDE DEF size, F
  <2>a. \A a, b \in ElementSeqs : a \o b \in ElementSeqs
    BY ConcatProperties DEF ElementSeqs
  <2>1. CASE s = <<>>
    <3>1. <<>> \in ElementSeqs
      BY EmptySeq DEF ElementSeqs
    <3>2. QED
      BY ZenonT(20), <2>1, <3>1 DEF ElementsBody
  <2>2. CASE s # <<>> /\ Len(s) = 1
    <3>1. s \in Seq(Int) /\ "UNKNOWN" \in Tags
      BY OctetsAreInts DEF Tags
    <3>2. Element("UNKNOWN", s) \in ElementSeqs
      BY <3>1, ElementTyped
    <3>3. QED
      BY ZenonT(20), <2>2, <3>2 DEF ElementsBody
  <2>3. CASE s # <<>> /\ Len(s) # 1
    <3>0. "END" \in Tags /\ "SEQUENCE" \in Tags /\ "CHOICE" \in Tags /\ "UNKNOWN" \in Tags
      BY DEF Tags
    <3>1. Len(s) \in Nat /\ 1 \in 1..Len(s)
      BY <2>3, OctetAt
    <3>2. s[1] \in Byte
      BY <3>1, OctetAt
    <3>3. s[1] \in Int /\ <<s[1] - 160>> \in Seq(Int) /\ <<>> \in Seq(Int)
      <4>1. \A x \in Byte : x \in Int /\ <<x - 160>> \in Seq(Int)
        BY DEF Byte
      <4>2. QED
        BY <3>2, <4>1, EmptySeq
    <3>4. /\ Element("END", <<>>) \in ElementSeqs /\ Element("SEQUENCE", <<>>) \in ElementSeqs
          /\ Element("CHOICE", <<s[1] - 160>>) \in ElementSeqs
      BY ZenonT(20), <3>0, <3>3, ElementTyped
    <3>5. s \in Seq(Int)
      BY OctetsAreInts
    <3>6. Element("UNKNOWN", s) \in ElementSeqs
      BY <3>0, <3>5, ElementTyped
    <3>7. ASSUME ~Cut(s) PROVE FirstElement(s) \in ElementSeqs
      <4>1. SubSeq(s, 2 + SizeOctets(s), WholeSize(s)) \in OctetStrings
        <5>0. \A l \in Nat : 1 \in 1..l /\ l # 1 => l >= 2 /\ 2 \in 1..l
          OBVIOUS
        <5>1. Len(s) >= 2 /\ 2 \in 1..Len(s)
          BY ZenonT(20), <2>3, <3>1, <5>0
        <5>a. s[2] \in Byte
          BY <5>1, OctetAt
        <5>b. \A x \in Byte : (IF x < 128 THEN 1 ELSE x - 127) \in Nat
          BY DEF Byte
        <5>2. SizeOctets(s) \in Nat
          BY ZenonT(20), <5>a, <5>b DEF SizeOctets
        <5>3. 1 + SizeOctets(s) <= Len(s)
          BY <3>1, <3>7, <5>2 DEF Cut
        <5>4. WholeSize(s) \in Nat
          BY <5>1, <5>3, SizesTyped
        <5>5. WholeSize(s) <= Len(s)
          BY <3>1, <3>7, <5>4 DEF Cut
        <5>6. 2 + SizeOctets(s) \in Nat \ {0}
          BY <5>2
        <5>7. QED
          BY <5>4, <5>5, <5>6, SubOctets
      <4>2. QED
        BY <3>3, <4>1, ElementOfTyped DEF FirstElement
    <3>8. QED
      BY ZenonT(40), <2>a, <2>3, <3>4, <3>6, <3>7, <1>b DEF ElementsBody
  <2>4. QED
    BY <2>1, <2>2, <2>3
<1>3. \A s \in OctetStrings : \A g \in [OctetStrings -> ElementSeqs] : F[s][g] \in ElementSeqs
  <2> SUFFICES ASSUME NEW s \in OctetStrings, NEW g \in [OctetStrings -> ElementSeqs]
               PROVE  ElementsBody(g, s) \in ElementSeqs
    BY <1>2
  <2> HIDE DEF size, F
  <2>1. QED
    BY <1>a, <1>b
<1>4. Causal(OctetStrings, ElementSeqs, size, F)
  <2> SUFFICES ASSUME NEW s \in OctetStrings,
                      NEW g \in [OctetStrings -> ElementSeqs], NEW h \in [OctetStrings -> ElementSeqs],
                      \A t \in OctetStrings : size[t] < size[s] => g[t] = h[t]
               PROVE  ElementsBody(g, s) = ElementsBody(h, s)
    BY <1>2 DEF Causal
  <2> HIDE DEF size, F
  <2>1. s # <<>> /\ Len(s) # 1 =>
          /\ g[Drop(s, 2)] = h[Drop(s, 2)]
          /\ ~Cut(s) => g[Drop(s, WholeSize(s))] = h[Drop(s, WholeSize(s))]
    BY <1>a
  <2>2. CASE s = <<>> \/ Len(s) = 1
    BY ZenonT(20), <2>2 DEF ElementsBody
  <2>3. CASE s # <<>> /\ Len(s) # 1 /\ Cut(s)
    BY <2>1, <2>3 DEF ElementsBody
  <2>4. CASE s # <<>> /\ Len(s) # 1 /\ ~Cut(s)
    BY <2>1, <2>4 DEF ElementsBody
  <2>5. QED
    BY <2>2, <2>3, <2>4
<1>5. Exists(OctetStrings, ElementSeqs, F)
  <2>0. ElementSeqs # {}
    BY EmptySeq DEF ElementSeqs
  <2>1. Closed(OctetStrings, ElementSeqs, F)
    BY <1>3, <2>0 DEF Closed
  <2> HIDE DEF size, F
  <2>2. Sized(OctetStrings, size)
    BY <1>1 DEF Sized
  <2>3. QED
    BY <1>4, <2>1, <2>2, RecursiveFunction
<1>6. PICK f \in [OctetStrings -> ElementSeqs] : \A s \in OctetStrings : f[s] = ElementsBody(f, s)
  BY <1>2, <1>5 DEF Exists
<1>7. f = [s \in OctetStrings |-> ElementsBody(f, s)]
  BY <1>6
<1>8. Elements = CHOOSE g : g = [s \in OctetStrings |-> ElementsBody(g, s)]
  BY DEF Elements, ElementsBody, Cut, FirstElement
<1>9. Elements = [s \in OctetStrings |-> ElementsBody(Elements, s)]
  BY <1>7, <1>8
<1>10. \A s \in OctetStrings : Elements[s] = ElementsBody(Elements, s)
  BY <1>9
<1>11. Elements \in [OctetStrings -> ElementSeqs]
  <2>1. ASSUME NEW s \in OctetStrings, \A t \in OctetStrings : size[t] < size[s] => Elements[t] \in ElementSeqs
        PROVE  Elements[s] \in ElementSeqs
    <3>1. s # <<>> /\ Len(s) # 1 =>
            /\ Elements[Drop(s, 2)] \in ElementSeqs
            /\ ~Cut(s) => Elements[Drop(s, WholeSize(s))] \in ElementSeqs
      <4> HIDE DEF size, F
      <4>1. QED
        BY <1>a, <2>1
    <3> HIDE DEF size, F
    <3>2. ElementsBody(Elements, s) \in ElementSeqs
      BY <1>b, <3>1
    <3>3. QED
      BY <1>10, <3>2
  <2>2. Elements = [s \in OctetStrings |-> Elements[s]]
    BY <1>9, <1>10
  <2> HIDE DEF size, F
  <2>3. Sized(OctetStrings, size) /\ Hereditary(OctetStrings, ElementSeqs, size, Elements)
    BY <1>1, <2>1 DEF Sized, Hereditary
  <2>4. QED
    BY ZenonT(20), <2>2, <2>3, RecursiveType
<1>12. QED
  BY <1>10, <1>11

-----------------------------------------------------------------------------
(* Numbers and their octets                                                *)

LEMMA Appended ==
  ASSUME NEW s \in OctetStrings, NEW x \in Byte
  PROVE  /\ Append(s, x) \in OctetStrings /\ Append(s, x) # <<>>
         /\ Len(Append(s, x)) = Len(s) + 1
         /\ Append(s, x)[Len(s) + 1] = x
         /\ Front(Append(s, x)) = s
<1>1. /\ Append(s, x) \in OctetStrings /\ Append(s, x) # <<>>
      /\ Len(Append(s, x)) = Len(s) + 1
      /\ Append(s, x)[Len(s) + 1] = x
      /\ \A i \in 1..Len(s) : Append(s, x)[i] = s[i]
  BY AppendProperties DEF OctetStrings
<1>2. Len(s) \in Nat
  BY OctetAt
<1> DEFINE t == Append(s, x)
<1>3. /\ Front(t) \in OctetStrings /\ Len(Front(t)) = Len(t) - 1
      /\ \A i \in 1..(Len(t) - 1) : Front(t)[i] = t[i]
  BY <1>1, Fronts
<1>a. \A m : \A n \in Nat : m = n + 1 => m - 1 = n
  OBVIOUS
<1>b. Len(t) = Len(s) + 1
  BY <1>1
<1>4. Len(t) - 1 = Len(s)
  <2> HIDE DEF t
  <2>1. QED
    BY ZenonT(20), <1>b, <1>2, <1>a
<1>5. Front(t) = s
  <2>1. Front(t) \in Seq(Byte) /\ s \in Seq(Byte) /\ Len(Front(t)) = Len(s)
    BY <1>3, <1>4 DEF OctetStrings
  <2>2. \A i \in 1..Len(Front(t)) : Front(t)[i] = s[i]
    BY <1>1, <1>3, <1>4
  <2> HIDE DEF t
  <2>3. QED
    BY <2>1, <2>2, SeqEqual
<1>6. QED
  BY <1>1, <1>5

LEMMA NumberAppend ==
  ASSUME NEW s \in OctetStrings, NEW x \in Byte
  PROVE  Number[Append(s, x)] = Number[s] * 256 + x
<1>1. /\ Append(s, x) \in OctetStrings /\ Append(s, x) # <<>>
      /\ Len(Append(s, x)) = Len(s) + 1 /\ Append(s, x)[Len(s) + 1] = x
      /\ Front(Append(s, x)) = s
  BY Appended
<1> DEFINE t == Append(s, x)
<1>2. Number[t] = Number[Front(t)] * 256 + t[Len(t)]
  BY <1>1, NumberEquation
<1>3. QED
  BY <1>1, <1>2

LEMMA NumberBase ==
  \A n \in Nat : Base256[n] \in OctetStrings /\ Base256[n] # <<>> /\ Number[Base256[n]] = n
<1> DEFINE P(n) == Base256[n] \in OctetStrings /\ Base256[n] # <<>> /\ Number[Base256[n]] = n
           S == {k \in Nat : \A n \in Nat : n < k => P(n)}
<1>1. 0 \in S
  OBVIOUS
<1>2. ASSUME NEW k \in Nat, k \in S PROVE k + 1 \in S
  <2> SUFFICES ASSUME NEW n \in Nat, n < k + 1 PROVE P(n)
    OBVIOUS
  <2>1. CASE n < 256
    <3>1. Base256[n] = <<n>> /\ n \in Byte
      BY <2>1, BaseEquation DEF Byte
    <3>2. <<>> \in OctetStrings /\ Append(<<>>, n) = <<n>>
      BY EmptySeq DEF OctetStrings
    <3>a. Number[Append(<<>>, n)] = Number[<<>>] * 256 + n
      BY <3>1, <3>2, NumberAppend
    <3>b. Append(<<>>, n) \in OctetStrings /\ Append(<<>>, n) # <<>>
      BY <3>1, <3>2, Appended
    <3>3. Number[<<n>>] = Number[<<>>] * 256 + n /\ <<n>> \in OctetStrings /\ <<n>> # <<>>
      BY <3>2, <3>a, <3>b
    <3>4. Number[<<n>>] = n
      BY <3>3, NumberEquation
    <3>5. QED
      BY ZenonT(20), <3>1, <3>3, <3>4
  <2>2. CASE n >= 256
    <3> DEFINE q == n \div 256
               r == n % 256
    <3>1. q \in Nat /\ r \in Byte /\ n = 256 * q + r /\ q < n
      BY <2>2, Halves
    <3>2. Base256[n] = Append(Base256[q], r)
      BY <2>2, BaseEquation
    <3> HIDE DEF q, r
    <3>3. P(q)
      BY <1>2, <3>1
    <3>a. Number[Append(Base256[q], r)] = Number[Base256[q]] * 256 + r
      BY <3>1, <3>3, NumberAppend
    <3>4. /\ Append(Base256[q], r) \in OctetStrings /\ Append(Base256[q], r) # <<>>
          /\ Number[Append(Base256[q], r)] = Number[Base256[q]] * 256 + r
      BY <3>1, <3>3, <3>a, Appended
    <3>5. q * 256 + r = n
      BY <3>1
    <3>6. QED
      BY ZenonT(20), <3>2, <3>3, <3>4, <3>5
  <2>3. QED
    BY <2>1, <2>2
<1>3. \A k \in Nat : k \in S
  <2> HIDE DEF S
  <2>1. QED
    BY <1>1, <1>2, SetInduction
<1>4. ASSUME NEW n \in Nat PROVE P(n)
  <2>1. n + 1 \in S
    <3> HIDE DEF S
    <3>1. QED
      BY <1>3
  <2>2. n < n + 1
    OBVIOUS
  <2> HIDE DEF P
  <2>3. QED
    BY <2>1, <2>2
<1>5. QED
  BY <1>4


LEMMA Joined ==
  ASSUME NEW s \in OctetStrings, NEW t \in OctetStrings
  PROVE  /\ s \o t \in OctetStrings
         /\ Len(s \o t) = Len(s) + Len(t)
         /\ \A i \in 1..Len(s) : (s \o t)[i] = s[i]
         /\ \A i \in 1..Len(t) : (s \o t)[Len(s) + i] = t[i]
<1>1. /\ s \o t \in OctetStrings
      /\ Len(s \o t) = Len(s) + Len(t)
      /\ \A i \in 1..(Len(s) + Len(t)) : (s \o t)[i] = IF i <= Len(s) THEN s[i] ELSE t[i - Len(s)]
  BY ConcatProperties DEF OctetStrings
<1>2. Len(s) \in Nat /\ Len(t) \in Nat
  BY OctetAt
<1>3. ASSUME NEW i \in 1..Len(s) PROVE (s \o t)[i] = s[i]
  <2>1. i \in 1..(Len(s) + Len(t)) /\ i <= Len(s)
    BY <1>2
  <2>2. QED
    BY ZenonT(20), <1>1, <2>1
<1>4. ASSUME NEW i \in 1..Len(t) PROVE (s \o t)[Len(s) + i] = t[i]
  <2> DEFINE l == Len(s) + i
  <2>1. l \in 1..(Len(s) + Len(t)) /\ ~(l <= Len(s)) /\ l - Len(s) = i
    BY <1>2
  <2> HIDE DEF l
  <2>2. (s \o t)[l] = t[l - Len(s)]
    BY ZenonT(20), <1>1, <2>1
  <2>3. QED
    BY <2>1, <2>2 DEF l
<1>5. QED
  BY <1>1, <1>3, <1>4

LEMMA LenOfOctets ==
  ASSUME NEW n \in Nat, NEW s, s \in [1..n -> Byte]
  PROVE  s \in Seq(Byte) /\ Len(s) = n
  BY DEF Byte

LEMMA OctetsEqual ==
  ASSUME NEW s \in OctetStrings, NEW t \in OctetStrings, Len(s) = Len(t),
         \A i \in 1..Len(s) : s[i] = t[i]
  PROVE  s = t
  BY SeqEqual DEF OctetStrings

LEMMA OneOctet ==
  ASSUME NEW x \in Byte
  PROVE  <<x>> \in OctetStrings /\ Len(<<x>>) = 1 /\ <<x>>[1] = x
  BY DEF OctetStrings

Octet(x) == <<x>>

LEMMA OctetAlone ==
  ASSUME NEW x \in Byte
  PROVE  Octet(x) \in OctetStrings /\ Len(Octet(x)) = 1 /\ Octet(x)[1] = x
BY OneOctet DEF Octet

LEMMA NumberPadded ==
  \A s \in OctetStrings : Number[<<0>> \o s] = Number[s]
<1> DEFINE S == {k \in Nat : \A s \in OctetStrings : Len(s) = k => Number[<<0>> \o s] = Number[s]}
<1>z. 0 \in Byte
  BY DEF Byte
<1>0. <<0>> \in OctetStrings /\ Len(<<0>>) = 1 /\ <<0>>[1] = 0
  BY <1>z, OneOctet
<1>1. 0 \in S
  <2> SUFFICES ASSUME NEW s \in OctetStrings, Len(s) = 0 PROVE Number[<<0>> \o s] = Number[s]
    OBVIOUS
  <2>1. s = <<>>
    BY EmptySeq DEF OctetStrings
  <2>2. <<0>> \o <<>> = <<0>>
    BY <1>0, ConcatEmptySeq DEF OctetStrings
  <2>3. Base256[0] = <<0>> /\ Number[Base256[0]] = 0
    BY BaseEquation, NumberBase
  <2>4. QED
    BY <2>1, <2>2, <2>3, NumberEquation
<1>2. ASSUME NEW k \in Nat, k \in S PROVE k + 1 \in S
  <2> SUFFICES ASSUME NEW s \in OctetStrings, Len(s) = k + 1 PROVE Number[<<0>> \o s] = Number[s]
    OBVIOUS
  <2> DEFINE t == <<0>> \o s
             a == <<0>> \o Front(s)
  <2>0. s # <<>> /\ Len(s) - 1 = k
    BY EmptySeq DEF OctetStrings
  <2>1. Front(s) \in OctetStrings /\ Len(Front(s)) = k /\ \A i \in 1..k : Front(s)[i] = s[i]
    BY <2>0, Fronts
  <2>2. Number[a] = Number[Front(s)]
    BY <1>2, <2>1
  <2>3. /\ t \in OctetStrings /\ Len(t) = 1 + Len(s) /\ \A i \in 1..1 : t[i] = <<0>>[i]
        /\ \A i \in 1..Len(s) : t[1 + i] = s[i]
    BY <1>0, Joined
  <2>4. /\ a \in OctetStrings /\ Len(a) = 1 + k /\ \A i \in 1..1 : a[i] = <<0>>[i]
        /\ \A i \in 1..k : a[1 + i] = Front(s)[i]
    BY <1>0, <2>1, Joined
  <2> HIDE DEF t, a
  <2>5. Len(t) = k + 2 /\ Len(a) = k + 1 /\ t # <<>>
    BY <2>3, <2>4, EmptySeq
  <2>6. /\ Front(t) \in OctetStrings /\ Len(Front(t)) = k + 1
        /\ \A i \in 1..(k + 1) : Front(t)[i] = t[i]
    <3>1. Len(t) - 1 = k + 1
      BY <2>5
    <3>2. QED
      BY <2>3, <2>5, <3>1, Fronts
  <2>7. Front(t) = a
    <3>1. ASSUME NEW i \in 1..(k + 1) PROVE Front(t)[i] = a[i]
      <4>1. CASE i = 1
        <5>1. 1 \in 1..1 /\ 1 \in 1..(k + 1)
          OBVIOUS
        <5>2. t[1] = a[1]
          BY <2>3, <2>4, <5>1
        <5>3. QED
          BY <2>6, <4>1, <5>1, <5>2
      <4>2. CASE i # 1
        <5> DEFINE j == i - 1
        <5>1. j \in 1..k /\ j \in 1..(k + 1) /\ 1 + j = i
          BY <4>2
        <5> HIDE DEF j
        <5>2. t[1 + j] = s[j] /\ a[1 + j] = s[j]
          BY <2>1, <2>3, <2>4, <5>1
        <5>3. QED
          BY <2>6, <5>1, <5>2
      <4>3. QED
        BY <4>1, <4>2
    <3>2. QED
      BY <2>4, <2>5, <2>6, <3>1, OctetsEqual
  <2>8. t[Len(t)] = s[Len(s)]
    <3>1. k + 1 \in 1..Len(s) /\ 1 + (k + 1) = k + 2
      OBVIOUS
    <3>2. t[1 + (k + 1)] = s[k + 1]
      BY <2>3, <3>1
    <3>3. QED
      BY <2>5, <3>1, <3>2
  <2>9. Number[t] = Number[a] * 256 + s[Len(s)] /\ Number[s] = Number[Front(s)] * 256 + s[Len(s)]
    BY <2>0, <2>3, <2>5, <2>7, <2>8, NumberEquation
  <2>10. QED
    BY <2>2, <2>9 DEF t
<1>3. \A k \in Nat : k \in S
  <2> HIDE DEF S
  <2>1. QED
    BY <1>1, <1>2, SetInduction
<1>4. ASSUME NEW s \in OctetStrings PROVE Number[<<0>> \o s] = Number[s]
  <2>1. Len(s) \in Nat
    BY OctetAt
  <2>2. Len(s) \in S
    <3> HIDE DEF S
    <3>1. QED
      BY <1>3, <2>1
  <2>3. QED
    BY <2>2
<1>5. QED
  BY <1>4


(* Every integer is read back, whatever its sign and its size.             *)
Flip(s) == [i \in DOMAIN s |-> 255 - s[i]]

LEMMA Flipped ==
  ASSUME NEW s \in OctetStrings
  PROVE  /\ Flip(s) \in OctetStrings /\ Len(Flip(s)) = Len(s) /\ Flip(Flip(s)) = s
         /\ \A i \in 1..Len(s) : Flip(s)[i] = 255 - s[i]
<1>1. Len(s) \in Nat /\ DOMAIN s = 1..Len(s) /\ \A i \in 1..Len(s) : s[i] \in Byte
  BY OctetAt
<1>2. \A x \in Byte : 255 - x \in Byte /\ 255 - (255 - x) = x
  BY DEF Byte
<1>3. \A i \in 1..Len(s) : 255 - s[i] \in Byte /\ 255 - (255 - s[i]) = s[i]
  BY ZenonT(20), <1>1, <1>2
<1>4. /\ Flip(s) \in [1..Len(s) -> Byte] /\ DOMAIN Flip(s) = 1..Len(s)
      /\ \A i \in 1..Len(s) : Flip(s)[i] = 255 - s[i]
  BY <1>1, <1>3 DEF Flip
<1>5. Flip(s) \in OctetStrings /\ Len(Flip(s)) = Len(s)
  BY <1>1, <1>4, LenOfOctets DEF OctetStrings
<1>6. Flip(Flip(s)) = s
  <2>1. Flip(Flip(s)) = [i \in 1..Len(s) |-> 255 - Flip(s)[i]]
    BY <1>4 DEF Flip
  <2>2. \A i \in 1..Len(s) : 255 - Flip(s)[i] = s[i]
    BY ZenonT(20), <1>3, <1>4
  <2>3. s = [i \in 1..Len(s) |-> s[i]]
    BY OctetAt
  <2>4. QED
    BY <2>1, <2>2, <2>3
<1>7. QED
  BY <1>4, <1>5, <1>6

LEMMA IntegerRead ==
  ASSUME NEW w \in Int
  PROVE  /\ IntegerOctets(w) \in OctetStrings /\ Len(IntegerOctets(w)) > 0
         /\ OctetsInteger(IntegerOctets(w)) = w
<1> DEFINE n == IF w < 0 THEN -w - 1 ELSE w
           m == Base256[n]
           p == IF m[1] >= 128 THEN <<0>> \o m ELSE m
<1>1. n \in Nat
  OBVIOUS
<1> HIDE DEF n
<1>2. m \in OctetStrings /\ m # <<>> /\ Number[m] = n
  BY <1>1, NumberBase
<1>3. Len(m) \in Nat /\ Len(m) > 0 /\ 1 \in 1..Len(m)
  <2>1. Len(m) \in Nat /\ Len(m) > 0
    BY <1>2, OctetAt
  <2> HIDE DEF m
  <2>2. QED
    BY <2>1
<1>4. m[1] \in Byte
  BY <1>2, <1>3, OctetAt
<1>5. <<0>> \in OctetStrings /\ Len(<<0>>) = 1 /\ <<0>>[1] = 0
  <2>1. 0 \in Byte
    BY DEF Byte
  <2>2. QED
    BY <2>1, OneOctet
<1> HIDE DEF m
<1>6. p \in OctetStrings /\ Len(p) \in Nat /\ Len(p) > 0 /\ Number[p] = n /\ p[1] \in 0..127
  <2>1. CASE m[1] >= 128
    <3>1. /\ <<0>> \o m \in OctetStrings /\ Len(<<0>> \o m) = 1 + Len(m)
          /\ \A i \in 1..1 : (<<0>> \o m)[i] = <<0>>[i]
      BY <1>2, <1>5, Joined
    <3>2. Number[<<0>> \o m] = n
      BY <1>2, NumberPadded
    <3>3. p = <<0>> \o m
      BY <2>1
    <3>4. 1 \in 1..1
      OBVIOUS
    <3>5. (<<0>> \o m)[1] = 0
      BY <1>5, <3>1, <3>4
    <3> HIDE DEF p
    <3>6. p \in OctetStrings /\ Len(p) = 1 + Len(m) /\ Number[p] = n /\ p[1] = 0
      BY <3>1, <3>2, <3>3, <3>5
    <3>7. QED
      BY <1>3, <3>6
  <2>2. CASE ~(m[1] >= 128)
    <3>1. p = m
      BY <2>2
    <3>2. \A x \in Byte : ~(x >= 128) => x \in 0..127
      BY DEF Byte
    <3>3. m[1] \in 0..127
      BY ZenonT(20), <1>4, <2>2, <3>2
    <3>4. QED
      BY <1>2, <1>3, <3>1, <3>3
  <2>3. QED
    BY <2>1, <2>2
<1>7. IntegerOctets(w) = IF w < 0 THEN Flip(p) ELSE p
  BY DEF IntegerOctets, n, m, Flip
<1>a. \A s : OctetsInteger(s) = IF s[1] >= 128 THEN -Number[Flip(s)] - 1 ELSE Number[s]
  BY DEF OctetsInteger, Flip
<1>b. \A x \in 0..127 : ~(x >= 128) /\ 255 - x >= 128
  OBVIOUS
<1> HIDE DEF p
<1>8. CASE w < 0
  <2>1. /\ Flip(p) \in OctetStrings /\ Len(Flip(p)) = Len(p) /\ Flip(Flip(p)) = p
        /\ \A i \in 1..Len(p) : Flip(p)[i] = 255 - p[i]
    BY <1>6, Flipped
  <2>2. 1 \in 1..Len(p)
    BY <1>6
  <2>3. Flip(p)[1] = 255 - p[1]
    BY <2>1, <2>2
  <2>4. Flip(p)[1] >= 128
    BY ZenonT(20), <1>6, <1>b, <2>3
  <2>5. OctetsInteger(Flip(p)) = -Number[Flip(Flip(p))] - 1
    BY ZenonT(20), <1>a, <2>4
  <2>6. -n - 1 = w
    BY <1>8 DEF n
  <2>7. OctetsInteger(Flip(p)) = w
    BY <1>6, <2>1, <2>5, <2>6
  <2>8. QED
    BY <1>6, <1>7, <1>8, <2>1, <2>7
<1>9. CASE ~(w < 0)
  <2>1. ~(p[1] >= 128)
    BY ZenonT(20), <1>6, <1>b
  <2>2. OctetsInteger(p) = Number[p]
    BY ZenonT(20), <1>a, <2>1
  <2>3. n = w
    BY <1>9 DEF n
  <2>4. QED
    BY <1>6, <1>7, <1>9, <2>2, <2>3
<1>10. QED
  BY <1>8, <1>9


-----------------------------------------------------------------------------
(* An element and its octets                                               *)

(* The operators on octet strings, by what is known of them: the provers   *)
(* reason about these names and not about sequences.                       *)
Size(s)        == Len(s)
Cat(s, t)      == s \o t
Piece(s, a, b) == SubSeq(s, a + 1, b)
Holds(s, a, o) == \A i \in 1..Size(o) : s[a + i] = o[i]

LEMMA SizeIsNat ==
  /\ \A s \in OctetStrings : Size(s) \in Nat
  /\ \A x \in Byte : Octet(x) \in OctetStrings /\ Size(Octet(x)) = 1 /\ Octet(x)[1] = x
  /\ <<>> \in OctetStrings /\ Size(<<>>) = 0
<1>1. \A s \in OctetStrings : Size(s) \in Nat
  BY OctetAt DEF Size
<1>2. \A x \in Byte : Octet(x) \in OctetStrings /\ Size(Octet(x)) = 1 /\ Octet(x)[1] = x
  BY OctetAlone DEF Size
<1>3. <<>> \in OctetStrings /\ Size(<<>>) = 0
  BY EmptySeq DEF OctetStrings, Size
<1>4. QED
  BY <1>1, <1>2, <1>3

LEMMA CatOctets ==
  ASSUME NEW s \in OctetStrings, NEW t \in OctetStrings
  PROVE  /\ Cat(s, t) \in OctetStrings /\ Size(Cat(s, t)) = Size(s) + Size(t)
         /\ \A i \in 1..Size(s) : Cat(s, t)[i] = s[i]
         /\ \A i \in 1..Size(t) : Cat(s, t)[Size(s) + i] = t[i]
BY Joined DEF Cat, Size

LEMMA PieceOctets ==
  ASSUME NEW s \in OctetStrings, NEW a \in Nat, NEW b \in Nat, a <= b, b <= Size(s)
  PROVE  /\ Piece(s, a, b) \in OctetStrings /\ Size(Piece(s, a, b)) = b - a
         /\ \A i \in 1..(b - a) : Piece(s, a, b)[i] = s[a + i]
<1> DEFINE p == a + 1
<1>1. p \in Nat \ {0} /\ b - p + 1 = b - a /\ (p <= b <=> 1 <= b - a) /\ b - a \in Nat
  OBVIOUS
<1>2. \A i \in 1..(b - a) : p + i - 1 = a + i
  OBVIOUS
<1> HIDE DEF p
<1>3. b <= Len(s)
  BY DEF Size
<1>4. /\ SubSeq(s, p, b) \in OctetStrings
      /\ Len(SubSeq(s, p, b)) = IF p <= b THEN b - p + 1 ELSE 0
      /\ \A i \in 1..(b - p + 1) : SubSeq(s, p, b)[i] = s[p + i - 1]
  BY <1>1, <1>3, SubOctets
<1>5. Piece(s, a, b) = SubSeq(s, p, b)
  BY DEF Piece, p
<1> DEFINE u == SubSeq(s, p, b)
<1>6. u \in OctetStrings /\ Size(u) = (IF p <= b THEN b - p + 1 ELSE 0)
  BY <1>4 DEF Size
<1>7. \A i \in 1..(b - a) : u[i] = s[a + i]
  <2> HIDE DEF u
  <2>1. \A i \in 1..(b - p + 1) : u[i] = s[p + i - 1]
    BY <1>4 DEF u
  <2>2. QED
    BY ZenonT(20), <1>1, <1>2, <2>1
<1> HIDE DEF u
<1>8. Size(u) = b - a
  BY <1>1, <1>6
<1>9. QED
  BY <1>5, <1>6, <1>7, <1>8 DEF u

(* What a string holds at some place is the piece of it that is there.     *)
LEMMA Held ==
  ASSUME NEW s \in OctetStrings, NEW o \in OctetStrings, NEW a \in Nat, NEW b \in Nat,
         b = a + Size(o), b <= Size(s), Holds(s, a, o)
  PROVE  Piece(s, a, b) = o
<1>1. Size(o) \in Nat /\ a <= b /\ b - a = Size(o)
  BY SizeIsNat
<1> DEFINE u == Piece(s, a, b)
<1>2. u \in OctetStrings /\ Size(u) = b - a /\ \A i \in 1..(b - a) : u[i] = s[a + i]
  BY <1>1, PieceOctets
<1> HIDE DEF u
<1>3. Size(u) = Size(o)
  BY <1>1, <1>2
<1>4. \A i \in 1..Size(o) : u[i] = o[i]
  BY ZenonT(20), <1>1, <1>2 DEF Holds
<1>5. Len(u) = Len(o) /\ \A i \in 1..Len(u) : u[i] = o[i]
  BY ZenonT(20), <1>3, <1>4 DEF Size
<1>6. u = o
  BY <1>2, <1>5, OctetsEqual
<1>7. QED
  BY <1>6 DEF u

LEMMA HoldsCat ==
  ASSUME NEW b \in OctetStrings, NEW t \in OctetStrings
  PROVE  /\ Holds(Cat(b, t), 0, b) /\ Holds(Cat(b, t), Size(b), t)
         /\ \A o \in OctetStrings : \A a \in Nat :
              a + Size(o) <= Size(b) /\ Holds(b, a, o) => Holds(Cat(b, t), a, o)
<1> DEFINE s == Cat(b, t)
<1>1. /\ \A i \in 1..Size(b) : s[i] = b[i]
      /\ \A i \in 1..Size(t) : s[Size(b) + i] = t[i]
  BY CatOctets
<1>2. Size(b) \in Nat
  BY SizeIsNat
<1> HIDE DEF s
<1>3. Holds(s, 0, b)
  <2>1. \A i \in 1..Size(b) : 0 + i = i
    BY <1>2
  <2>2. QED
    BY ZenonT(20), <1>1, <2>1 DEF Holds
<1>4. Holds(s, Size(b), t)
  BY <1>1 DEF Holds
<1>5. ASSUME NEW o \in OctetStrings, NEW a \in Nat, a + Size(o) <= Size(b), Holds(b, a, o)
      PROVE  Holds(s, a, o)
  <2> SUFFICES ASSUME NEW i \in 1..Size(o) PROVE s[a + i] = o[i]
    BY DEF Holds
  <2>1. b[a + i] = o[i]
    BY <1>5 DEF Holds
  <2>2. Size(o) \in Nat
    BY SizeIsNat
  <2>3. a + i \in 1..Size(b)
    BY <1>2, <1>5, <2>2
  <2>4. s[a + i] = b[a + i]
    BY <1>1, <2>3
  <2>5. QED
    BY <2>1, <2>4
<1>6. QED
  BY <1>3, <1>4, <1>5 DEF s

LEMMA HoldsParts ==
  ASSUME NEW s \in OctetStrings, NEW a \in Nat, NEW o \in OctetStrings, NEW c \in OctetStrings,
         Holds(s, a, Cat(o, c))
  PROVE  Holds(s, a, o) /\ Holds(s, a + Size(o), c)
<1> DEFINE u == Cat(o, c)
<1>1. /\ Size(u) = Size(o) + Size(c)
      /\ \A i \in 1..Size(o) : u[i] = o[i]
      /\ \A i \in 1..Size(c) : u[Size(o) + i] = c[i]
  BY CatOctets
<1>2. Size(o) \in Nat /\ Size(c) \in Nat
  BY SizeIsNat
<1>3. \A i \in 1..Size(u) : s[a + i] = u[i]
  BY DEF Holds
<1> HIDE DEF u
<1>4. ASSUME NEW i \in 1..Size(o) PROVE s[a + i] = o[i]
  <2>1. i \in 1..Size(u)
    BY <1>1, <1>2
  <2>2. QED
    BY <1>1, <1>3, <2>1
<1>5. ASSUME NEW i \in 1..Size(c) PROVE s[(a + Size(o)) + i] = c[i]
  <2>1. Size(o) + i \in 1..Size(u) /\ (a + Size(o)) + i = a + (Size(o) + i)
    BY <1>1, <1>2
  <2>2. s[a + (Size(o) + i)] = u[Size(o) + i]
    BY <1>3, <2>1
  <2>3. QED
    BY <1>1, <2>1, <2>2
<1>6. QED
  BY <1>4, <1>5 DEF Holds

LEMMA HoldsOne ==
  ASSUME NEW s, NEW a \in Nat, NEW x \in Byte, Holds(s, a, Octet(x))
  PROVE  s[a + 1] = x
<1>1. Size(Octet(x)) = 1 /\ Octet(x)[1] = x
  BY SizeIsNat
<1>2. 1 \in 1..Size(Octet(x))
  BY <1>1
<1>3. QED
  BY <1>1, <1>2 DEF Holds

(* The element that is read first, with these names.                       *)
LEMMA ElementsRead ==
  ASSUME NEW s \in OctetStrings, Size(s) > 1
  PROVE  /\ s[1] = 0 /\ s[2] = 0 =>
              Elements[s] = Element("END", <<>>) \o Elements[Piece(s, 2, Size(s))]
         /\ s[1] = 48 /\ s[2] = 128 =>
              Elements[s] = Element("SEQUENCE", <<>>) \o Elements[Piece(s, 2, Size(s))]
         /\ s[1] \in 160..190 /\ s[2] = 128 =>
              Elements[s] = Element("CHOICE", <<s[1] - 160>>) \o Elements[Piece(s, 2, Size(s))]
         /\ /\ s[1] # 0 /\ s[1] # 48 /\ s[1] \notin 160..190
            /\ 1 + SizeOctets(s) <= Size(s) /\ WholeSize(s) <= Size(s) /\ SizeOctets(s) \in Nat
            => Elements[s] = ElementOf(s[1], Piece(s, 1 + SizeOctets(s), WholeSize(s)))
                               \o Elements[Piece(s, WholeSize(s), Size(s))]
<1>1. Elements[s] = ElementsBody(Elements, s)
  BY ElementsEquation
<1>2. s # <<>>
  BY SizeIsNat
<1>3. Len(s) # 1
  <2>1. Size(s) # 1
    BY SizeIsNat
  <2>2. QED
    BY ZenonT(20), <2>1 DEF Size
<1>4. \A n : Drop(s, n) = Piece(s, n, Size(s))
  BY DEF Drop, Piece, Size
<1> DEFINE k == SizeOctets(s)
           w == WholeSize(s)
<1>5. ASSUME 1 + k <= Size(s), w <= Size(s) PROVE ~Cut(s)
  <2>1. Size(s) \in Nat /\ Size(s) = Len(s)
    BY SizeIsNat DEF Size
  <2>2. Len(s) >= 2 /\ 1 + SizeOctets(s) <= Len(s)
    BY <1>5, <2>1
  <2>3. SizeOctets(s) \in Nat /\ WholeSize(s) \in Nat
    BY <2>2, SizesTyped
  <2> DEFINE z == Len(s)
  <2> HIDE DEF k, w, z
  <2>4. 1 + k <= z /\ w <= z /\ k \in Nat /\ w \in Nat /\ z \in Nat
    BY <1>5, <2>1, <2>3 DEF k, w, z
  <2>5. ~(1 + k > z \/ w > z)
    BY <2>4
  <2>6. QED
    BY <2>5 DEF Cut, k, w, z
<1>6. ASSUME k \in Nat PROVE FirstElement(s) = ElementOf(s[1], Piece(s, 1 + k, w))
  <2> HIDE DEF k, w
  <2>1. 2 + k = (1 + k) + 1
    BY <1>6
  <2>2. FirstElement(s) = ElementOf(s[1], SubSeq(s, 2 + k, w))
    BY DEF FirstElement, k, w
  <2>3. QED
    BY ZenonT(20), <2>1, <2>2 DEF Piece
<1>7. s[1] = 0 /\ s[2] = 0 => Elements[s] = Element("END", <<>>) \o Elements[Drop(s, 2)]
  BY <1>1, <1>2, <1>3 DEF ElementsBody
<1>8. s[1] = 48 /\ s[2] = 128 => Elements[s] = Element("SEQUENCE", <<>>) \o Elements[Drop(s, 2)]
  BY <1>1, <1>2, <1>3 DEF ElementsBody
<1>9. s[1] \in 160..190 /\ s[2] = 128 =>
        Elements[s] = Element("CHOICE", <<s[1] - 160>>) \o Elements[Drop(s, 2)]
  <2>1. s[1] \in 160..190 => s[1] # 0 /\ s[1] # 48
    OBVIOUS
  <2>2. QED
    BY <1>1, <1>2, <1>3, <2>1 DEF ElementsBody
<1>10. s[1] # 0 /\ s[1] # 48 /\ s[1] \notin 160..190 /\ ~Cut(s)
         => Elements[s] = FirstElement(s) \o Elements[Drop(s, w)]
  BY ZenonT(40), <1>1, <1>2, <1>3 DEF ElementsBody
<1>11. QED
  BY ZenonT(40), <1>4, <1>5, <1>6, <1>7, <1>8, <1>9, <1>10

(* A length that two octets hold.                                          *)
Small(n) == n < 256 * 256

LEMMA Smalls ==
  /\ \A n \in Nat : Small(n) => n \div 256 < 256
  /\ \A m, n \in Nat : Small(m) /\ n <= m => Small(n)
BY DEF Small

(* The field of a length, and the two ways it is written.                  *)
LEMMA LengthField ==
  ASSUME NEW n \in Nat, n > 0, Small(n)
  PROVE  /\ LengthOctets(n) \in OctetStrings
         /\ \/ n < 128 /\ LengthOctets(n) = Octet(n)
            \/ /\ Base256[n] \in OctetStrings
               /\ \E x \in Byte : /\ x > 128 /\ x - 128 = Size(Base256[n])
                                 /\ LengthOctets(n) = Cat(Octet(x), Base256[n])
<1> DEFINE b == Base256[n]
           k == Size(b)
           x == 128 + k
<1>1. b \in OctetStrings
  BY BaseEquation
<1>2. k = 1 \/ k = 2
  <2>1. CASE n < 256
    <3>1. b = Octet(n) /\ n \in Byte
      BY <2>1, BaseEquation DEF Octet, Byte
    <3>2. QED
      BY <3>1, SizeIsNat
  <2>2. CASE n >= 256
    <3> DEFINE q == n \div 256
               r == n % 256
    <3>1. q \in Nat /\ q < 256
      BY Smalls, Halves
    <3>r. r \in Byte
      BY Halves
    <3>2. b = Append(Base256[q], r)
      BY <2>2, BaseEquation
    <3>3. Base256[q] = Octet(q) /\ q \in Byte
      BY <3>1, BaseEquation DEF Octet, Byte
    <3> HIDE DEF q, r, b
    <3>4. Octet(q) \in Seq(Byte) /\ Len(Octet(q)) = 1
      BY <3>3, OctetAlone DEF OctetStrings
    <3>5. Len(Append(Octet(q), r)) = Len(Octet(q)) + 1
      BY <3>4, <3>r, AppendProperties
    <3>6. QED
      BY <3>2, <3>3, <3>4, <3>5 DEF Size
  <2>3. QED
    BY <2>1, <2>2
<1> HIDE DEF k
<1>3. x \in Byte /\ x > 128 /\ x - 128 = k
  BY <1>2 DEF Byte
<1>4. CASE n < 128
  <2>1. n # 0 /\ n \in Byte /\ n > 0 /\ n < 128
    BY <1>4 DEF Byte
  <2>2. LengthOctets(n) = Octet(n)
    BY <2>1 DEF LengthOctets, Octet
  <2>3. QED
    BY <1>4, <2>1, <2>2, OctetAlone
<1>5. CASE n >= 128
  <2>1. n # 0 /\ ~(n > 0 /\ n < 128)
    BY <1>5
  <2>2. LengthOctets(n) = <<128 + Len(Base256[n])>> \o Base256[n]
    BY ZenonT(20), <2>1 DEF LengthOctets
  <2>3. LengthOctets(n) = Cat(Octet(x), b)
    BY ZenonT(20), <2>2 DEF Octet, Cat, b, k, Size
  <2> HIDE DEF x, b
  <2>4. Octet(x) \in OctetStrings
    BY <1>3, SizeIsNat
  <2>5. Cat(Octet(x), b) \in OctetStrings
    BY <1>1, <2>4, CatOctets
  <2>6. QED
    BY <1>1, <1>3, <2>3, <2>5 DEF b, k
<1>6. QED
  BY <1>4, <1>5

Chunk(id, o) == Cat(Cat(Octet(id), LengthOctets(Size(o))), o)

LEMMA ChunkOctets ==
  ASSUME NEW id \in Byte, NEW l \in OctetStrings, NEW o \in OctetStrings, NEW t \in OctetStrings,
         NEW b, b = Cat(Cat(Octet(id), l), o), NEW s, s = Cat(b, t)
  PROVE  /\ b \in OctetStrings /\ s \in OctetStrings
         /\ Size(s) = 1 + Size(l) + Size(o) + Size(t)
         /\ s[1] = id
         /\ Holds(s, 1, l) /\ Holds(s, 1 + Size(l), o) /\ Holds(s, 1 + Size(l) + Size(o), t)
<1> DEFINE h == Octet(id)
           a == Cat(h, l)
           m == Size(l)
           n == Size(o)
           k == Size(t)
<1>1. h \in OctetStrings /\ Size(h) = 1
  BY SizeIsNat
<1>2. m \in Nat /\ n \in Nat /\ k \in Nat
  BY SizeIsNat
<1>b. b = Cat(a, o)
  OBVIOUS
<1> HIDE DEF h
<1>3. a \in OctetStrings /\ Size(a) = 1 + m /\ Holds(a, 0, h) /\ Holds(a, 1, l)
  BY <1>1, CatOctets, HoldsCat
<1> HIDE DEF a
<1>4. b \in OctetStrings /\ Size(b) = Size(a) + n
  BY <1>3, <1>b, CatOctets
<1>5. Size(b) = 1 + m + n
  BY <1>2, <1>3, <1>4
<1>6. Holds(b, 1 + m, o)
  BY <1>3, <1>b, HoldsCat
<1>7. Holds(b, 0, h)
  <2>1. 0 + Size(h) <= Size(a)
    BY <1>1, <1>2, <1>3
  <2>2. QED
    BY <1>1, <1>3, <1>b, <2>1, HoldsCat
<1>8. Holds(b, 1, l)
  <2>1. 1 + Size(l) <= Size(a)
    BY <1>2, <1>3
  <2>2. QED
    BY <1>3, <1>b, <2>1, HoldsCat
<1>9. s \in OctetStrings /\ Size(s) = Size(b) + k
  BY <1>4, CatOctets
<1>10. Size(s) = 1 + m + n + k
  BY <1>2, <1>5, <1>9
<1>11. Holds(s, 0, h)
  <2>1. 0 + Size(h) <= Size(b)
    BY <1>1, <1>2, <1>5
  <2>2. QED
    BY <1>1, <1>4, <1>7, <2>1, HoldsCat
<1>12. Holds(s, 1, l)
  <2>1. 1 + Size(l) <= Size(b)
    BY <1>2, <1>5
  <2>2. QED
    BY <1>4, <1>8, <2>1, HoldsCat
<1>13. Holds(s, 1 + m, o)
  <2>1. (1 + m) + Size(o) <= Size(b) /\ 1 + m \in Nat
    BY <1>2, <1>5
  <2>2. QED
    BY <1>4, <1>6, <2>1, HoldsCat
<1>14. Holds(s, 1 + m + n, t)
  BY <1>4, <1>5, HoldsCat
<1>15. s[1] = id
  <2>1. s[0 + 1] = id
    BY <1>11, HoldsOne DEF h
  <2>2. QED
    BY <2>1
<1>16. QED
  BY <1>4, <1>9, <1>10, <1>12, <1>13, <1>14, <1>15

(* The length is read as it was written.                                   *)
LEMMA LengthRead ==
  ASSUME NEW n \in Nat, n > 0, Small(n), NEW s \in OctetStrings, NEW l, l = LengthOctets(n),
         1 + Size(l) <= Size(s), Holds(s, 1, l)
  PROVE  l \in OctetStrings /\ SizeOctets(s) = Size(l) /\ ContentSize(s) = n
<1> DEFINE m == Size(l)
<1>1. l \in OctetStrings
  BY LengthField
<1>2. CASE n < 128 /\ l = Octet(n)
  <2>1. n \in Byte
    BY <1>2 DEF Byte
  <2>2. m = 1
    BY <1>2, <2>1, SizeIsNat
  <2>3. s[1 + 1] = n
    BY <1>2, <2>1, HoldsOne
  <2>4. s[2] = n
    BY <2>3
  <2>5. SizeOctets(s) = 1
    BY <1>2, <2>4 DEF SizeOctets
  <2>6. ContentSize(s) = n
    BY <2>4, <2>5 DEF ContentSize
  <2>7. QED
    BY <1>1, <2>2, <2>5, <2>6
<1>3. ASSUME Base256[n] \in OctetStrings, NEW x \in Byte, x > 128, x - 128 = Size(Base256[n]),
             l = Cat(Octet(x), Base256[n])
      PROVE  SizeOctets(s) = m /\ ContentSize(s) = n
  <2> DEFINE c == Base256[n]
             h == Octet(x)
             j == Size(c)
  <2>1. c \in OctetStrings /\ l = Cat(h, c) /\ j = x - 128
    BY <1>3
  <2>2. Number[c] = n
    BY NumberBase
  <2>3. h \in OctetStrings /\ Size(h) = 1
    BY SizeIsNat
  <2> HIDE DEF c
  <2>4. m = 1 + j /\ Holds(s, 1, h) /\ Holds(s, 1 + 1, c)
    BY <2>1, <2>3, CatOctets, HoldsParts
  <2>5. s[1 + 1] = x
    BY <2>4, HoldsOne
  <2> HIDE DEF h, j, m
  <2>6. s[2] = x
    BY <2>5
  <2>7. x \in Int /\ ~(x < 128) /\ x - 127 = 1 + j /\ j \in Nat /\ j > 0
    BY <1>3, <2>1 DEF Byte
  <2>8. SizeOctets(s) = m
    BY <2>4, <2>6, <2>7 DEF SizeOctets
  <2>9. Holds(s, 2, c) /\ 2 + j = m + 1 /\ m + 1 <= Size(s) /\ m # 1 /\ m + 1 \in Nat
    BY <2>4, <2>7 DEF m
  <2>10. Piece(s, 2, m + 1) = c
    BY <2>1, <2>9, Held DEF j
  <2>11. ContentSize(s) = Number[SubSeq(s, 3, m + 1)]
    BY <2>8, <2>9 DEF ContentSize
  <2>12. SubSeq(s, 3, m + 1) = c
    <3>1. 2 + 1 = 3
      OBVIOUS
    <3>2. QED
      BY ZenonT(20), <2>10, <3>1 DEF Piece
  <2>13. ContentSize(s) = Number[c]
    BY ZenonT(20), <2>11, <2>12
  <2>14. QED
    BY <2>2, <2>8, <2>13
<1>4. QED
  BY <1>1, <1>2, <1>3, LengthField

(* The octets of a value are read as that value, and what follows them is  *)
(* read as if they were not there.                                         *)
LEMMA ChunkRead ==
  ASSUME NEW id \in {1, 2, 4, 10}, NEW o \in OctetStrings, Size(o) > 0, Small(Size(o)),
         NEW t \in OctetStrings
  PROVE  /\ Chunk(id, o) \in OctetStrings
         /\ Elements[Cat(Chunk(id, o), t)] = ElementOf(id, o) \o Elements[t]
<1> DEFINE n == Size(o)
           l == LengthOctets(n)
           m == Size(l)
           k == Size(t)
           b == Chunk(id, o)
           s == Cat(b, t)
<1>1. n \in Nat /\ k \in Nat
  BY SizeIsNat
<1>i. id \in Byte /\ id # 0 /\ id # 48 /\ id \notin 160..190
  BY DEF Byte
<1>2. l \in OctetStrings
  BY <1>1, LengthField
<1>3. b = Cat(Cat(Octet(id), l), o)
  BY DEF Chunk
<1> HIDE DEF n, l, b, s
<1>4. /\ b \in OctetStrings /\ s \in OctetStrings
      /\ Size(s) = 1 + m + n + k
      /\ s[1] = id
      /\ Holds(s, 1, l) /\ Holds(s, 1 + m, o) /\ Holds(s, 1 + m + n, t)
  BY <1>2, <1>3, <1>i, ChunkOctets DEF n, s
<1>5. m \in Nat
  BY <1>2, SizeIsNat
<1>n. n > 0 /\ Small(n)
  BY DEF n
<1> HIDE DEF m, k
<1>6. 1 + m <= Size(s) /\ 1 + m + n <= Size(s) /\ Size(s) > 1 /\ 1 + m + n \in Nat
      /\ 1 + m \in Nat /\ Size(s) \in Nat
  BY <1>1, <1>4, <1>5, <1>n
<1>7. SizeOctets(s) = m /\ ContentSize(s) = n
  BY <1>1, <1>4, <1>6, <1>n, LengthRead DEF l, m
<1>8. WholeSize(s) = 1 + m + n
  BY <1>7 DEF WholeSize
<1>9. Piece(s, 1 + m, 1 + m + n) = o
  <2>1. 1 + m + n = (1 + m) + Size(o)
    BY DEF n
  <2>2. QED
    BY <1>4, <1>6, <2>1, Held
<1>10. Piece(s, 1 + m + n, Size(s)) = t
  <2>1. Size(s) = (1 + m + n) + Size(t)
    BY <1>4 DEF k
  <2>2. QED
    BY <1>4, <1>6, <2>1, Held
<1>11. Elements[s] = ElementOf(s[1], Piece(s, 1 + SizeOctets(s), WholeSize(s)))
                               \o Elements[Piece(s, WholeSize(s), Size(s))]
  <2>1. 1 + SizeOctets(s) <= Size(s) /\ WholeSize(s) <= Size(s) /\ SizeOctets(s) \in Nat
    BY <1>5, <1>6, <1>7, <1>8
  <2>2. QED
    BY <1>4, <1>6, <1>i, <2>1, ElementsRead
<1>12. Elements[s] = ElementOf(id, o) \o Elements[t]
  BY ZenonT(20), <1>4, <1>7, <1>8, <1>9, <1>10, <1>11
<1>13. QED
  BY <1>4, <1>12 DEF s, b

(* The two octets that start or end a sequence.                            *)
Pair(x, y) == Cat(Cat(Octet(x), Octet(y)), <<>>)

LEMMA PairOctets ==
  ASSUME NEW x \in Byte, NEW y \in Byte, NEW t \in OctetStrings, NEW s, s = Cat(Pair(x, y), t)
  PROVE  /\ Pair(x, y) \in OctetStrings /\ s \in OctetStrings /\ Size(s) > 1
         /\ s[1] = x /\ s[2] = y /\ Piece(s, 2, Size(s)) = t
<1> DEFINE l == Octet(y)
           o == <<>>
           b == Cat(Cat(Octet(x), l), o)
<1>1. l \in OctetStrings /\ Size(l) = 1 /\ o \in OctetStrings /\ Size(o) = 0 /\ Size(t) \in Nat
  BY SizeIsNat
<1>2. b = Pair(x, y) /\ s = Cat(b, t)
  BY DEF Pair
<1> HIDE DEF l, o
<1>3. /\ b \in OctetStrings /\ s \in OctetStrings
      /\ Size(s) = 1 + Size(l) + Size(o) + Size(t)
      /\ s[1] = x
      /\ Holds(s, 1, l) /\ Holds(s, 1 + Size(l) + Size(o), t)
  BY <1>1, <1>2, ChunkOctets
<1> HIDE DEF b
<1>4. s[1 + 1] = y
  BY <1>3, HoldsOne DEF l
<1>5. s[2] = y
  BY <1>4
<1>6. Size(s) = 2 + Size(t) /\ 1 + Size(l) + Size(o) = 2
  BY <1>1, <1>3
<1>7. Size(s) > 1 /\ Size(s) \in Nat /\ Holds(s, 2, t)
  BY <1>1, <1>3, <1>6
<1>8. Piece(s, 2, Size(s)) = t
  BY <1>3, <1>6, <1>7, Held
<1>9. QED
  BY <1>2, <1>3, <1>5, <1>7, <1>8

LEMMA PairRead ==
  ASSUME NEW t \in OctetStrings
  PROVE  /\ Elements[Cat(Pair(0, 0), t)] = Element("END", <<>>) \o Elements[t]
         /\ Elements[Cat(Pair(48, 128), t)] = Element("SEQUENCE", <<>>) \o Elements[t]
         /\ \A n \in 0..30 :
              Elements[Cat(Pair(160 + n, 128), t)] = Element("CHOICE", <<n>>) \o Elements[t]
<1>1. Elements[Cat(Pair(0, 0), t)] = Element("END", <<>>) \o Elements[t]
  <2> DEFINE s == Cat(Pair(0, 0), t)
  <2>0. 0 \in Byte
    BY DEF Byte
  <2>1. s \in OctetStrings /\ Size(s) > 1 /\ s[1] = 0 /\ s[2] = 0 /\ Piece(s, 2, Size(s)) = t
    BY <2>0, PairOctets
  <2> HIDE DEF s
  <2>2. Elements[s] = Element("END", <<>>) \o Elements[Piece(s, 2, Size(s))]
    BY <2>1, ElementsRead
  <2>3. QED
    BY ZenonT(20), <2>1, <2>2 DEF s
<1>2. Elements[Cat(Pair(48, 128), t)] = Element("SEQUENCE", <<>>) \o Elements[t]
  <2> DEFINE s == Cat(Pair(48, 128), t)
  <2>0. 48 \in Byte /\ 128 \in Byte
    BY DEF Byte
  <2>1. s \in OctetStrings /\ Size(s) > 1 /\ s[1] = 48 /\ s[2] = 128 /\ Piece(s, 2, Size(s)) = t
    BY <2>0, PairOctets
  <2> HIDE DEF s
  <2>2. Elements[s] = Element("SEQUENCE", <<>>) \o Elements[Piece(s, 2, Size(s))]
    BY <2>1, ElementsRead
  <2>3. QED
    BY ZenonT(20), <2>1, <2>2 DEF s
<1>3. ASSUME NEW n \in 0..30
      PROVE  Elements[Cat(Pair(160 + n, 128), t)] = Element("CHOICE", <<n>>) \o Elements[t]
  <2> DEFINE x == 160 + n
             s == Cat(Pair(x, 128), t)
  <2>0. x \in Byte /\ 128 \in Byte /\ x \in 160..190 /\ x - 160 = n
    BY DEF Byte
  <2> HIDE DEF x
  <2>1. s \in OctetStrings /\ Size(s) > 1 /\ s[1] = x /\ s[2] = 128 /\ Piece(s, 2, Size(s)) = t
    BY <2>0, PairOctets
  <2> HIDE DEF s
  <2>2. Elements[s] = Element("CHOICE", <<s[1] - 160>>) \o Elements[Piece(s, 2, Size(s))]
    <3>1. s[1] \in 160..190
      BY <2>0, <2>1
    <3>2. QED
      BY <2>1, <3>1, ElementsRead
  <2>3. s[1] - 160 = n
    BY <2>0, <2>1
  <2>4. QED
    BY ZenonT(20), <2>1, <2>2, <2>3 DEF s, x
<1>4. QED
  BY <1>1, <1>2, <1>3

-----------------------------------------------------------------------------
(* The steps of a request, what each of them writes and what it says       *)

WriteStepSet ==
  [do : {"write_integer", "write_enumerated", "write_boolean"}, v : {<<n>> : n \in Int}]
  \cup [do : {"write_octet_string"}, v : OctetStrings \ {<<>>}]
  \cup [do : {"start_sequence", "finish_sequence", "finish_context_specific"}, v : {<<>>}]
  \cup [do : {"start_context_specific"}, v : {<<n>> : n \in 0..30}]

OctetsOf(s) ==
  CASE s.do = "write_integer"           -> Chunk(ST_INTEGER, IntegerOctets(s.v[1]))
    [] s.do = "write_enumerated"        -> Chunk(ST_ENUMERATED, IntegerOctets(s.v[1]))
    [] s.do = "write_boolean"           -> Chunk(ST_BOOLEAN, IF s.v[1] # 0 THEN <<255>> ELSE <<0>>)
    [] s.do = "write_octet_string"      -> Chunk(ST_OCTET_STRING, s.v)
    [] s.do = "start_sequence"          -> Pair(48, 128)
    [] s.do = "start_context_specific"  -> Pair(160 + s.v[1], 128)
    [] s.do = "finish_sequence"         -> Pair(0, 0)
    [] s.do = "finish_context_specific" -> Pair(0, 0)

Says(s) ==
  CASE s.do = "write_integer"           -> [tag |-> "INTEGER", v |-> s.v]
    [] s.do = "write_enumerated"        -> [tag |-> "ENUMERATED", v |-> s.v]
    [] s.do = "write_boolean"           -> [tag |-> "BOOLEAN", v |-> <<IF s.v[1] = 0 THEN 0 ELSE 1>>]
    [] s.do = "write_octet_string"      -> [tag |-> "OCTET-STRING", v |-> s.v]
    [] s.do = "start_sequence"          -> [tag |-> "SEQUENCE", v |-> <<>>]
    [] s.do = "start_context_specific"  -> [tag |-> "CHOICE", v |-> s.v]
    [] s.do = "finish_sequence"         -> [tag |-> "END", v |-> <<>>]
    [] s.do = "finish_context_specific" -> [tag |-> "END", v |-> <<>>]


(* What a buffer holds has a length of two octets at most.                 *)
LEMMA ChunkSized ==
  ASSUME NEW id \in Byte, NEW o \in OctetStrings, Size(o) > 0
  PROVE  \E v \in Nat : Size(Chunk(id, o)) = v + Size(o)
<1> DEFINE n == Size(o)
           l == LengthOctets(n)
           h == Octet(id)
<1>1. n \in Nat /\ n > 0
  BY SizeIsNat
<1>a. Byte \subseteq Nat
  BY DEF Byte
<1> HIDE DEF n
<1>2. l \in Seq(Nat)
  <2> DEFINE b == Base256[n]
             k == 128 + Len(b)
  <2>1. b \in OctetStrings
    BY <1>1, BaseEquation
  <2> HIDE DEF b
  <2>2. b \in Seq(Nat) /\ Len(b) \in Nat
    BY <1>a, <2>1, SeqMonotonic, OctetAt DEF OctetStrings
  <2>3. k \in Nat
    BY <2>2
  <2> HIDE DEF k
  <2>4. <<k>> \in Seq(Nat) /\ <<n>> \in Seq(Nat)
    BY <1>1, <2>3
  <2>5. <<k>> \o b \in Seq(Nat)
    BY <2>2, <2>4, ConcatProperties
  <2>6. n # 0
    BY <1>1
  <2>7. l = <<n>> \/ l = <<k>> \o b
    BY ZenonT(20), <1>1, <2>6 DEF LengthOctets, k, b
  <2>8. QED
    BY ZenonT(20), <2>4, <2>5, <2>7
<1>3. h \in Seq(Nat) /\ o \in Seq(Nat)
  BY <1>a, OctetAlone, SeqMonotonic DEF OctetStrings
<1>4. Chunk(id, o) = (h \o l) \o o
  BY DEF Chunk, n, Cat
<1> HIDE DEF l, h
<1>5. h \o l \in Seq(Nat) /\ Len(h \o l) \in Nat
  BY <1>2, <1>3, ConcatProperties, LenProperties
<1> DEFINE u == h \o l
<1> HIDE DEF u
<1>6. Len(u \o o) = Len(u) + Len(o)
  BY <1>3, <1>5, ConcatProperties DEF u
<1> DEFINE v == Len(u)
<1>7. v \in Nat
  BY <1>5 DEF u
<1>8. Len(Chunk(id, o)) = v + n
  BY ZenonT(20), <1>4, <1>6 DEF u, n, Size
<1> HIDE DEF v
<1>9. QED
  BY ZenonT(20), <1>7, <1>8 DEF n, Size

LEMMA ContentFits ==
  ASSUME NEW id \in Byte, NEW o \in OctetStrings, Size(o) > 0, Small(Size(Chunk(id, o)))
  PROVE  Small(Size(o))
<1>1. PICK v \in Nat : Size(Chunk(id, o)) = v + Size(o)
  BY ChunkSized
<1>2. Size(o) \in Nat
  BY SizeIsNat
<1>3. Size(o) <= v + Size(o) /\ v + Size(o) \in Nat
  BY <1>2
<1>4. QED
  BY <1>1, <1>2, <1>3, Smalls

(* The octets u of a step are read as what it says.                        *)
ReadAs(u, e) ==
  u \in OctetStrings /\ \A t \in OctetStrings : Elements[Cat(u, t)] = <<e>> \o Elements[t]

LEMMA ValueRead ==
  ASSUME NEW id \in {1, 2, 4, 10}, NEW o \in OctetStrings, Size(o) > 0, NEW e,
         ElementOf(id, o) = <<e>>, NEW u, u = Chunk(id, o), Small(Size(u))
  PROVE  ReadAs(u, e)
<1>1. Small(Size(o))
  <2>1. id \in Byte
    BY DEF Byte
  <2>2. QED
    BY <2>1, ContentFits
<1>2. u \in OctetStrings
  <2>1. <<>> \in OctetStrings
    BY SizeIsNat
  <2>2. QED
    BY <1>1, <2>1, ChunkRead
<1>3. ASSUME NEW t \in OctetStrings PROVE Elements[Cat(u, t)] = <<e>> \o Elements[t]
  <2>1. Elements[Cat(Chunk(id, o), t)] = ElementOf(id, o) \o Elements[t]
    BY <1>1, ChunkRead
  <2>2. QED
    BY ZenonT(20), <2>1
<1>4. QED
  BY <1>2, <1>3 DEF ReadAs

LEMMA PairsRead ==
  /\ ReadAs(Pair(0, 0), [tag |-> "END", v |-> <<>>])
  /\ ReadAs(Pair(48, 128), [tag |-> "SEQUENCE", v |-> <<>>])
  /\ \A n \in 0..30 : ReadAs(Pair(160 + n, 128), [tag |-> "CHOICE", v |-> <<n>>])
<1>1. 0 \in Byte /\ 48 \in Byte /\ 128 \in Byte /\ \A n \in 0..30 : 160 + n \in Byte
  BY DEF Byte
<1>2. \A x, y \in Byte : Pair(x, y) \in OctetStrings
  BY SizeIsNat, PairOctets
<1>3. \A v : Element("END", v) = <<[tag |-> "END", v |-> v]>>
             /\ Element("SEQUENCE", v) = <<[tag |-> "SEQUENCE", v |-> v]>>
             /\ Element("CHOICE", v) = <<[tag |-> "CHOICE", v |-> v]>>
  BY DEF Element
<1>4. ReadAs(Pair(0, 0), [tag |-> "END", v |-> <<>>])
  BY ZenonT(20), <1>1, <1>2, <1>3, PairRead DEF ReadAs
<1>5. ReadAs(Pair(48, 128), [tag |-> "SEQUENCE", v |-> <<>>])
  BY ZenonT(20), <1>1, <1>2, <1>3, PairRead DEF ReadAs
<1>6. \A n \in 0..30 : ReadAs(Pair(160 + n, 128), [tag |-> "CHOICE", v |-> <<n>>])
  BY ZenonT(20), <1>1, <1>2, <1>3, PairRead DEF ReadAs
<1>7. QED
  BY <1>4, <1>5, <1>6

LEMMA IntegersSized ==
  \A n \in Int : /\ IntegerOctets(n) \in OctetStrings /\ Size(IntegerOctets(n)) > 0
                /\ OctetsInteger(IntegerOctets(n)) = n
BY IntegerRead DEF Size

LEMMA StepRead ==
  ASSUME NEW s \in WriteStepSet, Small(Size(OctetsOf(s)))
  PROVE  ReadAs(OctetsOf(s), Says(s))
<1>1. ASSUME NEW n \in Int, s.v = <<n>>, s.do = "write_integer"
      PROVE  ReadAs(OctetsOf(s), Says(s))
  <2> DEFINE o == IntegerOctets(n)
  <2>1. o \in OctetStrings /\ Size(o) > 0 /\ OctetsInteger(o) = n
    BY IntegersSized
  <2>2. OctetsOf(s) = Chunk(2, o) /\ Says(s) = [tag |-> "INTEGER", v |-> <<n>>]
    BY <1>1 DEF OctetsOf, Says, ST_INTEGER
  <2> HIDE DEF o
  <2>3. ElementOf(2, o) = INTEGER(OctetsInteger(o))
    BY DEF ElementOf, ST_INTEGER, ST_ENUMERATED, ST_BOOLEAN, ST_OCTET_STRING
  <2>4. ElementOf(2, o) = <<Says(s)>>
    BY ZenonT(20), <2>1, <2>2, <2>3 DEF INTEGER, Element
  <2>5. QED
    BY <2>1, <2>2, <2>4, ValueRead
<1>2. ASSUME NEW n \in Int, s.v = <<n>>, s.do = "write_enumerated"
      PROVE  ReadAs(OctetsOf(s), Says(s))
  <2> DEFINE o == IntegerOctets(n)
  <2>1. o \in OctetStrings /\ Size(o) > 0 /\ OctetsInteger(o) = n
    BY IntegersSized
  <2>2. OctetsOf(s) = Chunk(10, o) /\ Says(s) = [tag |-> "ENUMERATED", v |-> <<n>>]
    BY <1>2 DEF OctetsOf, Says, ST_ENUMERATED
  <2> HIDE DEF o
  <2>3. ElementOf(10, o) = ENUMERATED(OctetsInteger(o))
    BY DEF ElementOf, ST_INTEGER, ST_ENUMERATED, ST_BOOLEAN, ST_OCTET_STRING
  <2>4. ElementOf(10, o) = <<Says(s)>>
    BY ZenonT(20), <2>1, <2>2, <2>3 DEF ENUMERATED, Element
  <2>5. QED
    BY <2>1, <2>2, <2>4, ValueRead
<1>3. ASSUME NEW n \in Int, s.v = <<n>>, s.do = "write_boolean"
      PROVE  ReadAs(OctetsOf(s), Says(s))
  <2> DEFINE x == IF n # 0 THEN 255 ELSE 0
             o == Octet(x)
             b == IF n = 0 THEN 0 ELSE 1
  <2>1. x \in Byte /\ (IF x = 0 THEN 0 ELSE 1) = b
    BY DEF Byte
  <2>2. OctetsOf(s) = Chunk(1, o) /\ Says(s) = [tag |-> "BOOLEAN", v |-> <<b>>]
    BY <1>3 DEF OctetsOf, Says, ST_BOOLEAN, Octet
  <2> HIDE DEF x, b
  <2>3. o \in OctetStrings /\ Size(o) = 1 /\ o[1] = x
    BY <2>1, SizeIsNat
  <2> HIDE DEF o
  <2>4. ElementOf(1, o) = BOOLEAN_(IF o[1] = 0 THEN 0 ELSE 1)
    BY DEF ElementOf, ST_INTEGER, ST_ENUMERATED, ST_BOOLEAN, ST_OCTET_STRING
  <2>5. ElementOf(1, o) = <<Says(s)>>
    BY ZenonT(20), <2>1, <2>2, <2>3, <2>4 DEF BOOLEAN_, Element
  <2>6. Size(o) > 0
    BY <2>3
  <2>7. QED
    BY <2>2, <2>3, <2>5, <2>6, ValueRead
<1>4. ASSUME s.v \in OctetStrings, s.v # <<>>, s.do = "write_octet_string"
      PROVE  ReadAs(OctetsOf(s), Says(s))
  <2> DEFINE o == s.v
  <2>1. o \in OctetStrings /\ Size(o) > 0
    <3>1. Len(s.v) > 0
      BY <1>4, OctetAt
    <3>2. QED
      BY <1>4, <3>1 DEF Size
  <2>2. OctetsOf(s) = Chunk(4, o) /\ Says(s) = [tag |-> "OCTET-STRING", v |-> o]
    BY <1>4 DEF OctetsOf, Says, ST_OCTET_STRING
  <2> HIDE DEF o
  <2>3. ElementOf(4, o) = OCTET_STRING(o)
    BY DEF ElementOf, ST_INTEGER, ST_ENUMERATED, ST_BOOLEAN, ST_OCTET_STRING
  <2>4. ElementOf(4, o) = <<Says(s)>>
    BY ZenonT(20), <2>2, <2>3 DEF OCTET_STRING, Element
  <2>5. QED
    BY <2>1, <2>2, <2>4, ValueRead
<1>5. ASSUME s.do = "start_sequence" PROVE ReadAs(OctetsOf(s), Says(s))
  <2>1. OctetsOf(s) = Pair(48, 128) /\ Says(s) = [tag |-> "SEQUENCE", v |-> <<>>]
    BY <1>5 DEF OctetsOf, Says
  <2>2. QED
    BY ZenonT(20), <2>1, PairsRead
<1>6. ASSUME s.do \in {"finish_sequence", "finish_context_specific"}
      PROVE  ReadAs(OctetsOf(s), Says(s))
  <2>1. OctetsOf(s) = Pair(0, 0) /\ Says(s) = [tag |-> "END", v |-> <<>>]
    BY <1>6 DEF OctetsOf, Says
  <2>2. QED
    BY ZenonT(20), <2>1, PairsRead
<1>7. ASSUME NEW n \in 0..30, s.v = <<n>>, s.do = "start_context_specific"
      PROVE  ReadAs(OctetsOf(s), Says(s))
  <2>1. OctetsOf(s) = Pair(160 + n, 128) /\ Says(s) = [tag |-> "CHOICE", v |-> <<n>>]
    BY <1>7 DEF OctetsOf, Says
  <2>2. QED
    BY ZenonT(20), <2>1, PairsRead
<1>8. \/ s.do \in {"write_integer", "write_enumerated", "write_boolean"} /\ \E n \in Int : s.v = <<n>>
      \/ s.do = "write_octet_string" /\ s.v \in OctetStrings /\ s.v # <<>>
      \/ s.do \in {"start_sequence", "finish_sequence", "finish_context_specific"}
      \/ s.do = "start_context_specific" /\ \E n \in 0..30 : s.v = <<n>>
  BY DEF WriteStepSet
<1>9. QED
  BY <1>1, <1>2, <1>3, <1>4, <1>5, <1>6, <1>7, <1>8

-----------------------------------------------------------------------------
(* The steps of a function, one after the other                            *)

Turn(how, r, s) == IF how = "read" THEN ReadStep(r, s) ELSE WriteStep(r, s)

RunBody(how, x, steps, g, k) == IF k = 0 THEN x ELSE Turn(how, g[k - 1], steps[k])

(* The sequence of the states between the steps exists.                    *)
LEMMA RunExists ==
  ASSUME NEW how, NEW x, NEW steps, NEW n \in Nat
  PROVE  \E g : g = [k \in 0..n |-> RunBody(how, x, steps, g, k)]
<1> DEFINE B(g, k) == RunBody(how, x, steps, g, k)
           S == {m \in Nat : \E g : g = [k \in 0..m |-> B(g, k)]}
<1>1. 0 \in S
  <2> DEFINE g == [k \in 0..0 |-> x]
  <2>1. \A k \in 0..0 : B(g, k) = x
    BY DEF RunBody
  <2>2. g = [k \in 0..0 |-> B(g, k)]
    <3> HIDE DEF B
    <3>1. QED
      BY <2>1
  <2> HIDE DEF g
  <2>3. QED
    BY <2>2
<1>2. ASSUME NEW m \in Nat, m \in S PROVE m + 1 \in S
  <2>1. PICK g : g = [k \in 0..m |-> B(g, k)]
    BY <1>2
  <2> DEFINE h == [k \in 0..(m + 1) |-> IF k <= m THEN g[k] ELSE Turn(how, g[m], steps[m + 1])]
  <2>2. \A k \in 0..m : h[k] = g[k]
    OBVIOUS
  <2>3. h[m + 1] = Turn(how, g[m], steps[m + 1])
    OBVIOUS
  <2>4. h = [k \in 0..(m + 1) |-> h[k]]
    OBVIOUS
  <2> HIDE DEF h
  <2>5. ASSUME NEW k \in 0..(m + 1) PROVE h[k] = B(h, k)
    <3>1. CASE k = 0
      <4>1. h[0] = g[0] /\ g[0] = B(g, 0)
        BY <2>1, <2>2
      <4>2. QED
        BY <3>1, <4>1 DEF RunBody
    <3>2. CASE k # 0 /\ k <= m
      <4>1. k - 1 \in 0..m /\ k \in 0..m
        BY <3>2
      <4> HIDE DEF B
      <4>2. h[k - 1] = g[k - 1] /\ h[k] = g[k] /\ g[k] = B(g, k)
        BY <2>1, <2>2, <4>1
      <4>3. B(g, k) = B(h, k)
        BY <3>2, <4>2 DEF B, RunBody
      <4>4. QED
        BY <4>2, <4>3
    <3>3. CASE k = m + 1
      <4>1. k # 0 /\ k - 1 = m /\ m \in 0..m
        BY <3>3
      <4>2. h[k - 1] = g[m]
        BY <2>2, <4>1
      <4>3. QED
        BY <2>3, <3>3, <4>1, <4>2 DEF RunBody
    <3>4. QED
      BY <3>1, <3>2, <3>3
  <2>6. h = [k \in 0..(m + 1) |-> B(h, k)]
    <3> HIDE DEF B
    <3>1. QED
      BY <2>4, <2>5
  <2>7. QED
    BY <2>6
<1>3. \A m \in Nat : m \in S
  <2> HIDE DEF S
  <2>1. QED
    BY <1>1, <1>2, SetInduction
<1>4. QED
  BY <1>3

IsRun(how, x, steps, n, f) ==
  f = CHOOSE g : g = [k \in 0..n |-> RunBody(how, x, steps, g, k)]

LEMMA RunSteps ==
  ASSUME NEW how, NEW x, NEW steps, NEW n \in Nat, NEW f, IsRun(how, x, steps, n, f)
  PROVE  f[0] = x /\ \A k \in 1..n : f[k] = Turn(how, f[k - 1], steps[k])
<1>1. f = [k \in 0..n |-> RunBody(how, x, steps, f, k)]
  BY RunExists DEF IsRun
<1>2. \A k \in 0..n : f[k] = RunBody(how, x, steps, f, k)
  BY <1>1
<1>3. f[0] = x
  BY <1>2 DEF RunBody
<1>4. ASSUME NEW k \in 1..n PROVE f[k] = Turn(how, f[k - 1], steps[k])
  <2>1. k \in 0..n /\ k # 0
    OBVIOUS
  <2>2. QED
    BY <1>2, <2>1 DEF RunBody
<1>5. QED
  BY <1>3, <1>4

LEMMA WritingSteps ==
  ASSUME NEW steps, NEW cap, Len(steps) \in Nat
  PROVE  /\ Writing(steps, cap)[0] = st_asn1_init("ENCODE", <<>>, cap)
         /\ \A k \in 1..Len(steps) :
              Writing(steps, cap)[k] = WriteStep(Writing(steps, cap)[k - 1], steps[k])
<1> DEFINE f == Writing(steps, cap)
           x == st_asn1_init("ENCODE", <<>>, cap)
           n == Len(steps)
<1>0. n \in Nat
  OBVIOUS
<1>1. IsRun("write", x, steps, n, f)
  BY DEF Writing, RunBody, Turn, IsRun
<1> HIDE DEF f, x, n
<1>2. f[0] = x /\ \A k \in 1..n : f[k] = Turn("write", f[k - 1], steps[k])
  BY <1>0, <1>1, RunSteps
<1>3. QED
  BY <1>2 DEF f, x, n, Turn

LEMMA ReadingSteps ==
  ASSUME NEW mode, NEW steps, NEW octets, Len(steps) \in Nat
  PROVE  /\ Reading(mode, steps, octets)[0] = Unread(mode, octets)
         /\ \A k \in 1..Len(steps) :
              Reading(mode, steps, octets)[k] = ReadStep(Reading(mode, steps, octets)[k - 1], steps[k])
<1> DEFINE f == Reading(mode, steps, octets)
           x == Unread(mode, octets)
           n == Len(steps)
<1>0. n \in Nat
  OBVIOUS
<1>1. IsRun("read", x, steps, n, f)
  BY DEF Reading, RunBody, Turn, IsRun
<1> HIDE DEF f, x, n
<1>2. f[0] = x /\ \A k \in 1..n : f[k] = Turn("read", f[k - 1], steps[k])
  BY <1>0, <1>1, RunSteps
<1>3. QED
  BY <1>2 DEF f, x, n, Turn

-----------------------------------------------------------------------------
(* What a request holds after some of its steps                            *)

(* A context that has written d, with some errors. *)
Wrote(cap, d, e) == [mode |-> "ENCODE", data |-> d, cap |-> cap, pos |-> Size(d), errors |-> e]

LEMMA Puts ==
  ASSUME NEW d \in OctetStrings, NEW u \in OctetStrings, NEW cap, NEW e
  PROVE  Put(Wrote(cap, d, e), u) = Wrote(cap, Cat(d, u), e)
<1> DEFINE c == Wrote(cap, d, e)
           n == Len(d)
           k == Len(u)
           a == SubSeq(d, 1, n)
           b == SubSeq(d, n + k + 1, n)
<1>1. n \in Nat /\ k \in Nat
  BY OctetAt
<1>2. a = d
  BY SubSeqFull DEF OctetStrings
<1>3. b = <<>>
  <2>1. n < n + k + 1
    BY <1>1
  <2>2. QED
    BY <1>1, <2>1, SubSeqEmpty
<1>4. (a \o u) \o b = d \o u
  <2>1. d \o u \in OctetStrings
    BY Joined
  <2>2. QED
    BY <1>2, <1>3, <2>1, ConcatEmptySeq DEF OctetStrings
<1>5. Put(c, u) = [c EXCEPT !.data = (a \o u) \o b, !.pos = n + k]
  BY DEF Put, Wrote, Size
<1>6. Size(Cat(d, u)) = n + k
  BY CatOctets DEF Size
<1> HIDE DEF a, b, n, k
<1>7. QED
  BY <1>4, <1>5, <1>6 DEF Wrote, Cat

LEMMA Fails ==
  ASSUME NEW d, NEW cap, NEW e
  PROVE  Failed(Wrote(cap, d, e)) = Wrote(cap, d, e + 1)
BY DEF Failed, Wrote

(* Each write function, of a context that has written d.                   *)
LEMMA WriteIs ==
  ASSUME NEW d \in OctetStrings, NEW cap, NEW e, NEW id, NEW o, NEW u, u = Chunk(id, o)
  PROVE  /\ Write(Wrote(cap, d, e), id, o) =
              IF Size(d) + Size(u) > cap THEN Wrote(cap, d, e + 1) ELSE Put(Wrote(cap, d, e), u)
<1> DEFINE c == Wrote(cap, d, e)
           w == <<id>> \o LengthOctets(Len(o)) \o o
<1>1. w = u
  BY ZenonT(20) DEF Chunk, Cat, Octet, Size
<1>2. c.pos = Size(d) /\ c.cap = cap
  BY DEF Wrote
<1> HIDE DEF c
<1>3. Write(c, id, o) = IF c.pos + Len(w) > c.cap THEN Failed(c) ELSE Put(c, w)
  BY ZenonT(20) DEF Write
<1> HIDE DEF w
<1>4. Write(c, id, o) = IF Size(d) + Size(u) > cap THEN Failed(c) ELSE Put(c, u)
  BY ZenonT(20), <1>1, <1>2, <1>3 DEF Size
<1>5. Failed(c) = Wrote(cap, d, e + 1)
  BY Fails DEF c
<1>6. QED
  BY ZenonT(20), <1>4, <1>5 DEF c

(* A context that has written d and then the octets u, or has failed.      *)
Goes(c, cap, d, e, u) ==
  \/ c = Wrote(cap, d, e + 1)
  \/ Size(u) \in Nat /\ Size(d) + Size(u) <= cap /\ c = Put(Wrote(cap, d, e), u)

LEMMA ValueGoes ==
  ASSUME NEW d \in OctetStrings, NEW cap \in Nat, NEW e, NEW id \in Byte, NEW o \in OctetStrings,
         Size(o) > 0, NEW u, u = Chunk(id, o)
  PROVE  Goes(Write(Wrote(cap, d, e), id, o), cap, d, e, u)
<1>1. PICK v \in Nat : Size(u) = v + Size(o)
  BY ChunkSized
<1>2. Size(o) \in Nat /\ Size(d) \in Nat
  BY SizeIsNat
<1>3. Size(u) \in Nat
  BY <1>1, <1>2
<1>4. \/ Size(d) + Size(u) > cap
      \/ ~(Size(d) + Size(u) > cap) /\ Size(d) + Size(u) <= cap
  BY <1>2, <1>3
<1>5. Write(Wrote(cap, d, e), id, o) =
        IF Size(d) + Size(u) > cap THEN Wrote(cap, d, e + 1) ELSE Put(Wrote(cap, d, e), u)
  BY WriteIs
<1>6. QED
  BY ZenonT(20), <1>3, <1>4, <1>5 DEF Goes

LEMMA StartGoes ==
  ASSUME NEW d \in OctetStrings, NEW cap \in Nat, NEW e, NEW id \in Byte, NEW u, u = Pair(id, 128)
  PROVE  Goes(Write(Wrote(cap, d, e), id, <<>>), cap, d, e, u)
<1>1. LengthOctets(0) = Octet(128)
  BY DEF LengthOctets, Octet
<1>2. Size(<<>>) = 0 /\ <<>> \in OctetStrings /\ Size(d) \in Nat
  BY SizeIsNat
<1>3. u = Chunk(id, <<>>)
  BY ZenonT(20), <1>1, <1>2 DEF Chunk, Pair
<1>4. Size(u) \in Nat
  <2>1. 128 \in Byte
    BY DEF Byte
  <2>2. Pair(id, 128) \in OctetStrings
    BY <1>2, <2>1, PairOctets
  <2>3. QED
    BY <2>2, SizeIsNat
<1>5. \/ Size(d) + Size(u) > cap
      \/ ~(Size(d) + Size(u) > cap) /\ Size(d) + Size(u) <= cap
  BY <1>2, <1>4
<1>6. Write(Wrote(cap, d, e), id, <<>>) =
        IF Size(d) + Size(u) > cap THEN Wrote(cap, d, e + 1) ELSE Put(Wrote(cap, d, e), u)
  BY <1>3, WriteIs
<1>7. QED
  BY ZenonT(20), <1>4, <1>5, <1>6 DEF Goes

LEMMA EndGoes ==
  ASSUME NEW d \in OctetStrings, NEW cap \in Nat, NEW e
  PROVE  Goes(WriteEndOfContents(Wrote(cap, d, e)), cap, d, e, Pair(0, 0))
<1> DEFINE c == Wrote(cap, d, e)
           u == Pair(0, 0)
<1>1. u = <<0, 0>>
  <2>1. <<0>> \o <<0>> = <<0, 0>>
    <3> DEFINE z == <<0>>
               w == <<0, 0>>
               x == z \o z
    <3>1. z \in Seq(Nat) /\ Len(z) = 1 /\ z[1] = 0
      OBVIOUS
    <3>2. w \in Seq(Nat) /\ Len(w) = 2 /\ w[1] = 0 /\ w[2] = 0
      OBVIOUS
    <3> HIDE DEF z, w
    <3>3. x \in Seq(Nat) /\ Len(x) = 2
      <4>1. x \in Seq(Nat) /\ Len(x) = Len(z) + Len(z)
        BY ZenonT(40), <3>1, ConcatProperties
      <4> HIDE DEF x
      <4>2. QED
        BY <3>1, <4>1
    <3>4. x[1] = 0 /\ x[2] = 0
      <4>1. \A i \in 1..(Len(z) + Len(z)) : x[i] = IF i <= Len(z) THEN z[i] ELSE z[i - Len(z)]
        BY ZenonT(40), <3>1, ConcatProperties
      <4>2. \A i \in 1..(1 + 1) : x[i] = IF i <= 1 THEN z[i] ELSE z[i - 1]
        BY ZenonT(20), <3>1, <4>1
      <4> HIDE DEF x
      <4>3. x[1] = z[1] /\ x[2] = z[2 - 1]
        BY <4>2
      <4>4. QED
        BY <3>1, <4>3
    <3> HIDE DEF x
    <3>5. \A i \in 1..Len(x) : x[i] = w[i]
      BY <3>2, <3>3, <3>4
    <3>6. x = w
      BY <3>2, <3>3, <3>5, SeqEqual
    <3>7. QED
      BY <3>6 DEF x, z, w
  <2>2. <<0, 0>> \o <<>> = <<0, 0>>
    OBVIOUS
  <2>3. QED
    BY ZenonT(20), <2>1, <2>2 DEF Pair, Cat, Octet
<1>2. Size(u) = 2
  BY <1>1 DEF Size
<1>3. c.pos = Size(d) /\ c.cap = cap /\ Failed(c) = Wrote(cap, d, e + 1)
  BY Fails DEF Wrote
<1>4. Size(d) \in Nat
  BY SizeIsNat
<1> HIDE DEF c, u
<1>5. WriteEndOfContents(c) = IF Size(d) + 2 > cap THEN Failed(c) ELSE Put(c, u)
  BY ZenonT(20), <1>1, <1>3 DEF WriteEndOfContents
<1>6. Size(d) + 2 > cap \/ (~(Size(d) + 2 > cap) /\ Size(d) + Size(u) <= cap)
  BY <1>2, <1>4
<1>7. Size(u) \in Nat
  BY <1>2
<1>8. QED
  BY ZenonT(20), <1>3, <1>5, <1>6, <1>7 DEF Goes, c, u

LEMMA StepGoes ==
  ASSUME NEW d \in OctetStrings, NEW cap \in Nat, NEW e, NEW s \in WriteStepSet
  PROVE  Goes(WriteStep(Wrote(cap, d, e), s), cap, d, e, OctetsOf(s))
<1> DEFINE c == Wrote(cap, d, e)
<1>0. c.mode = "ENCODE" /\ \A id \in {1, 2, 4, 10, 48} : id \in Byte
  BY DEF Wrote, Byte
<1>1. ASSUME NEW n \in Int, s.v = <<n>>, s.do = "write_integer"
      PROVE  Goes(WriteStep(c, s), cap, d, e, OctetsOf(s))
  <2>1. WriteStep(c, s) = Write(c, 2, IntegerOctets(n)) /\ OctetsOf(s) = Chunk(2, IntegerOctets(n))
    BY <1>1 DEF WriteStep, OctetsOf, st_asn1_write_integer, UNIVERSAL, ST_INTEGER
  <2>2. IntegerOctets(n) \in OctetStrings /\ Size(IntegerOctets(n)) > 0
    BY IntegersSized
  <2> HIDE DEF c
  <2>3. Goes(Write(c, 2, IntegerOctets(n)), cap, d, e, Chunk(2, IntegerOctets(n)))
    BY <1>0, <2>2, ValueGoes DEF c
  <2>4. QED
    BY ZenonT(20), <2>1, <2>3
<1>2. ASSUME NEW n \in Int, s.v = <<n>>, s.do = "write_enumerated"
      PROVE  Goes(WriteStep(c, s), cap, d, e, OctetsOf(s))
  <2>1. WriteStep(c, s) = Write(c, 10, IntegerOctets(n)) /\ OctetsOf(s) = Chunk(10, IntegerOctets(n))
    BY <1>2 DEF WriteStep, OctetsOf, st_asn1_write_enumerated, UNIVERSAL, ST_ENUMERATED
  <2>2. IntegerOctets(n) \in OctetStrings /\ Size(IntegerOctets(n)) > 0
    BY IntegersSized
  <2> HIDE DEF c
  <2>3. Goes(Write(c, 10, IntegerOctets(n)), cap, d, e, Chunk(10, IntegerOctets(n)))
    BY <1>0, <2>2, ValueGoes DEF c
  <2>4. QED
    BY ZenonT(20), <2>1, <2>3
<1>3. ASSUME NEW n \in Int, s.v = <<n>>, s.do = "write_boolean"
      PROVE  Goes(WriteStep(c, s), cap, d, e, OctetsOf(s))
  <2> DEFINE x == IF n # 0 THEN 255 ELSE 0
             o == Octet(x)
  <2>1. WriteStep(c, s) = Write(c, 1, o) /\ OctetsOf(s) = Chunk(1, o)
    <3>1. o = IF n # 0 THEN <<255>> ELSE <<0>>
      BY DEF Octet
    <3> HIDE DEF o
    <3>2. QED
      BY <1>3, <3>1 DEF WriteStep, OctetsOf, st_asn1_write_boolean, UNIVERSAL, ST_BOOLEAN
  <2>2. x \in Byte
    BY DEF Byte
  <2> HIDE DEF x
  <2>3. o \in OctetStrings /\ Size(o) > 0
    BY <2>2, SizeIsNat
  <2> HIDE DEF c, o
  <2>4. Goes(Write(c, 1, o), cap, d, e, Chunk(1, o))
    BY <1>0, <2>3, ValueGoes DEF c
  <2>5. QED
    BY ZenonT(20), <2>1, <2>4
<1>4. ASSUME s.v \in OctetStrings, s.v # <<>>, s.do = "write_octet_string"
      PROVE  Goes(WriteStep(c, s), cap, d, e, OctetsOf(s))
  <2> DEFINE o == s.v
  <2>1. WriteStep(c, s) = Write(c, 4, o) /\ OctetsOf(s) = Chunk(4, o)
    BY <1>4 DEF WriteStep, OctetsOf, st_asn1_write_octet_string, UNIVERSAL, ST_OCTET_STRING
  <2>2. o \in OctetStrings /\ Size(o) > 0
    <3>1. Len(s.v) > 0
      BY <1>4, OctetAt
    <3>2. QED
      BY <1>4, <3>1 DEF Size
  <2> HIDE DEF c, o
  <2>3. Goes(Write(c, 4, o), cap, d, e, Chunk(4, o))
    BY <1>0, <2>2, ValueGoes DEF c
  <2>4. QED
    BY ZenonT(20), <2>1, <2>3
<1>5. ASSUME s.do = "start_sequence" PROVE Goes(WriteStep(c, s), cap, d, e, OctetsOf(s))
  <2>1. WriteStep(c, s) = Write(c, 48, <<>>) /\ OctetsOf(s) = Pair(48, 128)
    BY <1>0, <1>5 DEF WriteStep, OctetsOf, st_asn1_start_sequence, StartOf, CONSTRUCTED, ST_SEQUENCE
  <2> HIDE DEF c
  <2>2. Goes(Write(c, 48, <<>>), cap, d, e, Pair(48, 128))
    BY <1>0, StartGoes DEF c
  <2>3. QED
    BY ZenonT(20), <2>1, <2>2
<1>6. ASSUME s.do \in {"finish_sequence", "finish_context_specific"}
      PROVE  Goes(WriteStep(c, s), cap, d, e, OctetsOf(s))
  <2>1. WriteStep(c, s) = WriteEndOfContents(c) /\ OctetsOf(s) = Pair(0, 0)
    BY <1>0, <1>6 DEF WriteStep, OctetsOf, st_asn1_finish_sequence,
       st_asn1_finish_context_specific, Finish
  <2> HIDE DEF c
  <2>2. Goes(WriteEndOfContents(c), cap, d, e, Pair(0, 0))
    BY EndGoes DEF c
  <2>3. QED
    BY ZenonT(20), <2>1, <2>2
<1>7. ASSUME NEW n \in 0..30, s.v = <<n>>, s.do = "start_context_specific"
      PROVE  Goes(WriteStep(c, s), cap, d, e, OctetsOf(s))
  <2> DEFINE x == 160 + n
  <2>1. WriteStep(c, s) = Write(c, x, <<>>) /\ OctetsOf(s) = Pair(x, 128)
    <3>1. CONSTRUCTED + CONTEXT_SPECIFIC + n = x
      BY DEF CONSTRUCTED, CONTEXT_SPECIFIC
    <3>2. OctetsOf(s) = Pair(160 + n, 128)
      BY <1>7 DEF OctetsOf
    <3>3. WriteStep(c, s) = StartOf(c, CONSTRUCTED + CONTEXT_SPECIFIC + n)
      BY <1>7 DEF WriteStep, st_asn1_start_context_specific
    <3> HIDE DEF x, c
    <3>4. WriteStep(c, s) = Write(c, x, <<>>)
      BY ZenonT(20), <1>0, <3>1, <3>3 DEF StartOf, c
    <3>5. QED
      BY <3>2, <3>4 DEF x
  <2>2. x \in Byte
    BY DEF Byte
  <2> HIDE DEF c, x
  <2>3. Goes(Write(c, x, <<>>), cap, d, e, Pair(x, 128))
    BY <2>2, StartGoes DEF c
  <2>4. QED
    BY ZenonT(20), <2>1, <2>3
<1>8. \/ s.do \in {"write_integer", "write_enumerated", "write_boolean"} /\ \E n \in Int : s.v = <<n>>
      \/ s.do = "write_octet_string" /\ s.v \in OctetStrings /\ s.v # <<>>
      \/ s.do \in {"start_sequence", "finish_sequence", "finish_context_specific"}
      \/ s.do = "start_context_specific" /\ \E n \in 0..30 : s.v = <<n>>
  BY DEF WriteStepSet
<1> HIDE DEF c
<1>9. Goes(WriteStep(c, s), cap, d, e, OctetsOf(s))
  BY <1>1, <1>2, <1>3, <1>4, <1>5, <1>6, <1>7, <1>8
<1>10. QED
  BY <1>9 DEF c

LEMMA SaysTyped ==
  ASSUME NEW s \in WriteStepSet
  PROVE  Says(s) \in [tag : Tags, v : Seq(Int)]
<1>1. ASSUME NEW n \in Int, s.v = <<n>>, s.do \in {"write_integer", "write_enumerated"}
      PROVE  Says(s) \in [tag : Tags, v : Seq(Int)]
  <2>1. <<n>> \in Seq(Int)
    OBVIOUS
  <2>2. QED
    BY <1>1, <2>1 DEF Says, Tags
<1>2. ASSUME NEW n \in Int, s.v = <<n>>, s.do = "write_boolean"
      PROVE  Says(s) \in [tag : Tags, v : Seq(Int)]
  <2> DEFINE b == IF n = 0 THEN 0 ELSE 1
  <2>1. b \in Int
    OBVIOUS
  <2>2. Says(s) = [tag |-> "BOOLEAN", v |-> <<b>>]
    BY <1>2 DEF Says
  <2> HIDE DEF b
  <2>3. <<b>> \in Seq(Int)
    BY <2>1
  <2>4. QED
    BY <2>2, <2>3 DEF Tags
<1>3. ASSUME s.v \in OctetStrings, s.do = "write_octet_string"
      PROVE  Says(s) \in [tag : Tags, v : Seq(Int)]
  <2>1. s.v \in Seq(Int)
    BY <1>3, OctetsAreInts
  <2>2. QED
    BY <1>3, <2>1 DEF Says, Tags
<1>4. ASSUME s.do \in {"start_sequence", "finish_sequence", "finish_context_specific"}
      PROVE  Says(s) \in [tag : Tags, v : Seq(Int)]
  <2>1. <<>> \in Seq(Int)
    OBVIOUS
  <2>2. QED
    BY <1>4, <2>1 DEF Says, Tags
<1>5. ASSUME NEW n \in 0..30, s.v = <<n>>, s.do = "start_context_specific"
      PROVE  Says(s) \in [tag : Tags, v : Seq(Int)]
  <2>1. n \in Int
    OBVIOUS
  <2>2. <<n>> \in Seq(Int)
    BY <2>1
  <2>3. QED
    BY <1>5, <2>2 DEF Says, Tags
<1>6. \/ s.do \in {"write_integer", "write_enumerated", "write_boolean"} /\ \E n \in Int : s.v = <<n>>
      \/ s.do = "write_octet_string" /\ s.v \in OctetStrings /\ s.v # <<>>
      \/ s.do \in {"start_sequence", "finish_sequence", "finish_context_specific"}
      \/ s.do = "start_context_specific" /\ \E n \in 0..30 : s.v = <<n>>
  BY DEF WriteStepSet
<1>7. QED
  BY <1>1, <1>2, <1>3, <1>4, <1>5, <1>6

(* What the first k steps say, and what all of them say. *)
Told(steps, k) == [i \in 1..k |-> Says(steps[i])]
Meaning(steps) == Told(steps, Len(steps))

LEMMA ToldNext ==
  ASSUME NEW steps \in Seq(WriteStepSet)
  PROVE  /\ Told(steps, 0) = <<>>
         /\ \A k \in 0..Len(steps) : Told(steps, k) \in ElementSeqs /\ Len(Told(steps, k)) = k
         /\ \A k \in 1..Len(steps) : Told(steps, k) = Told(steps, k - 1) \o <<Says(steps[k])>>
<1> DEFINE n == Len(steps)
           R == [tag : Tags, v : Seq(Int)]
<1>1. n \in Nat /\ \A i \in 1..n : steps[i] \in WriteStepSet
  BY LenProperties
<1> HIDE DEF n, R
<1>2. \A i \in 1..n : Says(steps[i]) \in R
  BY <1>1, SaysTyped DEF R
<1>3. ASSUME NEW k \in 0..n PROVE Told(steps, k) \in Seq(R) /\ Len(Told(steps, k)) = k
  <2>1. k \in Nat /\ \A i \in 1..k : Says(steps[i]) \in R
    BY <1>1, <1>2
  <2>2. Told(steps, k) \in [1..k -> R]
    BY <2>1 DEF Told
  <2>3. QED
    BY <2>1, <2>2
<1>4. Told(steps, 0) = <<>>
  BY DEF Told
<1>5. ASSUME NEW k \in 1..n PROVE Told(steps, k) = Told(steps, k - 1) \o <<Says(steps[k])>>
  <2> DEFINE a == Told(steps, k - 1)
             b == Told(steps, k)
             e == Says(steps[k])
  <2>1. k - 1 \in 0..n /\ k \in 0..n /\ k \in Nat /\ k \in 1..n
    BY <1>1
  <2>2. a \in Seq(R) /\ Len(a) = k - 1 /\ b \in Seq(R) /\ Len(b) = k
    BY <1>3, <2>1
  <2>3. e \in R
    BY <1>2, <2>1
  <2>4. \A i \in 1..(k - 1) : a[i] = b[i]
    BY <2>1 DEF Told
  <2>5. b[k] = e
    BY <2>1 DEF Told
  <2> HIDE DEF a, b, e
  <2> DEFINE c == Append(a, e)
  <2>6. c = a \o <<e>>
    BY <2>2, <2>3, AppendIsConcat
  <2>7. c \in Seq(R) /\ Len(c) = k /\ \A i \in 1..(k - 1) : c[i] = a[i]
    BY <2>1, <2>2, <2>3, AppendProperties
  <2>8. c[k] = e
    <3>1. c[Len(a) + 1] = e
      BY <2>2, <2>3, AppendProperties
    <3>2. Len(a) + 1 = k
      BY <2>1, <2>2
    <3> HIDE DEF c
    <3>3. QED
      BY <3>1, <3>2
  <2> HIDE DEF c
  <2>9. \A i \in 1..Len(b) : b[i] = c[i]
    <3> SUFFICES ASSUME NEW i \in 1..k PROVE b[i] = c[i]
      BY <2>2
    <3>1. i = k \/ i \in 1..(k - 1)
      BY <2>1
    <3>2. QED
      BY <2>4, <2>5, <2>7, <2>8, <3>1
  <2>10. b = c
    BY <2>2, <2>7, <2>9, SeqEqual
  <2>11. QED
    BY <2>6, <2>10 DEF a, b, e
<1>6. QED
  BY <1>3, <1>4, <1>5 DEF ElementSeqs, n, R

(* Sequences of elements, and octets, one after the other.                 *)
LEMMA Chains ==
  /\ <<>> \in ElementSeqs
  /\ \A a, b \in ElementSeqs : a \o b \in ElementSeqs
  /\ \A a, b, c \in ElementSeqs : (a \o b) \o c = a \o (b \o c)
  /\ \A a \in ElementSeqs : <<>> \o a = a /\ a \o <<>> = a
  /\ \A a, b, c \in OctetStrings : Cat(Cat(a, b), c) = Cat(a, Cat(b, c))
  /\ \A a \in OctetStrings : Cat(<<>>, a) = a /\ Cat(a, <<>>) = a
<1>1. <<>> \in ElementSeqs
  BY EmptySeq DEF ElementSeqs
<1>2. \A a, b \in ElementSeqs : a \o b \in ElementSeqs
  BY ConcatProperties DEF ElementSeqs
<1>3. \A a, b, c \in ElementSeqs : (a \o b) \o c = a \o (b \o c)
  BY ConcatAssociative DEF ElementSeqs
<1>4. \A a \in ElementSeqs : <<>> \o a = a /\ a \o <<>> = a
  BY ConcatEmptySeq DEF ElementSeqs
<1>5. \A a, b, c \in OctetStrings : Cat(Cat(a, b), c) = Cat(a, Cat(b, c))
  BY ConcatAssociative DEF OctetStrings, Cat
<1>6. \A a \in OctetStrings : Cat(<<>>, a) = a /\ Cat(a, <<>>) = a
  BY ConcatEmptySeq DEF OctetStrings, Cat
<1>7. QED
  BY <1>1, <1>2, <1>3, <1>4, <1>5, <1>6

(* The octets d are read as the elements es.                               *)
ReadsAs(d, es) == \A t \in OctetStrings : Elements[Cat(d, t)] = es \o Elements[t]

LEMMA ReadOn ==
  ASSUME NEW d \in OctetStrings, NEW es \in ElementSeqs, ReadsAs(d, es),
         NEW u \in OctetStrings, NEW e, <<e>> \in ElementSeqs, ReadAs(u, e)
  PROVE  ReadsAs(Cat(d, u), es \o <<e>>)
<1> SUFFICES ASSUME NEW t \in OctetStrings
             PROVE  Elements[Cat(Cat(d, u), t)] = (es \o <<e>>) \o Elements[t]
  BY DEF ReadsAs
<1>1. Cat(Cat(d, u), t) = Cat(d, Cat(u, t))
  BY Chains
<1>2. Cat(u, t) \in OctetStrings
  BY CatOctets
<1>3. Elements[Cat(d, Cat(u, t))] = es \o Elements[Cat(u, t)]
  BY ZenonT(20), <1>2 DEF ReadsAs
<1>4. Elements[Cat(u, t)] = <<e>> \o Elements[t]
  BY ZenonT(20) DEF ReadAs
<1>5. Elements[t] \in ElementSeqs
  BY ElementsEquation
<1>6. (es \o <<e>>) \o Elements[t] = es \o (<<e>> \o Elements[t])
  BY ZenonT(20), <1>5, Chains
<1>7. QED
  BY ZenonT(20), <1>1, <1>3, <1>4, <1>6

(* A context after some of the steps: what it holds was asked for, unless  *)
(* something did not fit.                                                  *)
Faithful(c, cap, es) ==
  \E d \in OctetStrings : \E e \in Nat :
    c = Wrote(cap, d, e) /\ Size(d) <= cap /\ (e = 0 => ReadsAs(d, es))

LEMMA FillStart ==
  ASSUME NEW cap \in Nat
  PROVE  Faithful(st_asn1_init("ENCODE", <<>>, cap), cap, <<>>)
<1>1. <<>> \in OctetStrings /\ Size(<<>>) = 0 /\ 0 <= cap
  BY SizeIsNat
<1>2. st_asn1_init("ENCODE", <<>>, cap) = Wrote(cap, <<>>, 0)
  BY <1>1 DEF st_asn1_init, Wrote
<1>3. ReadsAs(<<>>, <<>>)
  <2> SUFFICES ASSUME NEW t \in OctetStrings PROVE Elements[Cat(<<>>, t)] = <<>> \o Elements[t]
    BY DEF ReadsAs
  <2>1. Elements[t] \in ElementSeqs
    BY ElementsEquation
  <2>2. QED
    BY ZenonT(20), <2>1, Chains
<1>4. Size(<<>>) <= cap /\ 0 \in Nat
  BY <1>1
<1>5. QED
  BY ZenonT(20), <1>1, <1>2, <1>3, <1>4 DEF Faithful

LEMMA FillStep ==
  ASSUME NEW cap \in Nat, Small(cap), NEW c, NEW es \in ElementSeqs, Faithful(c, cap, es),
         NEW s \in WriteStepSet
  PROVE  Faithful(WriteStep(c, s), cap, es \o <<Says(s)>>)
<1>1. PICK d \in OctetStrings, e \in Nat :
        c = Wrote(cap, d, e) /\ Size(d) <= cap /\ (e = 0 => ReadsAs(d, es))
  BY DEF Faithful
<1> DEFINE u == OctetsOf(s)
           w == WriteStep(c, s)
<1>2. Goes(w, cap, d, e, u)
  BY <1>1, StepGoes
<1>3. <<Says(s)>> \in ElementSeqs
  <2>1. Says(s) \in [tag : Tags, v : Seq(Int)]
    BY SaysTyped
  <2>2. QED
    BY <2>1 DEF ElementSeqs
<1> HIDE DEF u, w
<1>4. CASE w = Wrote(cap, d, e + 1)
  <2>1. e + 1 \in Nat /\ e + 1 # 0
    OBVIOUS
  <2>2. QED
    BY ZenonT(20), <1>1, <1>4, <2>1 DEF Faithful, w
<1>5. CASE Size(u) \in Nat /\ Size(d) + Size(u) <= cap /\ w = Put(Wrote(cap, d, e), u)
  <2>1. Size(d) \in Nat
    BY SizeIsNat
  <2>2. Size(u) <= cap
    BY <1>5, <2>1
  <2>3. Small(Size(u))
    BY <1>5, <2>2, Smalls
  <2>4. ReadAs(u, Says(s))
    BY <2>3, StepRead DEF u
  <2>5. u \in OctetStrings
    BY <2>4 DEF ReadAs
  <2>6. w = Wrote(cap, Cat(d, u), e)
    BY <1>5, <2>5, Puts
  <2>7. Cat(d, u) \in OctetStrings /\ Size(Cat(d, u)) <= cap
    BY <1>5, <2>5, CatOctets
  <2>8. e = 0 => ReadsAs(Cat(d, u), es \o <<Says(s)>>)
    <3> SUFFICES ASSUME e = 0 PROVE ReadsAs(Cat(d, u), es \o <<Says(s)>>)
      OBVIOUS
    <3>1. ReadsAs(d, es)
      BY <1>1
    <3>2. QED
      BY <1>3, <2>4, <2>5, <3>1, ReadOn
  <2>9. QED
    BY ZenonT(20), <2>6, <2>7, <2>8 DEF Faithful, w
<1>6. QED
  BY <1>2, <1>4, <1>5 DEF Goes

LEMMA Filling ==
  ASSUME NEW steps \in Seq(WriteStepSet), NEW cap \in Nat, Small(cap)
  PROVE  \A k \in 0..Len(steps) : Faithful(Writing(steps, cap)[k], cap, Told(steps, k))
<1> DEFINE n == Len(steps)
           f == Writing(steps, cap)
           S == {k \in 0..n : Faithful(f[k], cap, Told(steps, k))}
<1>1. n \in Nat /\ \A k \in 1..n : steps[k] \in WriteStepSet
  BY LenProperties
<1>2. /\ f[0] = st_asn1_init("ENCODE", <<>>, cap)
      /\ \A k \in 1..n : f[k] = WriteStep(f[k - 1], steps[k])
  BY <1>1, WritingSteps
<1>3. /\ Told(steps, 0) = <<>>
      /\ \A k \in 0..n : Told(steps, k) \in ElementSeqs
      /\ \A k \in 1..n : Told(steps, k) = Told(steps, k - 1) \o <<Says(steps[k])>>
  BY ToldNext
<1> HIDE DEF n, f
<1>4. 0 \in S
  <2>1. 0 \in 0..n
    BY <1>1
  <2>2. Faithful(f[0], cap, Told(steps, 0))
    BY <1>2, <1>3, FillStart
  <2>3. QED
    BY <2>1, <2>2
<1>5. ASSUME NEW k \in 1..n, k - 1 \in S PROVE k \in S
  <2>1. k \in 0..n /\ k - 1 \in 0..n
    BY <1>1
  <2>2. Faithful(f[k - 1], cap, Told(steps, k - 1)) /\ Told(steps, k - 1) \in ElementSeqs
    BY <1>3, <1>5, <2>1
  <2>3. Faithful(WriteStep(f[k - 1], steps[k]), cap, Told(steps, k - 1) \o <<Says(steps[k])>>)
    BY <1>1, <2>2, FillStep
  <2>4. Faithful(f[k], cap, Told(steps, k))
    BY ZenonT(20), <1>2, <1>3, <2>3
  <2>5. QED
    BY <2>1, <2>4
<1> HIDE DEF S
<1>6. \A k \in 0..n : k \in S
  BY <1>1, <1>4, <1>5, StepInduction
<1>7. QED
  BY <1>6 DEF S, n, f

(* What a request holds that a function has written with any steps into a  *)
(* buffer of any size its length can have: a card takes it apart into just *)
(* what the steps said, or its size is negative (st_asn1_write_* and       *)
(* st_asn1_finalize of asn1.c, and the grammar of DesfireTag.c).           *)
THEOREM EncodeMeans ==
  ASSUME NEW steps \in Seq(WriteStepSet), NEW cap \in Nat, Small(cap)
  PROVE  /\ Encode(steps, cap).octets \in OctetStrings
         /\ Len(Encode(steps, cap).octets) <= cap
         /\ \/ /\ Encode(steps, cap).size = Len(Encode(steps, cap).octets)
               /\ Elements[Encode(steps, cap).octets] = Meaning(steps)
            \/ Encode(steps, cap).size \in Int /\ Encode(steps, cap).size < 0
<1> DEFINE n == Len(steps)
           c == Writing(steps, cap)[n]
           r == Encode(steps, cap)
<1>1. r = [size |-> st_asn1_finalize(c), octets |-> Written(c)]
  BY DEF Encode
<1>2. Faithful(c, cap, Told(steps, n))
  <2>1. n \in Nat /\ n \in 0..n
    BY LenProperties
  <2>2. QED
    BY <2>1, Filling
<1>3. PICK d \in OctetStrings, e \in Nat :
        c = Wrote(cap, d, e) /\ Size(d) <= cap /\ (e = 0 => ReadsAs(d, Told(steps, n)))
  BY <1>2 DEF Faithful
<1>4. Told(steps, n) \in ElementSeqs
  <2>1. n \in 0..n
    BY LenProperties
  <2>2. QED
    BY <2>1, ToldNext
<1> HIDE DEF n, c, r
<1>5. r.octets = d
  <2>1. r.octets = SubSeq(d, 1, Len(d))
    BY <1>1, <1>3 DEF Written, Wrote, Size
  <2>2. QED
    BY <2>1, SubSeqFull DEF OctetStrings
<1>6. r.size = IF e > 0 THEN -e ELSE Size(d)
  BY <1>1, <1>3 DEF st_asn1_finalize, Wrote
<1>7. CASE e = 0
  <2>1. ReadsAs(d, Told(steps, n))
    BY <1>3, <1>7
  <2>2. <<>> \in OctetStrings
    BY SizeIsNat
  <2>3. Elements[Cat(d, <<>>)] = Told(steps, n) \o Elements[<<>>]
    BY ZenonT(20), <2>1, <2>2 DEF ReadsAs
  <2>4. Elements[<<>>] = <<>>
    <3>1. Elements[<<>>] = ElementsBody(Elements, <<>>)
      BY <2>2, ElementsEquation
    <3>2. QED
      BY ZenonT(20), <3>1 DEF ElementsBody
  <2>5. Elements[d] = Told(steps, n)
    BY ZenonT(20), <1>4, <2>3, <2>4, Chains
  <2>6. r.size = Size(d)
    BY <1>6, <1>7
  <2>7. QED
    BY <1>3, <1>5, <2>5, <2>6 DEF r, n, Size, Meaning
<1>8. CASE e # 0
  <2>1. r.size = -e /\ -e \in Int /\ -e < 0
    BY <1>6, <1>8
  <2>2. QED
    BY <1>3, <1>5, <2>1 DEF r, Size
<1>9. QED
  BY <1>7, <1>8

-----------------------------------------------------------------------------
(* What the constructors of a request mean                                 *)

Means(steps, es) == steps \in Seq(WriteStepSet) /\ Meaning(steps) = es

LEMMA MeaningLength ==
  ASSUME NEW steps \in Seq(WriteStepSet)
  PROVE  /\ Len(steps) \in Nat /\ Len(Meaning(steps)) = Len(steps)
         /\ Meaning(steps) \in ElementSeqs
         /\ \A i \in 1..Len(steps) : Meaning(steps)[i] = Says(steps[i])
<1>1. Len(steps) \in Nat /\ Len(steps) \in 0..Len(steps)
  BY LenProperties
<1>2. Meaning(steps) \in ElementSeqs /\ Len(Meaning(steps)) = Len(steps)
  BY <1>1, ToldNext DEF Meaning
<1>3. \A i \in 1..Len(steps) : Meaning(steps)[i] = Says(steps[i])
  BY DEF Meaning, Told
<1>4. QED
  BY <1>1, <1>2, <1>3

LEMMA MeaningJoins ==
  ASSUME NEW a \in Seq(WriteStepSet), NEW b \in Seq(WriteStepSet)
  PROVE  a \o b \in Seq(WriteStepSet) /\ Meaning(a \o b) = Meaning(a) \o Meaning(b)
<1> DEFINE c == a \o b
           R == [tag : Tags, v : Seq(Int)]
           x == Meaning(a)
           y == Meaning(b)
           z == Meaning(c)
           m == Len(a)
           n == Len(b)
<1>1. /\ c \in Seq(WriteStepSet) /\ Len(c) = m + n
      /\ \A i \in 1..(m + n) : c[i] = IF i <= m THEN a[i] ELSE b[i - m]
  BY ConcatProperties
<1>2. /\ m \in Nat /\ n \in Nat /\ Len(x) = m /\ Len(y) = n /\ x \in Seq(R) /\ y \in Seq(R)
      /\ \A i \in 1..m : x[i] = Says(a[i])
      /\ \A i \in 1..n : y[i] = Says(b[i])
  BY MeaningLength DEF ElementSeqs
<1> HIDE DEF c
<1>3. z \in Seq(R) /\ Len(z) = m + n /\ \A i \in 1..(m + n) : z[i] = Says(c[i])
  <2>1. /\ z \in Seq(R) /\ Len(z) = Len(c)
        /\ \A i \in 1..Len(c) : z[i] = Says(c[i])
    BY <1>1, MeaningLength DEF ElementSeqs
  <2>2. QED
    BY ZenonT(20), <1>1, <2>1
<1> HIDE DEF x, y, z, m, n, R
<1> DEFINE w == x \o y
<1>4. /\ w \in Seq(R) /\ Len(w) = m + n
      /\ \A i \in 1..(m + n) : w[i] = IF i <= m THEN x[i] ELSE y[i - m]
  <2>1. /\ w \in Seq(R) /\ Len(w) = Len(x) + Len(y)
        /\ \A i \in 1..(Len(x) + Len(y)) : w[i] = IF i <= Len(x) THEN x[i] ELSE y[i - Len(x)]
    BY <1>2, ConcatProperties
  <2> HIDE DEF w
  <2>2. QED
    BY ZenonT(20), <1>2, <2>1
<1> HIDE DEF w
<1>5. ASSUME NEW i \in 1..(m + n) PROVE z[i] = w[i]
  <2>1. CASE i <= m
    <3>1. i \in 1..m
      BY <1>2, <2>1
    <3>2. c[i] = a[i] /\ w[i] = x[i]
      BY ZenonT(20), <1>1, <1>4, <2>1
    <3>3. QED
      BY ZenonT(20), <1>2, <1>3, <3>1, <3>2
  <2>2. CASE ~(i <= m)
    <3>1. i - m \in 1..n
      BY <1>2, <2>2
    <3>2. c[i] = b[i - m] /\ w[i] = y[i - m]
      BY ZenonT(20), <1>1, <1>4, <2>2
    <3>3. QED
      BY ZenonT(20), <1>2, <1>3, <3>1, <3>2
  <2>3. QED
    BY <2>1, <2>2
<1>6. z = w
  <2>1. \A i \in 1..Len(z) : z[i] = w[i]
    BY ZenonT(20), <1>3, <1>5
  <2>2. Len(z) = Len(w)
    BY ZenonT(20), <1>3, <1>4
  <2>3. QED
    BY <1>3, <1>4, <2>1, <2>2, SeqEqual
<1>7. QED
  BY ZenonT(20), <1>1, <1>6 DEF c, w, x, y, z

LEMMA MeaningOne ==
  ASSUME NEW s \in WriteStepSet
  PROVE  Means(<<s>>, <<Says(s)>>)
<1> DEFINE o == <<s>>
           e == Says(s)
           w == <<e>>
           R == [tag : Tags, v : Seq(Int)]
<1>1. o \in Seq(WriteStepSet) /\ Len(o) = 1 /\ o[1] = s
  OBVIOUS
<1>2. e \in R
  BY SaysTyped
<1> HIDE DEF o, e, R
<1>3. w \in Seq(R) /\ Len(w) = 1 /\ w[1] = e
  BY <1>2
<1>4. Meaning(o) \in Seq(R) /\ Len(Meaning(o)) = 1 /\ \A i \in 1..1 : Meaning(o)[i] = Says(o[i])
  <2>1. /\ Len(Meaning(o)) = Len(o) /\ Meaning(o) \in Seq(R)
        /\ \A i \in 1..Len(o) : Meaning(o)[i] = Says(o[i])
    BY <1>1, MeaningLength DEF ElementSeqs, R
  <2>2. QED
    BY ZenonT(20), <1>1, <2>1
<1> HIDE DEF w
<1>5. \A i \in 1..Len(w) : Meaning(o)[i] = w[i]
  <2>1. \A i \in 1..1 : i = 1
    OBVIOUS
  <2>2. 1 \in 1..1
    OBVIOUS
  <2>3. Meaning(o)[1] = w[1]
    BY ZenonT(20), <1>1, <1>3, <1>4, <2>2 DEF e
  <2>4. QED
    BY ZenonT(20), <1>3, <2>1, <2>3
<1>6. Meaning(o) = w
  BY <1>3, <1>4, <1>5, SeqEqual
<1>7. QED
  BY ZenonT(20), <1>1, <1>6 DEF Means, o, w, e

(* The steps in sequence mean what each of them means.                     *)
LEMMA MeansParts ==
  /\ Means(<<>>, <<>>)
  /\ \A a, b, x, y : Means(a, x) /\ Means(b, y) => Means(a \o b, x \o y)
  /\ \A s \in WriteStepSet : Means(<<s>>, <<Says(s)>>)
<1>1. Means(<<>>, <<>>)
  <2>1. <<>> \in Seq(WriteStepSet) /\ Len(<<>>) = 0
    OBVIOUS
  <2>2. Told(<<>>, 0) = <<>>
    BY <2>1, ToldNext
  <2>3. QED
    BY ZenonT(20), <2>1, <2>2 DEF Means, Meaning
<1>2. \A a, b, x, y : Means(a, x) /\ Means(b, y) => Means(a \o b, x \o y)
  <2> SUFFICES ASSUME NEW a, NEW b, NEW x, NEW y, Means(a, x), Means(b, y)
               PROVE  Means(a \o b, x \o y)
    BY ZenonT(20)
  <2>1. a \in Seq(WriteStepSet) /\ b \in Seq(WriteStepSet) /\ Meaning(a) = x /\ Meaning(b) = y
    BY ZenonT(20) DEF Means
  <2>2. a \o b \in Seq(WriteStepSet) /\ Meaning(a \o b) = Meaning(a) \o Meaning(b)
    BY <2>1, MeaningJoins
  <2>3. QED
    BY ZenonT(20), <2>1, <2>2 DEF Means
<1>3. \A s \in WriteStepSet : Means(<<s>>, <<Says(s)>>)
  BY MeaningOne
<1>4. QED
  BY ZenonT(20), <1>1, <1>2, <1>3

LEMMA MeansValues ==
  /\ \A n \in Int : Means(INT(n), INTEGER(n))
  /\ \A n \in Int : Means(ENUM(n), ENUMERATED(n))
  /\ \A n \in Int : Means(BOOL(n), BOOLEAN_(IF n = 0 THEN 0 ELSE 1))
  /\ \A s \in OctetStrings \ {<<>>} : Means(OCTETS(s), OCTET_STRING(s))
<1>1. ASSUME NEW n \in Int PROVE Means(INT(n), INTEGER(n))
  <2> DEFINE s == [do |-> "write_integer", v |-> <<n>>]
  <2>1. s \in WriteStepSet
    BY DEF WriteStepSet
  <2>2. Says(s) = [tag |-> "INTEGER", v |-> <<n>>]
    BY DEF Says
  <2>3. Means(<<s>>, <<Says(s)>>)
    BY <2>1, MeansParts
  <2>4. QED
    BY ZenonT(20), <2>2, <2>3 DEF INT, Step, INTEGER, Element
<1>2. ASSUME NEW n \in Int PROVE Means(ENUM(n), ENUMERATED(n))
  <2> DEFINE s == [do |-> "write_enumerated", v |-> <<n>>]
  <2>1. s \in WriteStepSet
    BY DEF WriteStepSet
  <2>2. Says(s) = [tag |-> "ENUMERATED", v |-> <<n>>]
    BY DEF Says
  <2>3. Means(<<s>>, <<Says(s)>>)
    BY <2>1, MeansParts
  <2>4. QED
    BY ZenonT(20), <2>2, <2>3 DEF ENUM, Step, ENUMERATED, Element
<1>3. ASSUME NEW n \in Int PROVE Means(BOOL(n), BOOLEAN_(IF n = 0 THEN 0 ELSE 1))
  <2> DEFINE s == [do |-> "write_boolean", v |-> <<n>>]
  <2>1. s \in WriteStepSet
    BY DEF WriteStepSet
  <2>2. Says(s) = [tag |-> "BOOLEAN", v |-> <<IF n = 0 THEN 0 ELSE 1>>]
    BY DEF Says
  <2>3. Means(<<s>>, <<Says(s)>>)
    BY <2>1, MeansParts
  <2>4. QED
    BY ZenonT(20), <2>2, <2>3 DEF BOOL, Step, BOOLEAN_, Element
<1>4. ASSUME NEW o \in OctetStrings \ {<<>>} PROVE Means(OCTETS(o), OCTET_STRING(o))
  <2> DEFINE s == [do |-> "write_octet_string", v |-> o]
  <2>1. s \in WriteStepSet
    BY DEF WriteStepSet
  <2>2. Says(s) = [tag |-> "OCTET-STRING", v |-> o]
    BY DEF Says
  <2>3. Means(<<s>>, <<Says(s)>>)
    BY <2>1, MeansParts
  <2>4. QED
    BY ZenonT(20), <2>2, <2>3 DEF OCTETS, Step, OCTET_STRING, Element
<1>5. QED
  BY ZenonT(20), <1>1, <1>2, <1>3, <1>4

LEMMA MeansNested ==
  /\ \A a, x : Means(a, x) => Means(SEQUENCE(a), Braces(x))
  /\ \A a, x : \A n \in 0..30 : Means(a, x) => Means(CONTEXT(n, a), Tagged(n, x))
<1>1. Means(Step("start_sequence", <<>>), Element("SEQUENCE", <<>>))
  <2> DEFINE s == [do |-> "start_sequence", v |-> <<>>]
  <2>1. s \in WriteStepSet
    BY DEF WriteStepSet
  <2>2. Says(s) = [tag |-> "SEQUENCE", v |-> <<>>]
    BY DEF Says
  <2>3. Means(<<s>>, <<Says(s)>>)
    BY <2>1, MeansParts
  <2>4. QED
    BY ZenonT(20), <2>2, <2>3 DEF Step, Element
<1>2. Means(Step("finish_sequence", <<>>), Element("END", <<>>))
  <2> DEFINE s == [do |-> "finish_sequence", v |-> <<>>]
  <2>1. s \in WriteStepSet
    BY DEF WriteStepSet
  <2>2. Says(s) = [tag |-> "END", v |-> <<>>]
    BY DEF Says
  <2>3. Means(<<s>>, <<Says(s)>>)
    BY <2>1, MeansParts
  <2>4. QED
    BY ZenonT(20), <2>2, <2>3 DEF Step, Element
<1>3. Means(Step("finish_context_specific", <<>>), Element("END", <<>>))
  <2> DEFINE s == [do |-> "finish_context_specific", v |-> <<>>]
  <2>1. s \in WriteStepSet
    BY DEF WriteStepSet
  <2>2. Says(s) = [tag |-> "END", v |-> <<>>]
    BY DEF Says
  <2>3. Means(<<s>>, <<Says(s)>>)
    BY <2>1, MeansParts
  <2>4. QED
    BY ZenonT(20), <2>2, <2>3 DEF Step, Element
<1>4. ASSUME NEW n \in 0..30
      PROVE  Means(Step("start_context_specific", <<n>>), Element("CHOICE", <<n>>))
  <2> DEFINE s == [do |-> "start_context_specific", v |-> <<n>>]
  <2>1. s \in WriteStepSet
    BY DEF WriteStepSet
  <2>2. Says(s) = [tag |-> "CHOICE", v |-> <<n>>]
    BY DEF Says
  <2>3. Means(<<s>>, <<Says(s)>>)
    BY <2>1, MeansParts
  <2>4. QED
    BY ZenonT(20), <2>2, <2>3 DEF Step, Element
<1>5. ASSUME NEW a, NEW x, Means(a, x) PROVE Means(SEQUENCE(a), Braces(x))
  <2>1. Means(Step("start_sequence", <<>>) \o a, Element("SEQUENCE", <<>>) \o x)
    BY ZenonT(20), <1>1, <1>5, MeansParts
  <2>2. QED
    BY ZenonT(20), <1>2, <2>1, MeansParts DEF SEQUENCE, Braces
<1>6. ASSUME NEW a, NEW x, NEW n \in 0..30, Means(a, x) PROVE Means(CONTEXT(n, a), Tagged(n, x))
  <2>1. Means(Step("start_context_specific", <<n>>) \o a, Element("CHOICE", <<n>>) \o x)
    BY ZenonT(20), <1>4, <1>6, MeansParts
  <2> DEFINE b == Step("start_context_specific", <<n>>) \o a
             y == Element("CHOICE", <<n>>) \o x
  <2>2. CONTEXT(n, a) = b \o Step("finish_context_specific", <<>>)
    BY DEF CONTEXT
  <2>3. Tagged(n, x) = y \o Element("END", <<>>)
    BY ZenonT(20) DEF Tagged
  <2> HIDE DEF b, y
  <2>4. Means(b \o Step("finish_context_specific", <<>>), y \o Element("END", <<>>))
    BY ZenonT(20), <1>3, <2>1, MeansParts DEF b, y
  <2>5. QED
    BY ZenonT(20), <2>2, <2>3, <2>4
<1>7. QED
  BY ZenonT(20), <1>5, <1>6

-----------------------------------------------------------------------------
(* What the functions that read can return                                 *)

Readings == {"SUCCESS", "INVALID_FILE_TYPE", "NO_APPLICATION_PRESENT", "READER_PROTOCOL_ERROR"}

IsReader(r) ==
  /\ r = [ctx |-> r.ctx, w |-> r.w, i |-> r.i, skip |-> r.skip, out |-> r.out, st |-> r.st]
  /\ r.st \in Readings

(* The steps end with no other status than these.                          *)
Reads(steps) ==
  \E S : steps \in Seq(S) /\ \A s \in S : s.do = "peek" => s.v[2] \in Readings

SetCtx(r, x)  == [r EXCEPT !.ctx = x]
SetPos(r, x)  == [r EXCEPT !.ctx.pos = x]
SetSkip(r, x) == [r EXCEPT !.skip = x]
SetW(r, x)    == [r EXCEPT !.w = x]
SetI(r, x)    == [r EXCEPT !.i = x]
SetOut(r, x)  == [r EXCEPT !.out = x]
SetSt(r, x)   == [r EXCEPT !.st = x]

LEMMA ReaderSet ==
  ASSUME NEW r, IsReader(r), NEW x
  PROVE  /\ IsReader(SetCtx(r, x)) /\ IsReader(SetPos(r, x)) /\ IsReader(SetSkip(r, x))
         /\ IsReader(SetW(r, x)) /\ IsReader(SetI(r, x)) /\ IsReader(SetOut(r, x))
         /\ x \in Readings => IsReader(SetSt(r, x))
<1> DEFINE a == r.ctx
           b == r.w
           c == r.i
           d == r.skip
           e == r.out
           f == r.st
<1>1. r = [ctx |-> a, w |-> b, i |-> c, skip |-> d, out |-> e, st |-> f] /\ f \in Readings
  BY DEF IsReader
<1> HIDE DEF a, b, c, d, e, f
<1>2. IsReader(SetCtx(r, x)) /\ IsReader(SetPos(r, x)) /\ IsReader(SetSkip(r, x))
  BY <1>1 DEF IsReader, SetCtx, SetPos, SetSkip
<1>3. IsReader(SetW(r, x)) /\ IsReader(SetI(r, x)) /\ IsReader(SetOut(r, x))
  BY <1>1 DEF IsReader, SetW, SetI, SetOut
<1>4. x \in Readings => IsReader(SetSt(r, x))
  BY <1>1 DEF IsReader, SetSt
<1>5. QED
  BY <1>2, <1>3, <1>4

LEMMA ReaderSets ==
  /\ \A r, x : IsReader(r) => /\ IsReader(SetCtx(r, x)) /\ IsReader(SetPos(r, x))
                              /\ IsReader(SetSkip(r, x)) /\ IsReader(SetW(r, x))
                              /\ IsReader(SetI(r, x))
  /\ \A r, x : IsReader(r) /\ x \in Readings => IsReader(SetSt(r, x))
  /\ \A r, f, x : IsReader(r) => IsReader(Into(r, f, x))
<1>1. ASSUME NEW r, NEW f, NEW x, IsReader(r) PROVE IsReader(Into(r, f, x))
  <2> DEFINE y == (f :> x) @@ r.out
  <2>1. Into(r, f, x) = SetOut(r, y)
    BY Zenon DEF Into, SetOut
  <2> HIDE DEF y
  <2>2. IsReader(SetOut(r, y))
    BY <1>1, ReaderSet
  <2>3. QED
    BY <2>1, <2>2
<1>2. QED
  BY <1>1, ReaderSet

LEMMA ReaderStep ==
  ASSUME NEW r, IsReader(r), NEW s, s.do = "peek" => s.v[2] \in Readings
  PROVE  IsReader(ReadStep(r, s))
<1> DEFINE q == ReadStep(r, s)
           c == r.ctx
<1>1. CASE r.st # "SUCCESS"
  BY ZenonT(20), <1>1 DEF ReadStep
<1>2. CASE r.st = "SUCCESS" /\ r.skip > 0
  <2>1. q = SetSkip(r, r.skip - 1)
    BY ZenonT(20), <1>2 DEF ReadStep, SetSkip
  <2>2. QED
    BY ZenonT(20), <2>1, ReaderSets
<1>3. CASE r.st = "SUCCESS" /\ ~(r.skip > 0)
  <2> DEFINE Dos == {"read_integer", "read_enumerated", "read_boolean", "read_octet_string",
                     "read_octet", "read_word", "peek", "skip"}
  <2>1. ASSUME s.do = "read_integer" PROVE IsReader(q)
    <3> DEFINE w == st_asn1_read_integer(c, r.w)
               x == SetCtx(SetW(r, w), Advance(c, ST_INTEGER, 9))
    <3>1. q = Into([r EXCEPT !.w = w, !.ctx = Advance(c, ST_INTEGER, 9)], s.v[1],
                   Unsigned(s.v[2], w))
      BY ZenonT(20), <1>3, <2>1 DEF ReadStep
    <3>2. [r EXCEPT !.w = w, !.ctx = Advance(c, ST_INTEGER, 9)] = x
      BY Zenon DEF SetCtx, SetW
    <3>3. IsReader(x)
      BY ZenonT(20), ReaderSets
    <3> HIDE DEF x
    <3>4. QED
      BY ZenonT(20), <3>1, <3>2, <3>3, ReaderSets
  <2>2. ASSUME s.do = "read_enumerated" PROVE IsReader(q)
    <3> DEFINE w == st_asn1_read_enumerated(c, r.w)
               x == SetCtx(SetW(r, w), Advance(c, ST_ENUMERATED, 9))
    <3>1. q = Into([r EXCEPT !.w = w, !.ctx = Advance(c, ST_ENUMERATED, 9)], s.v[1], <<w>>)
      BY ZenonT(20), <1>3, <2>2 DEF ReadStep
    <3>2. [r EXCEPT !.w = w, !.ctx = Advance(c, ST_ENUMERATED, 9)] = x
      BY Zenon DEF SetCtx, SetW
    <3>3. IsReader(x)
      BY ZenonT(20), ReaderSets
    <3> HIDE DEF x
    <3>4. QED
      BY ZenonT(20), <3>1, <3>2, <3>3, ReaderSets
  <2>3. ASSUME s.do = "read_boolean" PROVE IsReader(q)
    <3> DEFINE i == IF st_asn1_read_boolean(c, r.i # 0) THEN 1 ELSE 0
               x == SetCtx(SetI(r, i), Advance(c, ST_BOOLEAN, 1))
    <3>1. q = Into([r EXCEPT !.i = i, !.ctx = Advance(c, ST_BOOLEAN, 1)], s.v[1], <<i>>)
      BY ZenonT(20), <1>3, <2>3 DEF ReadStep
    <3>2. [r EXCEPT !.i = i, !.ctx = Advance(c, ST_BOOLEAN, 1)] = x
      BY Zenon DEF SetCtx, SetI
    <3>3. IsReader(x)
      BY ZenonT(20), ReaderSets
    <3> HIDE DEF x, i
    <3>4. QED
      BY ZenonT(20), <3>1, <3>2, <3>3, ReaderSets
  <2>4. ASSUME s.do = "read_octet_string" PROVE IsReader(q)
    <3>1. q = Into(SetCtx(r, Advance(c, ST_OCTET_STRING, s.v[2])), s.v[1],
                   st_asn1_read_octet_string(c, s.v[2], <<>>))
      BY ZenonT(20), <1>3, <2>4 DEF ReadStep, SetCtx
    <3>2. QED
      BY ZenonT(20), <3>1, ReaderSets
  <2>5. ASSUME s.do = "read_octet" PROVE IsReader(q)
    <3>1. q = Into(SetPos(r, c.pos + 1), s.v[1], <<At(c, 1)>>)
      BY ZenonT(20), <1>3, <2>5 DEF ReadStep, SetPos
    <3>2. QED
      BY ZenonT(20), <3>1, ReaderSets
  <2>6. ASSUME s.do = "read_word" PROVE IsReader(q)
    <3>1. q = Into(SetPos(r, c.pos + 2), s.v[1], <<256 * At(c, 1) + At(c, 2)>>)
      BY ZenonT(20), <1>3, <2>6 DEF ReadStep, SetPos
    <3>2. QED
      BY ZenonT(20), <3>1, ReaderSets
  <2>7. ASSUME s.do = "peek" PROVE IsReader(q)
    <3>1. q = r \/ q = SetSt(r, s.v[2])
      BY ZenonT(20), <1>3, <2>7 DEF ReadStep, SetSt
    <3>2. QED
      BY ZenonT(20), <2>7, <3>1, ReaderSets
  <2>8. ASSUME s.do = "skip" PROVE IsReader(q)
    <3>1. q = r \/ q = SetSkip(r, s.v[2])
      BY ZenonT(20), <1>3, <2>8 DEF ReadStep, SetSkip
    <3>2. QED
      BY ZenonT(20), <3>1, ReaderSets
  <2>9. ASSUME s.do \notin Dos PROVE IsReader(q)
    <3>1. q = SetCtx(r, WriteStep(c, s))
      BY ZenonT(20), <1>3, <2>9 DEF ReadStep, SetCtx
    <3>2. QED
      BY ZenonT(20), <3>1, ReaderSets
  <2> HIDE DEF q
  <2>10. IsReader(q)
    BY <2>1, <2>2, <2>3, <2>4, <2>5, <2>6, <2>7, <2>8, <2>9
  <2>11. QED
    BY <2>10 DEF q
<1>4. QED
  BY <1>1, <1>2, <1>3

(* An answer of any octets ends the steps of a function with one of the    *)
(* statuses they have.                                                     *)
LEMMA DecodeReads ==
  ASSUME NEW mode, NEW steps, NEW octets, Reads(steps)
  PROVE  Decode(mode, steps, octets).st \in Readings
<1> DEFINE n == Len(steps)
           f == Reading(mode, steps, octets)
           S == {k \in 0..n : IsReader(f[k])}
<1>0. PICK R : steps \in Seq(R) /\ \A s \in R : s.do = "peek" => s.v[2] \in Readings
  BY DEF Reads
<1>1. n \in Nat /\ \A k \in 1..n : steps[k].do = "peek" => steps[k].v[2] \in Readings
  <2>1. n \in Nat /\ \A k \in 1..n : steps[k] \in R
    BY <1>0, LenProperties
  <2>2. QED
    BY ZenonT(20), <1>0, <2>1
<1>2. /\ f[0] = Unread(mode, octets)
      /\ \A k \in 1..n : f[k] = ReadStep(f[k - 1], steps[k])
  BY <1>1, ReadingSteps
<1>3. Decode(mode, steps, octets) = f[n]
  BY DEF Decode
<1> HIDE DEF n, f
<1>4. 0 \in S
  <2>1. IsReader(Unread(mode, octets))
    BY DEF Unread, IsReader, Readings
  <2>2. QED
    BY <1>1, <1>2, <2>1
<1>5. ASSUME NEW k \in 1..n, k - 1 \in S PROVE k \in S
  <2>1. k \in 0..n
    BY <1>1
  <2>2. IsReader(ReadStep(f[k - 1], steps[k]))
    <3>1. IsReader(f[k - 1])
      BY <1>5
    <3>2. steps[k].do = "peek" => steps[k].v[2] \in Readings
      BY <1>1
    <3>3. QED
      BY <3>1, <3>2, ReaderStep
  <2>3. IsReader(f[k])
    BY ZenonT(20), <1>2, <2>2
  <2>4. QED
    BY <2>1, <2>3
<1>6. n \in S
  <2> HIDE DEF S
  <2>1. \A k \in 0..n : k \in S
    BY <1>1, <1>4, <1>5, StepInduction
  <2>2. n \in 0..n
    BY <1>1
  <2>3. QED
    BY <2>1, <2>2
<1>7. IsReader(f[n])
  BY <1>6
<1>8. QED
  BY ZenonT(20), <1>3, <1>7 DEF IsReader

LEMMA ReadsParts ==
  /\ Reads(<<>>)
  /\ \A a, b : Reads(a) /\ Reads(b) => Reads(a \o b)
  /\ \A do, v : (do = "peek" => v[2] \in Readings) => Reads(Step(do, v))
<1>1. Reads(<<>>)
  <2> DEFINE S == {}
  <2>1. <<>> \in Seq(S) /\ \A s \in S : s.do = "peek" => s.v[2] \in Readings
    OBVIOUS
  <2> HIDE DEF S
  <2>2. QED
    BY ZenonT(20), <2>1 DEF Reads
<1>2. ASSUME NEW a, NEW b, Reads(a), Reads(b) PROVE Reads(a \o b)
  <2>1. PICK S : a \in Seq(S) /\ \A s \in S : s.do = "peek" => s.v[2] \in Readings
    BY <1>2 DEF Reads
  <2>2. PICK T : b \in Seq(T) /\ \A s \in T : s.do = "peek" => s.v[2] \in Readings
    BY <1>2 DEF Reads
  <2> DEFINE U == S \cup T
  <2>3. a \in Seq(U) /\ b \in Seq(U)
    BY <2>1, <2>2
  <2>4. \A s \in U : s.do = "peek" => s.v[2] \in Readings
    BY <2>1, <2>2
  <2> HIDE DEF U
  <2>5. a \o b \in Seq(U)
    BY <2>3, ConcatProperties
  <2>6. QED
    BY ZenonT(20), <2>4, <2>5 DEF Reads
<1>3. ASSUME NEW do, NEW v, do = "peek" => v[2] \in Readings PROVE Reads(Step(do, v))
  <2> DEFINE x == [do |-> do, v |-> v]
             S == {x}
  <2>1. <<x>> \in Seq(S)
    OBVIOUS
  <2>2. \A s \in S : s.do = "peek" => s.v[2] \in Readings
    BY <1>3
  <2> HIDE DEF S
  <2>3. Reads(<<x>>)
    BY ZenonT(20), <2>1, <2>2 DEF Reads
  <2>4. QED
    BY <2>3 DEF Step
<1>4. QED
  BY ZenonT(20), <1>1, <1>2, <1>3

LEMMA ReadsNested ==
  /\ \A a : Reads(a) => Reads(SEQUENCE(a))
  /\ \A a, n : Reads(a) => Reads(CONTEXT(n, a))
  /\ \A a, n : Reads(a) => Reads(OPTIONAL(n, a))
<1>0. /\ Reads(Step("start_sequence", <<>>)) /\ Reads(Step("finish_sequence", <<>>))
      /\ \A v : Reads(Step("start_context_specific", v))
      /\ Reads(Step("finish_context_specific", <<>>))
      /\ \A v : Reads(Step("skip", v))
  BY ReadsParts
<1>1. ASSUME NEW a, Reads(a) PROVE Reads(SEQUENCE(a))
  <2>1. SEQUENCE(a) = (Step("start_sequence", <<>>) \o a) \o Step("finish_sequence", <<>>)
    BY DEF SEQUENCE
  <2>2. QED
    BY ZenonT(20), <1>0, <1>1, <2>1, ReadsParts
<1>2. ASSUME NEW a, NEW n, Reads(a) PROVE Reads(CONTEXT(n, a))
  <2>1. CONTEXT(n, a) = (Step("start_context_specific", <<n>>) \o a)
                          \o Step("finish_context_specific", <<>>)
    BY DEF CONTEXT
  <2>2. QED
    BY ZenonT(20), <1>0, <1>2, <2>1, ReadsParts
<1>3. ASSUME NEW a, NEW n, Reads(a) PROVE Reads(OPTIONAL(n, a))
  <2>1. OPTIONAL(n, a) = Step("skip", <<n, Len(a)>>) \o a
    BY DEF OPTIONAL
  <2>2. QED
    BY ZenonT(20), <1>0, <1>3, <2>1, ReadsParts
<1>4. QED
  BY ZenonT(20), <1>1, <1>2, <1>3

LEMMA ReadsValues ==
  /\ \A f : Reads(READ_UINT(f)) /\ Reads(READ_USHORT(f)) /\ Reads(READ_UCHAR(f))
  /\ \A f : Reads(READ_ENUM(f)) /\ Reads(READ_BOOL(f))
  /\ \A f : Reads(READ_OCTET(f)) /\ Reads(READ_WORD(f))
  /\ \A f, max : Reads(READ_OCTETS(f, max))
  /\ \A n : \A st \in Readings : Reads(PEEK(n, st))
<1>1. \A do, v : do # "peek" => Reads(Step(do, v))
  BY ReadsParts
<1>2. /\ \A f : Reads(READ_UINT(f)) /\ Reads(READ_USHORT(f)) /\ Reads(READ_UCHAR(f))
      /\ \A f : Reads(READ_ENUM(f)) /\ Reads(READ_BOOL(f))
      /\ \A f : Reads(READ_OCTET(f)) /\ Reads(READ_WORD(f))
      /\ \A f, max : Reads(READ_OCTETS(f, max))
  BY <1>1 DEF READ_UINT, READ_USHORT, READ_UCHAR, READ_ENUM, READ_BOOL, READ_OCTET,
                READ_WORD, READ_OCTETS
<1>3. ASSUME NEW n, NEW st \in Readings PROVE Reads(PEEK(n, st))
  <2> DEFINE v == <<n, st>>
  <2>1. v[2] = st
    OBVIOUS
  <2> HIDE DEF v
  <2>2. Reads(Step("peek", v))
    BY <2>1, ReadsParts
  <2>3. QED
    BY ZenonT(20), <2>2 DEF PEEK, v
<1>4. QED
  BY <1>2, <1>3
=============================================================================

------------------------ MODULE PluginHosts_proofs ------------------------
(***************************************************************************)
(* What the fifteen plugins of PluginCli do to the documents of their      *)
(* hosts: the lists, removals, hooks and documents that they have in       *)
(* common, the promise every plugin keeps (Sound), and that the hosts      *)
(* whose events list handlers keep it.  PluginCli_proofs shows it of those *)
(* whose events list groups of handlers, and what follows for the program. *)
(*                                                                         *)
(* Kept and Flat are recursive functions.  Nothing is proved by induction: *)
(* a set of numbers that violate a claim has a smallest member (Smallest). *)
(***************************************************************************)
EXTENDS PluginCli, WellFoundedInduction, SequenceTheorems, TLAPS

-----------------------------------------------------------------------------
(* Lists: what Pick and HandlersOf compute.                                *)

(* A property that some natural number has, a smallest one has.            *)
LEMMA Smallest ==
  ASSUME NEW T, T \subseteq Nat, T # {}
  PROVE  \E x \in T : \A y \in T : x <= y
<1>1. \E x \in T : \A y \in T : ~ (<<y, x>> \in OpToRel(<, Nat))
  BY NatLessThanWellFounded, WFMin, Zenon
<1>2. \A x, y \in Nat : y < x => <<y, x>> \in OpToRel(<, Nat)
  BY Zenon DEF OpToRel
<1>3. \A x, y \in Nat : ~ (y < x) => x <= y OBVIOUS
<1> QED BY <1>1, <1>2, <1>3, Zenon

(* The kept prefixes of a list are what their definition says.             *)
LEMMA KeptEquation ==
  ASSUME NEW list, NEW positions, Len(list) \in Nat
  PROVE  Kept(list, positions) =
           [k \in 0 .. Len(list) |->
              IF k = 0 THEN <<>>
              ELSE IF k \in positions
                   THEN Append(Kept(list, positions)[k - 1], list[k])
                   ELSE Kept(list, positions)[k - 1]]
<1> DEFINE Up(n, x) == IF n \in positions THEN Append(x, list[n]) ELSE x
           G(f, m) == [k \in 0 .. m |->
                         IF k = 0 THEN <<>>
                         ELSE IF k \in positions THEN Append(f[k - 1], list[k]) ELSE f[k - 1]]
           T == {m \in Nat : \A f : f # G(f, m)}
<1>1. T = {}
  <2> SUFFICES ASSUME T # {} PROVE FALSE OBVIOUS
  <2>1. PICK m \in T : \A y \in T : m <= y BY Smallest
  <2>2. m # 0
    <3> DEFINE e == [k \in 0 .. 0 |-> <<>>]
    <3>1. \A k \in 0 .. 0 : k = 0 OBVIOUS
    <3>2. e = G(e, 0) BY <3>1, Zenon
    <3> QED BY <3>2, <2>1
  <2>3. m - 1 \in Nat /\ m - 1 \notin T
    <3>1. m \in Nat OBVIOUS
    <3> HIDE DEF T
    <3> QED BY <3>1, <2>1, <2>2
  <2>4. PICK f : f = G(f, m - 1) BY <2>3
  <2> DEFINE g == [k \in 0 .. m |-> IF k = m THEN Up(k, f[k - 1]) ELSE f[k]]
  <2>5. \A k \in 0 .. m - 1 : f[k] = IF k = 0 THEN <<>> ELSE Up(k, f[k - 1])
    BY <2>3, <2>4
  <2>6. \A k \in 0 .. m : g[k] = IF k = m THEN Up(k, f[k - 1]) ELSE f[k]
    OBVIOUS
  <2> HIDE DEF g, Up
  <2>7. \A k \in 0 .. m : k # 0 => g[k - 1] = f[k - 1]
    BY <2>3, <2>6, SMTT(30)
  <2>8. \A k \in 0 .. m : g[k] = IF k = 0 THEN <<>> ELSE Up(k, g[k - 1])
    BY <2>2, <2>3, <2>5, <2>6, <2>7
  <2>9. g = G(g, m) BY <2>8 DEF g, Up
  <2> QED BY <2>1, <2>9
<1>2. \E f : f = G(f, Len(list))
  <2> HIDE DEF G
  <2> QED BY <1>1
<1> QED BY <1>2, Zenon DEF Kept

(* The same for the handlers of a list's prefixes.                         *)
LEMMA FlatEquation ==
  ASSUME NEW list, Len(list) \in Nat
  PROVE  Flat(list) =
           [k \in 0 .. Len(list) |->
              IF k = 0 THEN <<>> ELSE Flat(list)[k - 1] \o InElement(list[k])]
<1> DEFINE Up(n, x) == x \o InElement(list[n])
           G(f, m) == [k \in 0 .. m |->
                         IF k = 0 THEN <<>> ELSE f[k - 1] \o InElement(list[k])]
           T == {m \in Nat : \A f : f # G(f, m)}
<1>1. T = {}
  <2> SUFFICES ASSUME T # {} PROVE FALSE OBVIOUS
  <2>1. PICK m \in T : \A y \in T : m <= y BY Smallest
  <2>2. m # 0
    <3> DEFINE e == [k \in 0 .. 0 |-> <<>>]
    <3>1. \A k \in 0 .. 0 : k = 0 OBVIOUS
    <3>2. e = G(e, 0) BY <3>1, Zenon
    <3> QED BY <3>2, <2>1
  <2>3. m - 1 \in Nat /\ m - 1 \notin T
    <3>1. m \in Nat OBVIOUS
    <3> HIDE DEF T
    <3> QED BY <3>1, <2>1, <2>2
  <2>4. PICK f : f = G(f, m - 1) BY <2>3
  <2> DEFINE g == [k \in 0 .. m |-> IF k = m THEN Up(k, f[k - 1]) ELSE f[k]]
  <2>5. \A k \in 0 .. m - 1 : f[k] = IF k = 0 THEN <<>> ELSE Up(k, f[k - 1])
    BY <2>3, <2>4
  <2>6. \A k \in 0 .. m : g[k] = IF k = m THEN Up(k, f[k - 1]) ELSE f[k]
    OBVIOUS
  <2> HIDE DEF g, Up
  <2>7. \A k \in 0 .. m : k # 0 => g[k - 1] = f[k - 1]
    BY <2>3, <2>6
  <2>8. \A k \in 0 .. m : g[k] = IF k = 0 THEN <<>> ELSE Up(k, g[k - 1])
    BY <2>2, <2>3, <2>5, <2>6, <2>7
  <2>9. g = G(g, m) BY <2>8 DEF g, Up
  <2> QED BY <2>1, <2>9
<1>2. \E f : f = G(f, Len(list))
  <2> HIDE DEF G
  <2> QED BY <1>1
<1> QED BY <1>2, Zenon DEF Flat

(* One step of either.                                                     *)
LEMMA KeptStep ==
  ASSUME NEW l, NEW S, Len(l) \in Nat, NEW k \in 0 .. Len(l)
  PROVE  Kept(l, S)[k] = IF k = 0 THEN <<>>
                         ELSE IF k \in S THEN Append(Kept(l, S)[k - 1], l[k])
                         ELSE Kept(l, S)[k - 1]
<1> DEFINE K == Kept(l, S)
<1>1. K = [j \in 0 .. Len(l) |-> IF j = 0 THEN <<>>
                         ELSE IF j \in S THEN Append(K[j - 1], l[j]) ELSE K[j - 1]]
  BY KeptEquation
<1> HIDE DEF K
<1>2. K[k] = IF k = 0 THEN <<>> ELSE IF k \in S THEN Append(K[k - 1], l[k]) ELSE K[k - 1]
  BY <1>1
<1> QED BY <1>2 DEF K

(* One more element's handlers.                                            *)
LEMMA FlatStep ==
  ASSUME NEW l, Len(l) \in Nat, NEW k \in 0 .. Len(l)
  PROVE  Flat(l)[k] = IF k = 0 THEN <<>> ELSE Flat(l)[k - 1] \o InElement(l[k])
<1> DEFINE K == Flat(l)
<1>1. K = [j \in 0 .. Len(l) |-> IF j = 0 THEN <<>> ELSE K[j - 1] \o InElement(l[j])]
  BY FlatEquation
<1> HIDE DEF K
<1>2. K[k] = IF k = 0 THEN <<>> ELSE K[k - 1] \o InElement(l[k])
  BY <1>1
<1> QED BY <1>2 DEF K

(* Two lists that agree up to a place, kept at the same positions up to    *)
(* it, agree in what is kept.                                              *)
LEMMA KeptAgree ==
  ASSUME NEW l, NEW m, NEW S, NEW R, Len(l) \in Nat, Len(m) \in Nat,
         NEW n \in Nat, n <= Len(l), n <= Len(m),
         \A k \in 1 .. n : l[k] = m[k] /\ (k \in S <=> k \in R)
  PROVE  Kept(l, S)[n] = Kept(m, R)[n]
<1> DEFINE T == {k \in 0 .. n : Kept(l, S)[k] # Kept(m, R)[k]}
<1>1. T = {}
  <2> SUFFICES ASSUME T # {} PROVE FALSE OBVIOUS
  <2>0. T \subseteq Nat OBVIOUS
  <2>1. PICK k \in T : \A y \in T : k <= y BY <2>0, Smallest
  <2>2. /\ \A j \in 0 .. n : Kept(l, S)[j] = IF j = 0 THEN <<>> ELSE IF j \in S
                      THEN Append(Kept(l, S)[j - 1], l[j]) ELSE Kept(l, S)[j - 1]
        /\ \A j \in 0 .. n : Kept(m, R)[j] = IF j = 0 THEN <<>> ELSE IF j \in R
                      THEN Append(Kept(m, R)[j - 1], m[j]) ELSE Kept(m, R)[j - 1]
    BY KeptStep
  <2>3. k # 0 BY <2>1, <2>2
  <2>4. k - 1 \in 0 .. n /\ k - 1 \notin T BY <2>1, <2>3
  <2> QED BY <2>1, <2>2, <2>3, <2>4
<1> QED BY <1>1

(* What is kept comes from the list.                                       *)
LEMMA KeptRange ==
  ASSUME NEW G, NEW l \in Seq(G), NEW S, NEW n \in 0 .. Len(l)
  PROVE  /\ Kept(l, S)[n] \in Seq(G)
         /\ \A i \in DOMAIN Kept(l, S)[n] :
              \E j \in DOMAIN l : j \in S /\ Kept(l, S)[n][i] = l[j]
<1> DEFINE P(k) == /\ Kept(l, S)[k] \in Seq(G)
                   /\ \A i \in DOMAIN Kept(l, S)[k] :
                        \E j \in DOMAIN l : j \in S /\ Kept(l, S)[k][i] = l[j]
           T == {k \in 0 .. Len(l) : ~P(k)}
<1>1. T = {}
  <2> SUFFICES ASSUME T # {} PROVE FALSE OBVIOUS
  <2>0. T \subseteq Nat OBVIOUS
  <2>1. PICK k \in T : \A y \in T : k <= y
    <3> HIDE DEF T
    <3> QED BY <2>0, Smallest
  <2>2. \A j \in 0 .. Len(l) : Kept(l, S)[j] = IF j = 0 THEN <<>> ELSE IF j \in S
                      THEN Append(Kept(l, S)[j - 1], l[j]) ELSE Kept(l, S)[j - 1]
    BY KeptStep
  <2>3. k \in 0 .. Len(l) /\ ~P(k) OBVIOUS
  <2>4. k # 0
    <3>1. Kept(l, S)[0] = <<>> BY <2>2
    <3>2. P(0)
      <4>1. <<>> \in Seq(G) /\ DOMAIN <<>> = {} OBVIOUS
      <4> QED BY <3>1, <4>1
    <3> QED BY <3>2, <2>3
  <2>5. k - 1 \in 0 .. Len(l) /\ P(k - 1)
    <3>1. k - 1 \in 0 .. Len(l) /\ k - 1 \notin T
      <4> HIDE DEF T
      <4> QED BY <2>1, <2>3, <2>4
    <3> QED BY <3>1
  <2> DEFINE q == Kept(l, S)[k - 1]
  <2>6. k \in DOMAIN l /\ l[k] \in G BY <2>3, <2>4
  <2>7. CASE k \in S
    <3>1. Kept(l, S)[k] = Append(q, l[k]) BY <2>7, <2>2, <2>3, <2>4
    <3>2. q \in Seq(G) BY <2>5
    <3>3. Append(q, l[k]) \in Seq(G) BY <3>2, <2>6
    <3>4. \A i \in DOMAIN Append(q, l[k]) :
            (i \in DOMAIN q /\ Append(q, l[k])[i] = q[i]) \/ Append(q, l[k])[i] = l[k]
      <4> HIDE DEF q
      <4> QED BY <3>2, <2>6
    <3>5. \A i \in DOMAIN Append(q, l[k]) :
            \E j \in DOMAIN l : j \in S /\ Append(q, l[k])[i] = l[j]
      BY <3>4, <2>5, <2>6, <2>7
    <3>6. P(k) BY <3>1, <3>3, <3>5
    <3> QED BY <3>6, <2>3
  <2>8. CASE k \notin S
    <3>1. Kept(l, S)[k] = q BY <2>8, <2>2, <2>3, <2>4
    <3>2. P(k) BY <3>1, <2>5
    <3> QED BY <3>2, <2>3
  <2> QED BY <2>7, <2>8
<1> QED BY <1>1
(* What is picked from a list comes from it.                               *)
LEMMA PickRange ==
  ASSUME NEW G, NEW l \in Seq(G), NEW S
  PROVE  /\ Pick(l, S) \in Seq(G)
         /\ \A i \in DOMAIN Pick(l, S) :
              \E j \in DOMAIN l : j \in S /\ Pick(l, S)[i] = l[j]
<1>1. Len(l) \in 0 .. Len(l) OBVIOUS
<1>2. CASE DOMAIN l \subseteq S BY <1>2 DEF Pick
<1>3. CASE ~(DOMAIN l \subseteq S)
  <2>1. Pick(l, S) = Kept(l, S)[Len(l)] BY <1>3 DEF Pick
  <2> QED BY <1>1, <2>1, KeptRange
<1> QED BY <1>2, <1>3

(* All that is kept of a list is the list.                                 *)
LEMMA KeptAll ==
  ASSUME NEW G, NEW l \in Seq(G), NEW S, DOMAIN l \subseteq S, NEW n \in 0 .. Len(l)
  PROVE  /\ Kept(l, S)[n] \in Seq(G)
         /\ Len(Kept(l, S)[n]) = n
         /\ \A i \in 1 .. n : Kept(l, S)[n][i] = l[i]
<1> DEFINE P(k) == /\ Len(Kept(l, S)[k]) = k
                   /\ \A i \in 1 .. k : Kept(l, S)[k][i] = l[i]
           T == {k \in 0 .. Len(l) : ~P(k)}
<1>0. \A k \in 0 .. Len(l) : Kept(l, S)[k] \in Seq(G) BY KeptRange
<1>1. T = {}
  <2> SUFFICES ASSUME T # {} PROVE FALSE OBVIOUS
  <2>0. T \subseteq Nat OBVIOUS
  <2>1. PICK k \in T : \A y \in T : k <= y
    <3> HIDE DEF T
    <3> QED BY <2>0, Smallest
  <2>2. \A j \in 0 .. Len(l) : Kept(l, S)[j] = IF j = 0 THEN <<>> ELSE IF j \in S
                      THEN Append(Kept(l, S)[j - 1], l[j]) ELSE Kept(l, S)[j - 1]
    BY KeptStep
  <2>3. k \in 0 .. Len(l) /\ ~P(k) OBVIOUS
  <2>4. k # 0
    <3>1. Kept(l, S)[0] = <<>>
      <4>1. 0 \in 0 .. Len(l) /\ Len(l) \in Nat OBVIOUS
      <4> QED BY <4>1, KeptStep
    <3>2. P(0) BY <3>1
    <3> QED BY <3>2, <2>3
  <2>5. k - 1 \in 0 .. Len(l) /\ P(k - 1)
    <3>1. k - 1 \in 0 .. Len(l) /\ k - 1 \notin T
      <4> HIDE DEF T
      <4> QED BY <2>1, <2>3, <2>4
    <3> QED BY <3>1
  <2> DEFINE q == Kept(l, S)[k - 1]
  <2>6. k \in DOMAIN l /\ l[k] \in G /\ k \in S BY <2>3, <2>4
  <2>7. Kept(l, S)[k] = Append(q, l[k]) BY <2>6, <2>2, <2>3, <2>4
  <2>8. q \in Seq(G) BY <1>0, <2>5
  <2>9. Len(q) = k - 1 /\ \A i \in 1 .. k - 1 : q[i] = l[i] BY <2>5
  <2> HIDE DEF q
  <2>10. Len(Append(q, l[k])) = k /\ \A i \in 1 .. k : Append(q, l[k])[i] = l[i]
    BY <2>6, <2>8, <2>9, <2>3
  <2>11. P(k) BY <2>7, <2>10
  <2> QED BY <2>11, <2>3
<1> QED BY <1>0, <1>1

(* Pick without its shortcut.                                              *)
LEMMA PickKept ==
  ASSUME NEW G, NEW l \in Seq(G), NEW S
  PROVE  Pick(l, S) = Kept(l, S)[Len(l)]
<1>1. CASE DOMAIN l \subseteq S
  <2>1. Len(l) \in 0 .. Len(l) /\ Len(l) \in Nat OBVIOUS
  <2> DEFINE q == Kept(l, S)[Len(l)]
  <2>2. q \in Seq(G) /\ Len(q) = Len(l) /\ \A i \in 1 .. Len(l) : q[i] = l[i]
    BY <1>1, <2>1, KeptAll
  <2> HIDE DEF q
  <2>3. q = l BY <2>2
  <2>4. Pick(l, S) = l BY <1>1 DEF Pick
  <2> QED BY <2>3, <2>4 DEF q
<1>2. CASE ~(DOMAIN l \subseteq S) BY <1>2 DEF Pick
<1> QED BY <1>1, <1>2

(* All that is picked of a list is the list.                               *)
LEMMA PickAll ==
  ASSUME NEW l, NEW S, DOMAIN l \subseteq S
  PROVE  Pick(l, S) = l
BY DEF Pick

(* Positions outside of the list do not count.                             *)
LEMMA PickAgree ==
  ASSUME NEW G, NEW l \in Seq(G), NEW S, NEW R,
         \A k \in DOMAIN l : k \in S <=> k \in R
  PROVE  Pick(l, S) = Pick(l, R)
<1>1. Kept(l, S)[Len(l)] = Kept(l, R)[Len(l)]
  <2>1. Len(l) \in Nat /\ Len(l) <= Len(l) OBVIOUS
  <2>2. \A k \in 1 .. Len(l) : l[k] = l[k] /\ (k \in S <=> k \in R) OBVIOUS
  <2> QED BY <2>1, <2>2, KeptAgree
<1> QED BY <1>1, PickKept

(* Picking from a list with one more element.                              *)
LEMMA PickAppend ==
  ASSUME NEW G, NEW l \in Seq(G), NEW x \in G, NEW S, NEW R,
         \A k \in DOMAIN l : k \in S <=> k \in R
  PROVE  Pick(Append(l, x), R) =
           IF Len(l) + 1 \in R THEN Append(Pick(l, S), x) ELSE Pick(l, S)
<1> DEFINE m == Append(l, x)
<1>1. /\ m \in Seq(G) /\ Len(m) = Len(l) + 1 /\ Len(l) \in Nat
      /\ \A k \in 1 .. Len(l) : l[k] = m[k]
      /\ m[Len(l) + 1] = x
  OBVIOUS
<1>a. \A k \in 1 .. Len(l) : k \in S <=> k \in R OBVIOUS
<1> HIDE DEF m
<1>2. Kept(l, S)[Len(l)] = Kept(m, R)[Len(l)]
  <2>1. Len(l) <= Len(l) /\ Len(l) <= Len(m) /\ Len(m) \in Nat BY <1>1
  <2>2. \A k \in 1 .. Len(l) : l[k] = m[k] /\ (k \in S <=> k \in R) BY <1>1, <1>a
  <2> QED BY <1>1, <2>1, <2>2, KeptAgree
<1>3. Len(m) \in 0 .. Len(m) /\ Len(m) - 1 = Len(l) /\ Len(m) # 0 BY <1>1
<1>4. Kept(m, R)[Len(m)] = IF Len(m) \in R THEN Append(Kept(m, R)[Len(m) - 1], m[Len(m)])
                           ELSE Kept(m, R)[Len(m) - 1]
  BY <1>1, <1>3, KeptStep
<1>5. Pick(m, R) = Kept(m, R)[Len(m)] /\ Pick(l, S) = Kept(l, S)[Len(l)]
  BY <1>1, PickKept
<1>6. Pick(m, R) = IF Len(l) + 1 \in R THEN Append(Pick(l, S), x) ELSE Pick(l, S)
  BY <1>1, <1>2, <1>3, <1>4, <1>5
<1> QED BY <1>6 DEF m

(* No more is picked than there is.                                        *)
LEMMA PickShorter ==
  ASSUME NEW G, NEW l \in Seq(G), NEW S
  PROVE  Len(Pick(l, S)) <= Len(l)
<1> DEFINE P(n) == Len(Kept(l, S)[n]) <= n
           T == {n \in 0 .. Len(l) : ~P(n)}
<1>1. Len(l) \in Nat OBVIOUS
<1>2. \A n \in 0 .. Len(l) : Kept(l, S)[n] \in Seq(G) BY KeptRange
<1>3. T = {}
  <2> SUFFICES ASSUME T # {} PROVE FALSE
    OBVIOUS
  <2>0. T \subseteq Nat OBVIOUS
  <2>1. PICK n \in T : \A y \in T : n <= y
    <3> HIDE DEF T
    <3> QED BY <2>0, Smallest
  <2>2. n \in 0 .. Len(l) /\ ~P(n) OBVIOUS
  <2>3. Kept(l, S)[n] = IF n = 0 THEN <<>>
                        ELSE IF n \in S THEN Append(Kept(l, S)[n - 1], l[n])
                        ELSE Kept(l, S)[n - 1]
    BY <1>1, <2>2, KeptStep
  <2>4. n # 0 BY <2>2, <2>3
  <2>5. n - 1 \in 0 .. Len(l) /\ n - 1 \notin T BY <2>1, <2>2, <2>4
  <2>6. Len(Kept(l, S)[n - 1]) <= n - 1 BY <2>5
  <2>7. Kept(l, S)[n - 1] \in Seq(G) BY <1>2, <2>5
  <2>8. l[n] \in G BY <2>2, <2>4
  <2> DEFINE k == Kept(l, S)[n - 1]
             x == l[n]
  <2> HIDE DEF k, x
  <2>9. Len(Append(k, x)) = Len(k) + 1 /\ Len(k) \in Nat BY <2>7, <2>8 DEF k, x
  <2>10. Kept(l, S)[n] = Append(k, x) \/ Kept(l, S)[n] = k BY <2>3, <2>4 DEF k, x
  <2>11. Len(k) <= n - 1 BY <2>6 DEF k
  <2> QED BY <2>2, <2>9, <2>10, <2>11
<1>4. P(Len(l)) BY <1>1, <1>3
<1>5. Pick(l, S) = Kept(l, S)[Len(l)] BY PickKept
<1> QED BY <1>4, <1>5

(* Nothing is picked of nothing.                                           *)
LEMMA PickEmpty ==
  ASSUME NEW S
  PROVE  Pick(<<>>, S) = <<>>
<1>1. DOMAIN <<>> = {} OBVIOUS
<1> QED BY <1>1, PickAll

(* A list is empty, or has one element more than another.                  *)
LEMMA ListCases ==
  ASSUME NEW G, NEW l \in Seq(G)
  PROVE  \/ l = <<>>
         \/ \E m \in Seq(G), x \in G : l = Append(m, x) /\ Len(m) + 1 = Len(l)
<1>1. CASE l # <<>>
  <2> DEFINE n == Len(l) - 1
             m == [i \in 1 .. n |-> l[i]]
  <2>1. Len(l) \in Nat /\ Len(l) # 0 BY <1>1, EmptySeq
  <2>2. n \in Nat /\ \A i \in 1 .. n : l[i] \in G BY <2>1
  <2>3. m \in [1 .. n -> G] BY <2>2
  <2>4. m \in Seq(G) BY <2>2, <2>3
  <2>5. DOMAIN m = 1 .. n /\ \A i \in 1 .. n : m[i] = l[i] OBVIOUS
  <2> HIDE DEF m
  <2>6. Len(m) = n BY <2>2, <2>4, <2>5
  <2>7. l[n + 1] \in G BY <2>1
  <2>8. l = Append(m, l[n + 1]) BY <2>1, <2>4, <2>5, <2>6, <2>7
  <2> QED BY <2>1, <2>4, <2>6, <2>7, <2>8
<1> QED BY <1>1

-----------------------------------------------------------------------------
(* Removals.  Every removal of a plugin puts for each element of a list    *)
(* what is left of it, and keeps only some of the results.                 *)
Sift(l, f, K) == Pick([i \in DOMAIN l |-> f[l[i]]], {i \in DOMAIN l : l[i] \in K})

(* The elements of what is left are what was left of elements.             *)
LEMMA SiftRange ==
  ASSUME NEW G, NEW f \in [G -> G], NEW K, NEW l \in Seq(G)
  PROVE  /\ Sift(l, f, K) \in Seq(G)
         /\ \A i \in DOMAIN Sift(l, f, K) :
              \E j \in DOMAIN l : l[j] \in K /\ Sift(l, f, K)[i] = f[l[j]]
<1> DEFINE m == [i \in DOMAIN l |-> f[l[i]]]
<1>1. m \in Seq(G) /\ DOMAIN m = DOMAIN l /\ \A i \in DOMAIN l : m[i] = f[l[i]]
  OBVIOUS
<1> HIDE DEF m
<1>2. Sift(l, f, K) = Pick(m, {i \in DOMAIN l : l[i] \in K}) BY DEF Sift, m
<1> DEFINE S == {i \in DOMAIN l : l[i] \in K}
           q == Pick(m, S)
<1>3. q \in Seq(G) /\ \A i \in DOMAIN q : \E j \in DOMAIN m : j \in S /\ q[i] = m[j]
  <2> HIDE DEF S
  <2> QED BY <1>1, PickRange
<1> HIDE DEF q
<1>4. q \in Seq(G) /\ \A i \in DOMAIN q : \E j \in DOMAIN l : l[j] \in K /\ q[i] = f[l[j]]
  BY <1>1, <1>3
<1> QED BY <1>2, <1>4 DEF q

(* What has nothing to remove stays.                                       *)
LEMMA SiftSame ==
  ASSUME NEW G, NEW f, NEW K, NEW l \in Seq(G),
         \A i \in DOMAIN l : l[i] \in K /\ f[l[i]] = l[i]
  PROVE  Sift(l, f, K) = l
<1>1. [i \in DOMAIN l |-> f[l[i]]] = l OBVIOUS
<1>2. DOMAIN l \subseteq {i \in DOMAIN l : l[i] \in K} OBVIOUS
<1> QED BY <1>1, <1>2, PickAll DEF Sift

(* Nothing is left of nothing.                                             *)
LEMMA SiftEmpty ==
  ASSUME NEW f, NEW K
  PROVE  Sift(<<>>, f, K) = <<>>
<1>1. [i \in DOMAIN <<>> |-> f[<<>>[i]]] = <<>> OBVIOUS
<1> QED BY <1>1, PickEmpty DEF Sift

(* One element more.                                                       *)
LEMMA SiftAppend ==
  ASSUME NEW G, NEW f \in [G -> G], NEW K, NEW l \in Seq(G), NEW x \in G
  PROVE  Sift(Append(l, x), f, K) =
           IF x \in K THEN Append(Sift(l, f, K), f[x]) ELSE Sift(l, f, K)
<1> DEFINE m == [i \in DOMAIN l |-> f[l[i]]]
           p == Append(l, x)
           S == {i \in DOMAIN l : l[i] \in K}
           R == {i \in DOMAIN p : p[i] \in K}
<1>1. m \in Seq(G) /\ DOMAIN m = DOMAIN l /\ Len(m) = Len(l)
      /\ \A i \in DOMAIN l : m[i] = f[l[i]]
  <2>1. m \in Seq(G) /\ DOMAIN m = DOMAIN l OBVIOUS
  <2> HIDE DEF m
  <2>2. Len(m) = Len(l) BY <2>1
  <2> QED BY <2>1, <2>2 DEF m
<1>2. p \in Seq(G) /\ DOMAIN p = 1 .. Len(l) + 1 /\ p[Len(l) + 1] = x
      /\ \A i \in DOMAIN l : p[i] = l[i]
  OBVIOUS
<1> HIDE DEF p, m
<1>3. [i \in DOMAIN p |-> f[p[i]]] = Append(m, f[x])
  <2>0. f[x] \in G OBVIOUS
  <2>1. DOMAIN Append(m, f[x]) = 1 .. Len(l) + 1 BY <1>1
  <2>2. \A i \in 1 .. Len(l) + 1 : Append(m, f[x])[i] = f[p[i]]
    <3> TAKE i \in 1 .. Len(l) + 1
    <3>1. CASE i = Len(l) + 1 BY <3>1, <1>1, <1>2
    <3>2. CASE i # Len(l) + 1
      <4>1. i \in DOMAIN l BY <3>2
      <4>2. Append(m, f[x])[i] = m[i] BY <4>1, <1>1
      <4> QED BY <4>1, <4>2, <1>1, <1>2
    <3> QED BY <3>1, <3>2
  <2>3. Append(m, f[x]) = [i \in 1 .. Len(l) + 1 |-> f[p[i]]]
    <3>1. Append(m, f[x]) \in Seq(G) BY <1>1, <2>0
    <3> QED BY <2>1, <2>2, <3>1
  <2> QED BY <2>3, <1>2
<1>4. \A k \in DOMAIN m : k \in S <=> k \in R BY <1>1, <1>2
<1>5. f[x] \in G OBVIOUS
<1>6. Pick(Append(m, f[x]), R) = IF Len(m) + 1 \in R THEN Append(Pick(m, S), f[x])
                                 ELSE Pick(m, S)
  <2>1. m \in Seq(G) BY <1>1
  <2>2. \A y \in G : \A A, B : (\A k \in DOMAIN m : k \in A <=> k \in B) =>
          Pick(Append(m, y), B) = IF Len(m) + 1 \in B THEN Append(Pick(m, A), y)
                                  ELSE Pick(m, A)
    BY <2>1, PickAppend
  <2> HIDE DEF R, S
  <2> QED BY <1>4, <1>5, <2>2
<1>7. Len(m) + 1 \in R <=> x \in K
  <2>1. Len(l) + 1 \in 1 .. Len(l) + 1 OBVIOUS
  <2> QED BY <1>1, <1>2, <2>1
<1>8. Sift(p, f, K) = Pick(Append(m, f[x]), R) BY <1>3 DEF Sift
<1>9. Sift(l, f, K) = Pick(m, S) BY DEF Sift, m
<1>10. Sift(p, f, K) = IF x \in K THEN Append(Sift(l, f, K), f[x]) ELSE Sift(l, f, K)
  BY <1>6, <1>7, <1>8, <1>9
<1> QED BY <1>10 DEF p

-----------------------------------------------------------------------------
(* The user's handlers.                                                    *)
UsersOf(list) == Without(list, LAMBDA y : y.owner # User)
AllUsers(list) == UsersOf(HandlersOf(list))

(* The user's handlers are handlers.                                       *)
LEMMA UsersOfType ==
  ASSUME NEW G, NEW l \in Seq(G)
  PROVE  UsersOf(l) \in Seq(G)
BY PickRange DEF UsersOf, Without

(* The user's handlers with one handler more.                              *)
LEMMA UsersOfAppend ==
  ASSUME NEW G, NEW l \in Seq(G), NEW x \in G
  PROVE  UsersOf(Append(l, x)) =
           IF x.owner = User THEN Append(UsersOf(l), x) ELSE UsersOf(l)
<1> DEFINE p == Append(l, x)
           S == {i \in DOMAIN l : ~(l[i].owner # User)}
           R == {i \in DOMAIN p : ~(p[i].owner # User)}
<1>1. /\ DOMAIN p = 1 .. Len(l) + 1 /\ p[Len(l) + 1] = x
      /\ \A i \in DOMAIN l : p[i] = l[i]
  OBVIOUS
<1> HIDE DEF p
<1>2. \A k \in DOMAIN l : k \in S <=> k \in R BY <1>1
<1>3. Len(l) + 1 \in R <=> x.owner = User
  <2>1. Len(l) + 1 \in 1 .. Len(l) + 1 OBVIOUS
  <2> QED BY <1>1, <2>1
<1>4. Pick(p, R) = IF Len(l) + 1 \in R THEN Append(Pick(l, S), x) ELSE Pick(l, S)
  <2>1. \A A, B : (\A k \in DOMAIN l : k \in A <=> k \in B) =>
          Pick(Append(l, x), B) = IF Len(l) + 1 \in B THEN Append(Pick(l, A), x)
                                  ELSE Pick(l, A)
    BY PickAppend
  <2> HIDE DEF R, S
  <2> QED BY <1>2, <2>1 DEF p
<1>5. UsersOf(p) = Pick(p, R) /\ UsersOf(l) = Pick(l, S) BY DEF UsersOf, Without
<1>6. UsersOf(p) = IF x.owner = User THEN Append(UsersOf(l), x) ELSE UsersOf(l)
  <2> HIDE DEF R, S
  <2> QED BY <1>3, <1>4, <1>5
<1> QED BY <1>6 DEF p

(* The user has no handler in an empty list.                               *)
LEMMA UsersOfEmpty == UsersOf(<<>>) = <<>>
BY PickEmpty DEF UsersOf, Without

(* Concatenation with one element more.                                    *)
LEMMA ConcatAppend ==
  ASSUME NEW G, NEW l \in Seq(G), NEW m \in Seq(G), NEW x \in G
  PROVE  l \o Append(m, x) = Append(l \o m, x)
<1>1. Append(m, x) = m \o <<x>> BY AppendIsConcat
<1>2. l \o m \in Seq(G) BY ConcatProperties
<1>3. Append(l \o m, x) = (l \o m) \o <<x>> BY <1>2, AppendIsConcat
<1>4. <<x>> \in Seq(G) OBVIOUS
<1>5. (l \o m) \o <<x>> = l \o (m \o <<x>>) BY <1>4, ConcatAssociative
<1> QED BY <1>1, <1>3, <1>5

(* They are the users' of the first list, then those of the second.        *)
LEMMA UsersOfConcat ==
  ASSUME NEW G, NEW l \in Seq(G), NEW m \in Seq(G)
  PROVE  UsersOf(l \o m) = UsersOf(l) \o UsersOf(m)
<1>0. \A u, v \in Seq(G) : \A x \in G : u \o Append(v, x) = Append(u \o v, x)
  BY ConcatAppend
<1> DEFINE T == {n \in Nat : \E q \in Seq(G) : Len(q) = n /\ UsersOf(l \o q) # UsersOf(l) \o UsersOf(q)}
<1>1. T = {}
  <2> SUFFICES ASSUME T # {} PROVE FALSE OBVIOUS
  <2>1. PICK n \in T : \A y \in T : n <= y
    <3>1. T \subseteq Nat OBVIOUS
    <3> HIDE DEF T
    <3> QED BY <3>1, Smallest
  <2>2. PICK q \in Seq(G) : Len(q) = n /\ UsersOf(l \o q) # UsersOf(l) \o UsersOf(q)
    OBVIOUS
  <2>0. UsersOf(l) \in Seq(G) BY UsersOfType
  <2>3. CASE q = <<>>
    <3>1. l \o q = l BY <2>3
    <3>2. UsersOf(l) \o <<>> = UsersOf(l) BY <2>0
    <3> QED BY <3>1, <3>2, <2>2, <2>3, UsersOfEmpty
  <2>4. ASSUME NEW r \in Seq(G), NEW x \in G, q = Append(r, x), Len(r) + 1 = Len(q)
        PROVE  FALSE
    <3>1. Len(r) \in Nat /\ Len(r) \notin T
      <4>1. Len(r) \in Nat /\ ~(n <= Len(r)) BY <2>2, <2>4
      <4> HIDE DEF T
      <4> QED BY <4>1, <2>1
    <3>2. UsersOf(l \o r) = UsersOf(l) \o UsersOf(r) BY <3>1
    <3>3. l \o q = Append(l \o r, x) /\ l \o r \in Seq(G)
      <4>1. l \o Append(r, x) = Append(l \o r, x) BY <1>0, Zenon
      <4>2. l \o r \in Seq(G) BY ConcatProperties
      <4> QED BY <4>1, <4>2, <2>4
    <3>4. UsersOf(l \o q) = IF x.owner = User THEN Append(UsersOf(l \o r), x)
                            ELSE UsersOf(l \o r)
      BY <3>3, UsersOfAppend
    <3>5. UsersOf(q) = IF x.owner = User THEN Append(UsersOf(r), x) ELSE UsersOf(r)
      BY <2>4, UsersOfAppend
    <3>6. UsersOf(r) \in Seq(G) BY UsersOfType
    <3>7. UsersOf(l) \o Append(UsersOf(r), x) = Append(UsersOf(l) \o UsersOf(r), x)
      BY <1>0, <3>6, <2>0, Zenon
    <3> QED BY <3>2, <3>4, <3>5, <3>7, <2>2
  <2> QED BY <2>3, <2>4, ListCases
<1>2. Len(m) \in Nat /\ Len(m) \notin T BY <1>1
<1> QED BY <1>2

(* One element more.                                                       *)
LEMMA HandlersOfAppend ==
  ASSUME NEW G, NEW l \in Seq(G), NEW x \in G
  PROVE  HandlersOf(Append(l, x)) = HandlersOf(l) \o InElement(x)
<1> DEFINE m == Append(l, x)
           T == {k \in 0 .. Len(l) : Flat(m)[k] # Flat(l)[k]}
<1>0. Len(m) = Len(l) + 1 /\ m[Len(l) + 1] = x /\ Len(l) \in Nat
      /\ \A i \in 1 .. Len(l) : m[i] = l[i]
  OBVIOUS
<1> HIDE DEF m
<1>1. T = {}
  <2> SUFFICES ASSUME T # {} PROVE FALSE OBVIOUS
  <2>1. PICK k \in T : \A y \in T : k <= y
    <3>1. T \subseteq Nat BY <1>0
    <3> HIDE DEF T
    <3> QED BY <3>1, Smallest
  <2>2. k \in 0 .. Len(l) /\ k \in 0 .. Len(m) /\ Len(m) \in Nat BY <1>0
  <2>3. Flat(l)[k] = IF k = 0 THEN <<>> ELSE Flat(l)[k - 1] \o InElement(l[k])
    BY <1>0, <2>2, FlatStep
  <2>4. Flat(m)[k] = IF k = 0 THEN <<>> ELSE Flat(m)[k - 1] \o InElement(m[k])
    BY <2>2, FlatStep
  <2>5. k # 0 BY <2>3, <2>4
  <2>6. k - 1 \in 0 .. Len(l) /\ k - 1 \notin T
    <3>1. ~(k <= k - 1) BY <2>2
    <3>2. k - 1 \notin T
      <4> HIDE DEF T
      <4> QED BY <2>1, <3>1
    <3> QED BY <3>2, <2>2, <2>5
  <2>7. m[k] = l[k] BY <1>0, <2>2, <2>5
  <2> QED BY <2>3, <2>4, <2>5, <2>6, <2>7
<1>2. Len(l) \in 0 .. Len(l) BY <1>0
<1>3. Flat(m)[Len(l)] = Flat(l)[Len(l)] BY <1>1, <1>2
<1>4. Len(m) \in 0 .. Len(m) /\ Len(m) # 0 /\ Len(m) \in Nat /\ Len(m) - 1 = Len(l) BY <1>0
<1>5. Flat(m)[Len(m)] = Flat(m)[Len(m) - 1] \o InElement(m[Len(m)])
  BY <1>4, FlatStep
<1>6. HandlersOf(m) = HandlersOf(l) \o InElement(x)
  BY <1>0, <1>3, <1>4, <1>5 DEF HandlersOf
<1> QED BY <1>6 DEF m

(* An empty list has no handlers.                                          *)
LEMMA HandlersOfEmpty == HandlersOf(<<>>) = <<>>
<1>1. Len(<<>>) = 0 /\ 0 \in 0 .. Len(<<>>) OBVIOUS
<1> QED BY <1>1, FlatStep DEF HandlersOf

(* An element is a handler or holds handlers.                              *)
LEMMA InElementType ==
  ASSUME NEW G, G = Listed \/ G = Grouped, NEW x \in G
  PROVE  InElement(x) \in Seq(Listed)
<1>1. CASE G = Listed
  <2>1. "hooks" \notin DOMAIN x BY <1>1 DEF Listed
  <2> QED BY <1>1, <2>1 DEF InElement
<1>2. CASE G = Grouped
  <2>1. "hooks" \in DOMAIN x /\ x.hooks \in Seq(Listed) BY <1>2 DEF Grouped
  <2> QED BY <2>1 DEF InElement
<1> QED BY <1>1, <1>2

(* The handlers of a list are handlers.                                    *)
LEMMA HandlersOfType ==
  ASSUME NEW G, G = Listed \/ G = Grouped, NEW l \in Seq(G)
  PROVE  HandlersOf(l) \in Seq(Listed)
<1> DEFINE T == {n \in Nat : \E q \in Seq(G) : Len(q) = n /\ HandlersOf(q) \notin Seq(Listed)}
<1>1. T = {}
  <2> SUFFICES ASSUME T # {} PROVE FALSE OBVIOUS
  <2>1. PICK n \in T : \A y \in T : n <= y
    <3>1. T \subseteq Nat OBVIOUS
    <3> HIDE DEF T
    <3> QED BY <3>1, Smallest
  <2>2. PICK q \in Seq(G) : Len(q) = n /\ HandlersOf(q) \notin Seq(Listed)
    OBVIOUS
  <2>3. q # <<>>
    <3>1. <<>> \in Seq(Listed) OBVIOUS
    <3> QED BY <3>1, <2>2, HandlersOfEmpty
  <2>4. ASSUME NEW r \in Seq(G), NEW x \in G, q = Append(r, x), Len(r) + 1 = Len(q)
        PROVE  FALSE
    <3>1. Len(r) \in Nat /\ Len(r) \notin T
      <4>1. Len(r) \in Nat /\ ~(n <= Len(r)) BY <2>2, <2>4
      <4> HIDE DEF T
      <4> QED BY <4>1, <2>1
    <3>2. HandlersOf(r) \in Seq(Listed) BY <3>1
    <3>3. InElement(x) \in Seq(Listed) BY InElementType
    <3>4. HandlersOf(q) = HandlersOf(r) \o InElement(x) BY <2>4, HandlersOfAppend
    <3>5. HandlersOf(r) \o InElement(x) \in Seq(Listed) BY <3>2, <3>3
    <3> QED BY <3>4, <3>5, <2>2
  <2> QED BY <2>3, <2>4, ListCases
<1>2. Len(l) \in Nat /\ Len(l) \notin T BY <1>1
<1> QED BY <1>2

(* The user's handlers of a list with one element more.                    *)
LEMMA AllUsersAppend ==
  ASSUME NEW G, G = Listed \/ G = Grouped, NEW l \in Seq(G), NEW x \in G
  PROVE  /\ AllUsers(Append(l, x)) = AllUsers(l) \o UsersOf(InElement(x))
         /\ AllUsers(l) \in Seq(Listed)
<1>1. HandlersOf(Append(l, x)) = HandlersOf(l) \o InElement(x) BY HandlersOfAppend
<1>2. HandlersOf(l) \in Seq(Listed) /\ InElement(x) \in Seq(Listed)
  BY HandlersOfType, InElementType
<1>3. UsersOf(HandlersOf(l) \o InElement(x))
        = UsersOf(HandlersOf(l)) \o UsersOf(InElement(x))
  BY <1>2, UsersOfConcat
<1> QED BY <1>1, <1>2, <1>3, UsersOfType DEF AllUsers

(* The user has no handlers in an empty list.                              *)
LEMMA AllUsersEmpty == AllUsers(<<>>) = <<>>
BY HandlersOfEmpty, UsersOfEmpty DEF AllUsers

(* A removal that leaves each element the user's handlers leaves the list  *)
(* the user's handlers.                                                    *)
LEMMA SiftUsers ==
  ASSUME NEW G, G = Listed \/ G = Grouped, NEW f \in [G -> G], NEW K, NEW l \in Seq(G),
         \A x \in G : /\ UsersOf(InElement(f[x])) = UsersOf(InElement(x))
                      /\ x \notin K => UsersOf(InElement(x)) = <<>>
  PROVE  AllUsers(Sift(l, f, K)) = AllUsers(l)
<1> DEFINE T == {n \in Nat : \E q \in Seq(G) :
                   Len(q) = n /\ AllUsers(Sift(q, f, K)) # AllUsers(q)}
<1>1. T = {}
  <2> SUFFICES ASSUME T # {} PROVE FALSE OBVIOUS
  <2>1. PICK n \in T : \A y \in T : n <= y
    <3>1. T \subseteq Nat OBVIOUS
    <3> HIDE DEF T
    <3> QED BY <3>1, Smallest
  <2>2. PICK q \in Seq(G) : Len(q) = n /\ AllUsers(Sift(q, f, K)) # AllUsers(q)
    OBVIOUS
  <2>3. q # <<>> BY <2>2, SiftEmpty
  <2>4. ASSUME NEW r \in Seq(G), NEW x \in G, q = Append(r, x), Len(r) + 1 = Len(q)
        PROVE  FALSE
    <3>1. Len(r) \in Nat /\ Len(r) \notin T
      <4>1. Len(r) \in Nat /\ ~(n <= Len(r)) BY <2>2, <2>4
      <4> HIDE DEF T
      <4> QED BY <4>1, <2>1
    <3>2. AllUsers(Sift(r, f, K)) = AllUsers(r) BY <3>1
    <3>3. AllUsers(q) = AllUsers(r) \o UsersOf(InElement(x)) /\ AllUsers(r) \in Seq(Listed)
      BY <2>4, AllUsersAppend
    <3>4. Sift(q, f, K) = IF x \in K THEN Append(Sift(r, f, K), f[x]) ELSE Sift(r, f, K)
      BY <2>4, SiftAppend, SMTT(30)
    <3>5. CASE x \in K
      <4>1. Sift(r, f, K) \in Seq(G) /\ f[x] \in G BY SiftRange
      <4>2. AllUsers(Append(Sift(r, f, K), f[x]))
              = AllUsers(Sift(r, f, K)) \o UsersOf(InElement(f[x]))
        BY <4>1, AllUsersAppend
      <4> QED BY <4>2, <3>2, <3>3, <3>4, <3>5, <2>2
    <3>6. CASE x \notin K
      <4>1. UsersOf(InElement(x)) = <<>> BY <3>6
      <4>2. AllUsers(r) \o <<>> = AllUsers(r) BY <3>3
      <4> QED BY <4>1, <4>2, <3>2, <3>3, <3>4, <3>6, <2>2
    <3> QED BY <3>5, <3>6
  <2> QED BY <2>3, <2>4, ListCases
<1>2. Len(l) \in Nat /\ Len(l) \notin T BY <1>1
<1> QED BY <1>2
(* A list of handlers is the list of its handlers.                         *)
LEMMA HandlersOfListed ==
  ASSUME NEW l \in Seq(Listed)
  PROVE  HandlersOf(l) = l
<1> DEFINE T == {n \in Nat : \E q \in Seq(Listed) : Len(q) = n /\ HandlersOf(q) # q}
<1>1. T = {}
  <2> SUFFICES ASSUME T # {} PROVE FALSE OBVIOUS
  <2>1. PICK n \in T : \A y \in T : n <= y
    <3>1. T \subseteq Nat OBVIOUS
    <3> HIDE DEF T
    <3> QED BY <3>1, Smallest
  <2>2. PICK q \in Seq(Listed) : Len(q) = n /\ HandlersOf(q) # q OBVIOUS
  <2>3. q # <<>> BY <2>2, HandlersOfEmpty
  <2>4. ASSUME NEW r \in Seq(Listed), NEW x \in Listed, q = Append(r, x), Len(r) + 1 = Len(q)
        PROVE  FALSE
    <3>1. Len(r) \in Nat /\ Len(r) \notin T
      <4>1. Len(r) \in Nat /\ ~(n <= Len(r)) BY <2>2, <2>4
      <4> HIDE DEF T
      <4> QED BY <4>1, <2>1
    <3>2. HandlersOf(r) = r BY <3>1
    <3>3. InElement(x) = <<x>>
      <4>1. "hooks" \notin DOMAIN x BY DEF Listed
      <4> QED BY <4>1 DEF InElement
    <3>4. HandlersOf(q) = r \o <<x>> BY <2>4, <3>2, <3>3, HandlersOfAppend
    <3>5. q = r \o <<x>> BY <2>4, AppendIsConcat
    <3> QED BY <3>4, <3>5, <2>2
  <2> QED BY <2>3, <2>4, ListCases
<1>2. Len(l) \in Nat /\ Len(l) \notin T BY <1>1
<1> QED BY <1>2

-----------------------------------------------------------------------------
(* The removals of the plugins differ in the handlers they look for, the   *)
(* groups they look into, and the groups that go when they are empty.      *)
Ways == [grouped : BOOLEAN, forms : SUBSET Forms, shapes : SUBSET {"exact", "star", "own"},
         drop : SUBSET {"exact", "star", "own"}, hit : BOOLEAN]
IsWay(w) == w \in Ways /\ "exact" \in w.forms /\ "exact" \in w.shapes /\ "exact" \in w.drop

Kind(w) == IF w.grouped THEN Grouped ELSE Listed
Item(a, e, w) == IF w.grouped THEN Group(a, e) ELSE Handler(a, e)

Same == [y \in Listed |-> y]
Rest(e, ids, w) == {y \in Listed : ~Refers(y, e, ids, w.forms)}

\* What is left of an element.
Leave(e, ids, w) ==
  IF w.grouped
  THEN [g \in Grouped |-> IF g.shape \in w.shapes
                          THEN [g EXCEPT !.hooks = Sift(@, Same, Rest(e, ids, w))] ELSE g]
  ELSE Same

\* The elements of which something stays.
Stays(e, ids, w) ==
  IF w.grouped
  THEN {g \in Grouped : ~(/\ Leave(e, ids, w)[g].hooks = <<>>
                          /\ g.shape \in w.drop
                          /\ w.hit => g.hooks # <<>>)}
  ELSE Rest(e, ids, w)

Clean(l, e, ids, w) == Sift(l, Leave(e, ids, w), Stays(e, ids, w))

Has(x, y) == \E k \in DOMAIN InElement(x) : InElement(x)[k] = y

(* The map that changes no handler.                                        *)
LEMMA SameType == Same \in [Listed -> Listed] /\ \A y \in Listed : Same[y] = y
BY DEF Same

(* What a removal leaves of a list of handlers.                            *)
LEMMA InnerRange ==
  ASSUME NEW hs \in Seq(Listed), NEW e, NEW ids, NEW w
  PROVE  /\ Sift(hs, Same, Rest(e, ids, w)) \in Seq(Listed)
         /\ \A i \in DOMAIN Sift(hs, Same, Rest(e, ids, w)) :
              /\ Sift(hs, Same, Rest(e, ids, w))[i] \in Rest(e, ids, w)
              /\ \E j \in DOMAIN hs : Sift(hs, Same, Rest(e, ids, w))[i] = hs[j]
<1>1. \A j \in DOMAIN hs : Same[hs[j]] = hs[j] BY SameType
<1> DEFINE R == Rest(e, ids, w)
<1> HIDE DEF R
<1>2. Sift(hs, Same, R) \in Seq(Listed) /\ \A i \in DOMAIN Sift(hs, Same, R) :
          \E j \in DOMAIN hs : hs[j] \in R /\ Sift(hs, Same, R)[i] = Same[hs[j]]
  BY SiftRange, SameType
<1>3. \A i \in DOMAIN Sift(hs, Same, R) :
          Sift(hs, Same, R)[i] \in R /\ \E j \in DOMAIN hs : Sift(hs, Same, R)[i] = hs[j]
  BY <1>1, <1>2
<1> QED BY <1>2, <1>3 DEF R

(* What a removal left, another one leaves.                                *)
LEMMA InnerTwice ==
  ASSUME NEW hs \in Seq(Listed), NEW e, NEW ids, NEW w
  PROVE  Sift(Sift(hs, Same, Rest(e, ids, w)), Same, Rest(e, ids, w))
           = Sift(hs, Same, Rest(e, ids, w))
<1> DEFINE q == Sift(hs, Same, Rest(e, ids, w))
<1>1. q \in Seq(Listed) /\ \A i \in DOMAIN q : q[i] \in Rest(e, ids, w)
  BY InnerRange
<1> HIDE DEF q
<1>2. \A i \in DOMAIN q : q[i] \in Rest(e, ids, w) /\ Same[q[i]] = q[i]
  BY <1>1, SameType
<1>3. Sift(q, Same, Rest(e, ids, w)) = q BY <1>1, <1>2, SiftSame
<1> QED BY <1>3 DEF q

(* A removal leaves the user's handlers.                                   *)
LEMMA InnerUsers ==
  ASSUME NEW hs \in Seq(Listed), NEW e, NEW ids \in SUBSET Agents, NEW w
  PROVE  UsersOf(Sift(hs, Same, Rest(e, ids, w))) = UsersOf(hs)
<1> DEFINE R == Rest(e, ids, w)
<1>1. \A x \in Listed : /\ UsersOf(InElement(Same[x])) = UsersOf(InElement(x))
                        /\ x \notin R => UsersOf(InElement(x)) = <<>>
  <2> TAKE x \in Listed
  <2>1. Same[x] = x BY SameType
  <2>2. ASSUME x \notin R PROVE UsersOf(InElement(x)) = <<>>
    <3>1. x.owner # User BY <2>2, HostAssumption DEF Rest, Refers
    <3>2. InElement(x) = <<x>>
      <4>1. "hooks" \notin DOMAIN x BY DEF Listed
      <4> QED BY <4>1 DEF InElement
    <3>3. <<x>> = Append(<<>>, x) /\ <<>> \in Seq(Listed) OBVIOUS
    <3>4. UsersOf(Append(<<>>, x)) = UsersOf(<<>>) BY <3>1, <3>3, UsersOfAppend
    <3> QED BY <3>2, <3>3, <3>4, UsersOfEmpty
  <2> QED BY <2>1, <2>2
<1> HIDE DEF R
<1>2. AllUsers(Sift(hs, Same, R)) = AllUsers(hs)
  BY <1>1, SameType, SiftUsers
<1>3. Sift(hs, Same, R) \in Seq(Listed) BY InnerRange DEF R
<1>4. HandlersOf(Sift(hs, Same, R)) = Sift(hs, Same, R) /\ HandlersOf(hs) = hs
  BY <1>3, HandlersOfListed
<1> QED BY <1>2, <1>4 DEF AllUsers, R

(* A handler is the only one of itself, a group has its own.               *)
LEMMA ElementKinds ==
  /\ \A x \in Listed : InElement(x) = <<x>> /\ "hooks" \notin DOMAIN x
  /\ \A x \in Grouped : /\ InElement(x) = x.hooks /\ "hooks" \in DOMAIN x
                        /\ x.hooks \in Seq(Listed) /\ x.shape \in {"exact", "star", "own"}
<1>1. \A x \in Listed : "hooks" \notin DOMAIN x BY DEF Listed
<1>2. \A x \in Grouped : "hooks" \in DOMAIN x /\ x.hooks \in Seq(Listed)
                         /\ x.shape \in {"exact", "star", "own"}
  BY DEF Grouped
<1> QED BY <1>1, <1>2 DEF InElement

(* What is left of a group.                                                *)
LEMMA LeaveGroup ==
  ASSUME NEW w, IsWay(w), w.grouped, NEW e, NEW ids, NEW g \in Grouped
  PROVE  /\ Leave(e, ids, w) \in [Grouped -> Grouped]
         /\ Leave(e, ids, w)[g].shape = g.shape
         /\ Leave(e, ids, w)[g].hooks = IF g.shape \in w.shapes
                                        THEN Sift(g.hooks, Same, Rest(e, ids, w)) ELSE g.hooks
         /\ Leave(e, ids, w)[g] \in Grouped
<1> DEFINE In(x) == Sift(x.hooks, Same, Rest(e, ids, w))
<1>1. \A x \in Grouped : In(x) \in Seq(Listed) BY ElementKinds, InnerRange
<1> HIDE DEF In
<1>2. \A x \in Grouped : [x EXCEPT !.hooks = In(x)] \in Grouped
                         /\ [x EXCEPT !.hooks = In(x)] = [shape |-> x.shape, hooks |-> In(x)]
                         /\ x = [shape |-> x.shape, hooks |-> x.hooks]
  <2> TAKE x \in Grouped
  <2>1. x = [shape |-> x.shape, hooks |-> x.hooks] BY DEF Grouped
  <2>2. [x EXCEPT !.hooks = In(x)] = [shape |-> x.shape, hooks |-> In(x)] BY <2>1
  <2>3. [shape |-> x.shape, hooks |-> In(x)] \in Grouped BY <1>1, ElementKinds DEF Grouped
  <2> QED BY <2>1, <2>2, <2>3
<1>3. Leave(e, ids, w) = [x \in Grouped |-> IF x.shape \in w.shapes
                                            THEN [x EXCEPT !.hooks = In(x)] ELSE x]
  BY DEF Leave, In
<1>4. Leave(e, ids, w) \in [Grouped -> Grouped] BY <1>2, <1>3
<1>5. Leave(e, ids, w)[g] = IF g.shape \in w.shapes THEN [g EXCEPT !.hooks = In(g)] ELSE g
  BY <1>3
<1>6. Leave(e, ids, w)[g] = [shape |-> g.shape,
                             hooks |-> IF g.shape \in w.shapes THEN In(g) ELSE g.hooks]
  BY <1>2, <1>5
<1> QED BY <1>4, <1>6 DEF In

(* A group is its shape and its handlers.                                  *)
LEMMA GroupRecord ==
  ASSUME NEW g \in Grouped, NEW h \in Grouped, g.shape = h.shape, g.hooks = h.hooks
  PROVE  g = h
BY DEF Grouped

(* What is left of an element is an element.                               *)
LEMMA LeaveType ==
  ASSUME NEW w, IsWay(w), NEW e, NEW ids
  PROVE  Leave(e, ids, w) \in [Kind(w) -> Kind(w)]
<1>1. CASE w.grouped
  <2>1. CASE Grouped = {} BY <2>1, <1>1 DEF Leave, Kind
  <2>2. CASE Grouped # {} BY <2>2, <1>1, LeaveGroup DEF Kind
  <2> QED BY <2>1, <2>2
<1>2. CASE ~w.grouped BY <1>2, SameType DEF Leave, Kind
<1> QED BY <1>1, <1>2
(* What is left of an element is part of it, and is as it was.             *)
LEMMA LeavePart ==
  ASSUME NEW w, IsWay(w), NEW e, NEW ids \in SUBSET Agents, NEW x \in Kind(w)
  PROVE  /\ \A y : Has(Leave(e, ids, w)[x], y) => Has(x, y)
         /\ \A b : Runs(Leave(e, ids, w)[x], b) => Runs(x, b)
         /\ w.grouped => Leave(e, ids, w)[x].shape = x.shape
         /\ UsersOf(InElement(Leave(e, ids, w)[x])) = UsersOf(InElement(x))
<1>1. CASE w.grouped
  <2> DEFINE z == Leave(e, ids, w)[x]
  <2>1. x \in Grouped BY <1>1 DEF Kind
  <2>2. /\ z \in Grouped /\ z.shape = x.shape
        /\ z.hooks = IF x.shape \in w.shapes THEN Sift(x.hooks, Same, Rest(e, ids, w))
                     ELSE x.hooks
    BY <1>1, <2>1, LeaveGroup
  <2>3. /\ InElement(x) = x.hooks /\ "hooks" \in DOMAIN x /\ x.hooks \in Seq(Listed)
        /\ InElement(z) = z.hooks /\ "hooks" \in DOMAIN z
    BY <2>1, <2>2, ElementKinds
  <2>4. \A i \in DOMAIN z.hooks : \E j \in DOMAIN x.hooks : z.hooks[i] = x.hooks[j]
    BY <2>2, <2>3, InnerRange
  <2>5. UsersOf(z.hooks) = UsersOf(x.hooks) BY <2>2, <2>3, InnerUsers
  <2> HIDE DEF z
  <2>6. \A y : Has(z, y) => Has(x, y) BY <2>3, <2>4 DEF Has
  <2>7. \A b : Runs(z, b) => Runs(x, b)
    BY <2>2, <2>3, <2>4 DEF Runs, Some, Exact
  <2> QED BY <2>2, <2>3, <2>5, <2>6, <2>7 DEF z
<1>2. CASE ~w.grouped
  <2>1. Leave(e, ids, w)[x] = x BY <1>2, SameType DEF Leave, Kind
  <2> QED BY <2>1, <1>2
<1> QED BY <1>1, <1>2

(* The handlers that are looked for, where they are looked for, are not    *)
(* left.                                                                   *)
LEMMA LeaveGone ==
  ASSUME NEW w, IsWay(w), NEW e, NEW ids, NEW x \in Kind(w), x \in Stays(e, ids, w),
         NEW y, Has(Leave(e, ids, w)[x], y), Refers(y, e, ids, w.forms)
  PROVE  w.grouped /\ x.shape \notin w.shapes
<1>1. CASE w.grouped
  <2> DEFINE z == Leave(e, ids, w)[x]
  <2>1. x \in Grouped BY <1>1 DEF Kind
  <2>2. SUFFICES ASSUME x.shape \in w.shapes PROVE FALSE BY <1>1
  <2>3. z \in Grouped /\ z.hooks = Sift(x.hooks, Same, Rest(e, ids, w))
    BY <1>1, <2>1, <2>2, LeaveGroup
  <2>4. x.hooks \in Seq(Listed) /\ InElement(z) = z.hooks BY <2>1, <2>3, ElementKinds
  <2>5. \A i \in DOMAIN z.hooks : z.hooks[i] \in Rest(e, ids, w)
    BY <2>3, <2>4, InnerRange
  <2>6. Has(z, y) OBVIOUS
  <2> HIDE DEF z
  <2>7. y \in Rest(e, ids, w) BY <2>4, <2>5, <2>6 DEF Has
  <2> QED BY <2>7 DEF Rest
<1>2. CASE ~w.grouped
  <2>1. x \in Listed /\ Leave(e, ids, w)[x] = x /\ x \in Rest(e, ids, w)
    BY <1>2, SameType DEF Leave, Kind, Stays
  <2>2. InElement(x) = <<x>> BY <2>1, ElementKinds
  <2>3. \A k \in DOMAIN <<x>> : <<x>>[k] = x OBVIOUS
  <2>4. y = x BY <2>1, <2>2, <2>3 DEF Has
  <2> QED BY <2>1, <2>4 DEF Rest
<1> QED BY <1>1, <1>2

(* A second removal finds nothing.                                         *)
LEMMA LeaveTwice ==
  ASSUME NEW w, IsWay(w), NEW e, NEW ids, NEW x \in Kind(w), x \in Stays(e, ids, w)
  PROVE  /\ Leave(e, ids, w)[x] \in Stays(e, ids, w)
         /\ Leave(e, ids, w)[Leave(e, ids, w)[x]] = Leave(e, ids, w)[x]
<1>1. CASE w.grouped
  <2> DEFINE z == Leave(e, ids, w)[x]
             v == Leave(e, ids, w)[z]
  <2>1. x \in Grouped BY <1>1 DEF Kind
  <2>2. /\ z \in Grouped /\ z.shape = x.shape
        /\ z.hooks = IF x.shape \in w.shapes THEN Sift(x.hooks, Same, Rest(e, ids, w))
                     ELSE x.hooks
    BY <1>1, <2>1, LeaveGroup
  <2>3. /\ v.hooks = IF z.shape \in w.shapes THEN Sift(z.hooks, Same, Rest(e, ids, w))
                     ELSE z.hooks
        /\ v \in Grouped /\ v.shape = z.shape
    BY <1>1, <2>2, LeaveGroup
  <2>4. x.hooks \in Seq(Listed) BY <2>1, ElementKinds
  <2>5. v.hooks = z.hooks
    <3>1. CASE x.shape \in w.shapes
      <4>1. z.hooks = Sift(x.hooks, Same, Rest(e, ids, w)) BY <3>1, <2>2
      <4>2. v.hooks = Sift(z.hooks, Same, Rest(e, ids, w)) BY <3>1, <2>2, <2>3
      <4> HIDE DEF z, v
      <4> QED BY <4>1, <4>2, <2>4, InnerTwice
    <3>2. CASE x.shape \notin w.shapes BY <3>2, <2>2, <2>3
    <3> QED BY <3>1, <3>2
  <2>6. v = z BY <2>2, <2>3, <2>5, GroupRecord
  <2>7. z \in Stays(e, ids, w)
    <3>1. ~(z.hooks = <<>> /\ x.shape \in w.drop /\ (w.hit => x.hooks # <<>>))
      BY <1>1 DEF Stays
    <3>2. z.hooks = <<>> /\ w.hit /\ x.hooks = <<>> /\ x.shape \in w.drop
            => ~(w.hit => z.hooks # <<>>)
      OBVIOUS
    <3>3. ~(v.hooks = <<>> /\ z.shape \in w.drop /\ (w.hit => z.hooks # <<>>))
      BY <2>2, <2>5, <3>1
    <3> QED BY <1>1, <2>2, <3>3 DEF Stays
  <2> QED BY <2>6, <2>7
<1>2. CASE ~w.grouped
  <2>1. x \in Listed /\ Leave(e, ids, w)[x] = x BY <1>2, SameType DEF Leave, Kind
  <2> QED BY <2>1
<1> QED BY <1>1, <1>2

(* What goes holds nothing of the user's.                                  *)
LEMMA DroppedUsers ==
  ASSUME NEW w, IsWay(w), NEW e, NEW ids \in SUBSET Agents, NEW x \in Kind(w),
         x \notin Stays(e, ids, w)
  PROVE  UsersOf(InElement(x)) = <<>>
<1>1. CASE w.grouped
  <2>1. x \in Grouped BY <1>1 DEF Kind
  <2>2. Leave(e, ids, w)[x].hooks = <<>> BY <1>1, <2>1 DEF Stays
  <2>3. InElement(Leave(e, ids, w)[x]) = <<>> BY <1>1, <2>1, <2>2, LeaveGroup, ElementKinds
  <2> QED BY <2>3, LeavePart, UsersOfEmpty
<1>2. CASE ~w.grouped
  <2>1. x \in Listed /\ x \notin Rest(e, ids, w) BY <1>2 DEF Kind, Stays
  <2>2. x.owner # User BY <2>1, HostAssumption DEF Rest, Refers
  <2>3. <<x>> = Append(<<>>, x) /\ <<>> \in Seq(Listed) OBVIOUS
  <2>4. UsersOf(Append(<<>>, x)) = UsersOf(<<>>) BY <2>1, <2>2, <2>3, UsersOfAppend
  <2> QED BY <2>1, <2>3, <2>4, UsersOfEmpty, ElementKinds
<1> QED BY <1>1, <1>2

(* What an installation adds.                                              *)
LEMMA ItemFacts ==
  ASSUME NEW w, IsWay(w), NEW e, NEW a \in Agents
  PROVE  /\ Item(a, e, w) \in Kind(w)
         /\ Handler(a, e) \in Listed
         /\ InElement(Item(a, e, w)) = <<Handler(a, e)>>
         /\ UsersOf(InElement(Item(a, e, w))) = <<>>
         /\ \A y : Has(Item(a, e, w), y) <=> y = Handler(a, e)
         /\ \A b : Runs(Item(a, e, w), b) <=> b = a
         /\ Item(a, e, w) \notin Stays(e, Agents, w)
         /\ w.grouped => Item(a, e, w).shape = "exact"
<1>1. Handler(a, e) \in Listed BY DEF Handler, Listed, ScriptOf, Forms
<1>2. <<Handler(a, e)>> \in Seq(Listed) BY <1>1
<1>3. Group(a, e) \in Grouped BY <1>2 DEF Group, Grouped
<1>4. Item(a, e, w) \in Kind(w) BY <1>1, <1>3 DEF Item, Kind
<1>5. InElement(Item(a, e, w)) = <<Handler(a, e)>>
  BY <1>1, <1>3, ElementKinds DEF Item, Group
<1>6. UsersOf(<<Handler(a, e)>>) = <<>>
  <2>1. Handler(a, e).owner # User BY HostAssumption DEF Handler
  <2>2. <<Handler(a, e)>> = Append(<<>>, Handler(a, e)) /\ <<>> \in Seq(Listed) OBVIOUS
  <2>3. UsersOf(Append(<<>>, Handler(a, e))) = UsersOf(<<>>) BY <1>1, <2>1, <2>2, UsersOfAppend
  <2> QED BY <2>2, <2>3, UsersOfEmpty
<1>7. \A k \in DOMAIN <<Handler(a, e)>> : <<Handler(a, e)>>[k] = Handler(a, e) OBVIOUS
<1>8. 1 \in DOMAIN <<Handler(a, e)>> OBVIOUS
<1>9. \A y : Has(Item(a, e, w), y) <=> y = Handler(a, e)
  BY <1>5, <1>7, <1>8 DEF Has
<1>10. \A b : Exact(Handler(a, e), b) <=> b = a BY DEF Exact, Handler
<1>11. \A b : Runs(Item(a, e, w), b) <=> b = a
  <2>1. CASE w.grouped
    <3>1. Item(a, e, w) = [shape |-> "exact", hooks |-> <<Handler(a, e)>>]
      BY <2>1 DEF Item, Group
    <3> QED BY <3>1, <1>7, <1>8, <1>10 DEF Runs, Some
  <2>2. CASE ~w.grouped
    <3>1. Item(a, e, w) = Handler(a, e) BY <2>2 DEF Item
    <3> QED BY <3>1, <1>1, <1>10, ElementKinds DEF Runs
  <2> QED BY <2>1, <2>2
<1>12. Handler(a, e) \notin Rest(e, Agents, w)
  BY DEF Rest, Refers, Handler, IsWay
<1>13. Sift(<<Handler(a, e)>>, Same, Rest(e, Agents, w)) = <<>>
  <2>1. <<Handler(a, e)>> = Append(<<>>, Handler(a, e)) /\ <<>> \in Seq(Listed) OBVIOUS
  <2>2. Sift(Append(<<>>, Handler(a, e)), Same, Rest(e, Agents, w))
          = Sift(<<>>, Same, Rest(e, Agents, w))
    <3> DEFINE R == Rest(e, Agents, w)
               h == Handler(a, e)
    <3> HIDE DEF R, h
    <3>1. h \in Listed /\ h \notin R BY <1>1, <1>12 DEF R, h
    <3>2. Sift(Append(<<>>, h), Same, R) = Sift(<<>>, Same, R)
      <4>1. \A l \in Seq(Listed) : \A K : \A x \in Listed \ K :
              Sift(Append(l, x), Same, K) = Sift(l, Same, K)
        BY SiftAppend, SameType
      <4> QED BY <2>1, <3>1, <4>1
    <3> QED BY <3>2 DEF R, h
  <2> QED BY <2>1, <2>2, SiftEmpty
<1>14. Item(a, e, w) \notin Stays(e, Agents, w)
  <2>1. CASE w.grouped
    <3> DEFINE g == Group(a, e)
    <3>1. g.shape = "exact" /\ g.hooks = <<Handler(a, e)>> BY DEF Group
    <3>2. Leave(e, Agents, w)[g].hooks = <<>>
      <4>1. g.shape \in w.shapes BY <3>1 DEF IsWay
      <4>2. Leave(e, Agents, w)[g].hooks = Sift(g.hooks, Same, Rest(e, Agents, w))
        BY <2>1, <1>3, <4>1, LeaveGroup
      <4> QED BY <4>2, <3>1, <1>13
    <3>3. g.hooks # <<>>
      <4>1. <<Handler(a, e)>> # <<>> OBVIOUS
      <4> QED BY <3>1, <4>1
    <3> HIDE DEF g
    <3>4. g \notin Stays(e, Agents, w) BY <2>1, <3>1, <3>2, <3>3 DEF Stays, IsWay
    <3> QED BY <2>1, <3>4 DEF Item, g
  <2>2. CASE ~w.grouped BY <2>2, <1>12 DEF Item, Stays
  <2> QED BY <2>1, <2>2
<1>15. w.grouped => Item(a, e, w).shape = "exact" BY DEF Item, Group
<1> QED BY <1>1, <1>4, <1>5, <1>6, <1>9, <1>11, <1>14, <1>15

-----------------------------------------------------------------------------
(* Lists after a removal.                                                  *)

(* A removal leaves a list of the same kind.                               *)
LEMMA CleanType ==
  ASSUME NEW w, IsWay(w), NEW e, NEW ids, NEW l \in Seq(Kind(w))
  PROVE  /\ Clean(l, e, ids, w) \in Seq(Kind(w))
         /\ \A i \in DOMAIN Clean(l, e, ids, w) :
              \E j \in DOMAIN l : /\ l[j] \in Stays(e, ids, w)
                                  /\ Clean(l, e, ids, w)[i] = Leave(e, ids, w)[l[j]]
<1>1. Leave(e, ids, w) \in [Kind(w) -> Kind(w)] BY LeaveType
<1> QED BY <1>1, SiftRange DEF Clean

\* z has no other handlers than x, and runs nothing else.
Part(z, x) == /\ \A y : Has(z, y) => Has(x, y)
              /\ \A b : Runs(z, b) => Runs(x, b)

(* What stays was there, and is not what was looked for.                   *)
LEMMA CleanParts ==
  ASSUME NEW w, IsWay(w), NEW e, NEW ids \in SUBSET Agents, NEW l \in Seq(Kind(w)),
         NEW i \in DOMAIN Clean(l, e, ids, w)
  PROVE  /\ \E j \in DOMAIN l : Part(Clean(l, e, ids, w)[i], l[j])
         /\ \A y : Has(Clean(l, e, ids, w)[i], y) /\ Refers(y, e, ids, w.forms)
                     => w.grouped /\ Clean(l, e, ids, w)[i].shape \notin w.shapes
<1>1. PICK j \in DOMAIN l : /\ l[j] \in Stays(e, ids, w)
                            /\ Clean(l, e, ids, w)[i] = Leave(e, ids, w)[l[j]]
  BY CleanType
<1>2. l[j] \in Kind(w) OBVIOUS
<1> DEFINE x == l[j]
           z == Leave(e, ids, w)[x]
<1>3. Part(z, x) BY <1>2, LeavePart DEF Part
<1>5. w.grouped => z.shape = x.shape BY <1>2, LeavePart
<1>4. \A y : Has(z, y) /\ Refers(y, e, ids, w.forms) => w.grouped /\ x.shape \notin w.shapes
  BY <1>1, <1>2, LeaveGone
<1> HIDE DEF z
<1> QED BY <1>1, <1>3, <1>4, <1>5 DEF z

(* A removal leaves the user's handlers of a list, in order.               *)
LEMMA CleanUsers ==
  ASSUME NEW w, IsWay(w), NEW e, NEW ids \in SUBSET Agents, NEW l \in Seq(Kind(w))
  PROVE  AllUsers(Clean(l, e, ids, w)) = AllUsers(l)
<1> DEFINE f == Leave(e, ids, w)
           K == Stays(e, ids, w)
           G == Kind(w)
<1>1. f \in [G -> G] BY LeaveType
<1>2. \A x \in G : /\ UsersOf(InElement(f[x])) = UsersOf(InElement(x))
                   /\ x \notin K => UsersOf(InElement(x)) = <<>>
  BY LeavePart, DroppedUsers
<1>3. G = Listed \/ G = Grouped BY DEF Kind
<1>4. l \in Seq(G) OBVIOUS
<1> HIDE DEF f, K, G
<1>5. AllUsers(Sift(l, f, K)) = AllUsers(l)
  BY <1>1, <1>2, <1>3, <1>4, SiftUsers
<1> QED BY <1>5 DEF Clean, f, K

(* A removal of nothing.                                                   *)
LEMMA CleanEmpty ==
  ASSUME NEW w, NEW e, NEW ids
  PROVE  Clean(<<>>, e, ids, w) = <<>>
BY SiftEmpty DEF Clean

(* What an installation adds, the next one removes, and nothing else.      *)
LEMMA CleanTwice ==
  ASSUME NEW w, IsWay(w), NEW e, NEW a \in Agents, NEW l \in Seq(Kind(w))
  PROVE  Clean(Append(Clean(l, e, Agents, w), Item(a, e, w)), e, Agents, w)
           = Clean(l, e, Agents, w)
<1> DEFINE m == Clean(l, e, Agents, w)
           f == Leave(e, Agents, w)
           K == Stays(e, Agents, w)
           G == Kind(w)
           x == Item(a, e, w)
<1>1. f \in [G -> G] BY LeaveType
<1>2. m \in Seq(G) /\ \A i \in DOMAIN m : \E j \in DOMAIN l : l[j] \in K /\ m[i] = f[l[j]]
  BY CleanType
<1>3. \A y \in G : y \in K => f[y] \in K /\ f[f[y]] = f[y] BY LeaveTwice
<1>4. x \in G /\ x \notin K BY ItemFacts
<1>5. l \in Seq(G) OBVIOUS
<1> HIDE DEF m, f, K, G, x
<1>6. \A i \in DOMAIN m : m[i] \in K /\ f[m[i]] = m[i]
  <2>1. \A j \in DOMAIN l : l[j] \in G BY <1>5
  <2> QED BY <1>2, <1>3, <2>1
<1>7. Sift(m, f, K) = m BY <1>2, <1>6, SiftSame
<1>8. Sift(Append(m, x), f, K) = Sift(m, f, K)
  <2>1. \A q \in Seq(G) : \A z \in G \ K : Sift(Append(q, z), f, K) = Sift(q, f, K)
    BY <1>1, SiftAppend
  <2> QED BY <2>1, <1>2, <1>4
<1>9. Clean(Append(m, x), e, Agents, w) = m BY <1>7, <1>8 DEF Clean, f, K
<1> QED BY <1>9 DEF m, x

(* What runs for an agent is the agent's and stands in an exact group.     *)
LEMMA RunsHas ==
  ASSUME NEW w, NEW x \in Kind(w), NEW b, Runs(x, b)
  PROVE  \E y : /\ Has(x, y) /\ y.owner = b /\ y.form = "exact"
                /\ w.grouped => x.shape = "exact"
<1>1. CASE w.grouped
  <2>1. InElement(x) = x.hooks /\ "hooks" \in DOMAIN x BY <1>1, ElementKinds DEF Kind
  <2>2. PICK i \in DOMAIN x.hooks : Exact(x.hooks[i], b) /\ x.shape = "exact"
    BY <2>1 DEF Runs, Some
  <2> QED BY <2>1, <2>2 DEF Has, Exact
<1>2. CASE ~w.grouped
  <2>1. InElement(x) = <<x>> /\ "hooks" \notin DOMAIN x BY <1>2, ElementKinds DEF Kind
  <2>2. 1 \in DOMAIN <<x>> /\ <<x>>[1] = x OBVIOUS
  <2> QED BY <1>2, <2>1, <2>2 DEF Has, Exact, Runs
<1> QED BY <1>1, <1>2

-----------------------------------------------------------------------------
(* Hooks: the lists of a document by event.                                *)
IsHooks(H, w) == H = [e \in DOMAIN H |-> H[e]] /\ DOMAIN H \subseteq AllEvents
                 /\ \A e \in DOMAIN H : H[e] \in Seq(Kind(w))

\* N is H after the removal of the handlers of `ids`.
Purged(N, H, es, ids, w) ==
  /\ IsHooks(N, w)
  /\ DOMAIN N \subseteq DOMAIN H
  /\ DOMAIN H \ DOMAIN N \subseteq es
  /\ \A e \in AllEvents : At(N, e) = IF e \in es THEN Clean(At(H, e), e, ids, w) ELSE At(H, e)

\* H after an installation of a.
Fresh(H, e, a, w) == Append(Clean(At(H, e), e, Agents, w), Item(a, e, w))
Renewed(H, es, a, w) ==
  [e \in es \cup DOMAIN H |-> IF e \in es THEN Fresh(H, e, a, w) ELSE H[e]]

(* What hooks list at an event.                                            *)
LEMMA AtType ==
  ASSUME NEW w, NEW H, IsHooks(H, w), NEW e
  PROVE  At(H, e) \in Seq(Kind(w))
BY DEF At, IsHooks

(* Lists put in place of others are a removal if they are cleaned, and all *)
(* that are not cleaned are clean.                                         *)
LEMMA PutOrDropPurged ==
  ASSUME NEW w, IsWay(w), NEW H, IsHooks(H, w), NEW es \in SUBSET AllEvents, NEW ids,
         NEW lists, lists = [e \in DOMAIN lists |-> lists[e]], DOMAIN lists \subseteq es,
         \A e \in DOMAIN lists : lists[e] = Clean(At(H, e), e, ids, w),
         \A e \in es : e \notin DOMAIN lists => Clean(At(H, e), e, ids, w) = At(H, e)
  PROVE  Purged(PutOrDrop(H, lists), H, es, ids, w)
<1> DEFINE N == PutOrDrop(H, lists)
           D == {e \in DOMAIN lists : lists[e] = <<>>}
<1>1. N = [e \in (DOMAIN lists \cup DOMAIN H) \ D |->
             IF e \in DOMAIN lists THEN lists[e] ELSE H[e]]
  BY DEF PutOrDrop, Drop, Over
<1>2. /\ DOMAIN N = (DOMAIN lists \cup DOMAIN H) \ D
      /\ \A e \in DOMAIN N : N[e] = IF e \in DOMAIN lists THEN lists[e] ELSE H[e]
      /\ N = [e \in DOMAIN N |-> N[e]]
  BY <1>1
<1> HIDE DEF N
<1>3. \A e \in DOMAIN lists : lists[e] \in Seq(Kind(w)) BY AtType, CleanType
<1>4. \A e \in DOMAIN lists : e \notin DOMAIN H => lists[e] = <<>>
  BY CleanEmpty DEF At
<1>5. DOMAIN H \subseteq AllEvents BY DEF IsHooks
<1>6. IsHooks(N, w) BY <1>2, <1>3, <1>5 DEF IsHooks
<1>7. DOMAIN N \subseteq DOMAIN H /\ DOMAIN H \ DOMAIN N \subseteq es BY <1>2, <1>4
<1>8. ASSUME NEW e \in AllEvents
      PROVE  At(N, e) = IF e \in es THEN Clean(At(H, e), e, ids, w) ELSE At(H, e)
  <2>1. CASE e \in DOMAIN lists
    <3>1. At(N, e) = lists[e] BY <2>1, <1>2 DEF At
    <3> QED BY <3>1, <2>1
  <2>2. CASE e \notin DOMAIN lists
    <3>1. At(N, e) = At(H, e) BY <2>2, <1>2 DEF At
    <3> QED BY <3>1, <2>2
  <2> QED BY <2>1, <2>2
<1> QED BY <1>6, <1>7, <1>8 DEF Purged, N

(* Adding to what a removal leaves is an installation.                     *)
LEMMA AppendRenewed ==
  ASSUME NEW w, IsWay(w), NEW H, IsHooks(H, w), NEW es \in SUBSET AllEvents, NEW a,
         NEW N, Purged(N, H, es, Agents, w)
  PROVE  Over([e \in es |-> Append(At(N, e), Item(a, e, w))], N) = Renewed(H, es, a, w)
<1>1. es \cup DOMAIN N = es \cup DOMAIN H BY DEF Purged
<1>2. \A e \in es : At(N, e) = Clean(At(H, e), e, Agents, w) BY DEF Purged
<1>3. \A e \in DOMAIN N \ es : N[e] = H[e]
  <2> TAKE e \in DOMAIN N \ es
  <2>1. e \in DOMAIN H /\ e \in AllEvents BY DEF Purged, IsHooks
  <2>2. At(N, e) = At(H, e) BY <2>1 DEF Purged
  <2> QED BY <2>1, <2>2 DEF At
<1> DEFINE L == [e \in es |-> Append(At(N, e), Item(a, e, w))]
<1>4. Over(L, N) = [e \in es \cup DOMAIN H |-> IF e \in es THEN L[e] ELSE N[e]]
  BY <1>1 DEF Over
<1>5. \A e \in es : L[e] = Fresh(H, e, a, w)
  BY <1>2 DEF Fresh
<1> HIDE DEF L
<1>6. \A e \in es \cup DOMAIN H :
        (IF e \in es THEN L[e] ELSE N[e])
          = IF e \in es THEN Fresh(H, e, a, w) ELSE H[e]
  BY <1>1, <1>3, <1>5
<1>7. Over(L, N) = Renewed(H, es, a, w) BY <1>4, <1>6 DEF Renewed
<1> QED BY <1>7 DEF L

(* The lists of an installation.                                           *)
LEMMA RenewedFacts ==
  ASSUME NEW w, IsWay(w), NEW H, IsHooks(H, w), NEW es \in SUBSET AllEvents, NEW a \in Agents
  PROVE  /\ IsHooks(Renewed(H, es, a, w), w)
         /\ DOMAIN Renewed(H, es, a, w) = es \cup DOMAIN H
         /\ \A e \in es : At(Renewed(H, es, a, w), e) = Fresh(H, e, a, w)
<1> DEFINE N == Renewed(H, es, a, w)
<1>1. \A e \in es : Fresh(H, e, a, w) \in Seq(Kind(w))
  <2> TAKE e \in es
  <2>1. Clean(At(H, e), e, Agents, w) \in Seq(Kind(w)) BY AtType, CleanType
  <2>2. Item(a, e, w) \in Kind(w) BY ItemFacts
  <2> QED BY <2>1, <2>2 DEF Fresh
<1>2. N = [e \in es \cup DOMAIN H |-> IF e \in es THEN Fresh(H, e, a, w) ELSE H[e]]
  BY DEF Renewed
<1> HIDE DEF N
<1>3. IsHooks(N, w) /\ DOMAIN N = es \cup DOMAIN H BY <1>1, <1>2 DEF IsHooks
<1>4. \A e \in es : At(N, e) = Fresh(H, e, a, w) BY <1>2 DEF At
<1> QED BY <1>3, <1>4 DEF N

(* An installation leaves the other events as they are.                    *)
LEMMA RenewedElse ==
  ASSUME NEW w, NEW H, NEW es, NEW a, NEW e, e \notin es
  PROVE  At(Renewed(H, es, a, w), e) = At(H, e)
BY DEF Renewed, At

(* A second installation of the agent changes nothing.                     *)
LEMMA RenewedTwice ==
  ASSUME NEW w, IsWay(w), NEW H, IsHooks(H, w), NEW es \in SUBSET AllEvents, NEW a \in Agents
  PROVE  Renewed(Renewed(H, es, a, w), es, a, w) = Renewed(H, es, a, w)
<1> DEFINE N == Renewed(H, es, a, w)
<1>1. DOMAIN N = es \cup DOMAIN H /\ \A e \in es : At(N, e) = Fresh(H, e, a, w)
  <2>1. DOMAIN N = es \cup DOMAIN H BY RenewedFacts, ZenonT(60)
  <2>2. \A e \in es : At(N, e) = Fresh(H, e, a, w) BY RenewedFacts
  <2> QED BY <2>1, <2>2
<1>2. \A e \in es : Fresh(N, e, a, w) = Fresh(H, e, a, w)
  BY <1>1, AtType, CleanTwice DEF Fresh
<1>3. N = [e \in es \cup DOMAIN H |-> IF e \in es THEN Fresh(H, e, a, w) ELSE H[e]]
  BY DEF Renewed
<1>4. Renewed(N, es, a, w)
        = [e \in es \cup DOMAIN N |-> IF e \in es THEN Fresh(N, e, a, w) ELSE N[e]]
  BY DEF Renewed
<1> HIDE DEF N
<1>5. Renewed(N, es, a, w)
        = [e \in es \cup DOMAIN H |-> IF e \in es THEN Fresh(H, e, a, w) ELSE H[e]]
  <2>1. es \cup DOMAIN N = es \cup DOMAIN H BY <1>1
  <2>2. \A e \in es \cup DOMAIN H : (IF e \in es THEN Fresh(N, e, a, w) ELSE N[e])
                                      = IF e \in es THEN Fresh(H, e, a, w) ELSE H[e]
    BY <1>2, <1>3
  <2> QED BY <1>4, <2>1, <2>2
<1> QED BY <1>3, <1>5 DEF N
(* Hooks without an event are those of a new file.                         *)
LEMMA NoHooks ==
  ASSUME NEW w, NEW N, IsHooks(N, w), DOMAIN N = {}
  PROVE  N = <<>>
BY DEF IsHooks

(* A new document lists nothing.                                           *)
LEMMA NewHooks == ASSUME NEW w PROVE IsHooks(<<>>, w) /\ \A e : At(<<>>, e) = <<>>
<1>1. DOMAIN <<>> = {} /\ <<>> = [e \in DOMAIN <<>> |-> <<>>[e]] OBVIOUS
<1> QED BY <1>1 DEF IsHooks, At

ListHas(l, y) == \E i \in DOMAIN l : Has(l[i], y)
RunsAt(l, b) == \E i \in DOMAIN l : Runs(l[i], b)

\* The handlers of N are those of H, some of the agents' excepted, and
\* those of c that were added at the events es.
Drawn(N, H, es, c) ==
  \A e \in AllEvents :
    /\ AllUsers(At(N, e)) = AllUsers(At(H, e))
    /\ \A y : ListHas(At(N, e), y) => ListHas(At(H, e), y) \/ (e \in es /\ y = Handler(c, e))
    /\ \A b : RunsAt(At(N, e), b) => RunsAt(At(H, e), b) \/ b = c

(* No change is an allowed change.                                         *)
LEMMA SameDrawn == ASSUME NEW H, NEW es, NEW c PROVE Drawn(H, H, es, c)
BY DEF Drawn

(* A removal keeps the user's handlers and adds nothing.                   *)
LEMMA PurgedDrawn ==
  ASSUME NEW w, IsWay(w), NEW H, IsHooks(H, w), NEW es, NEW ids \in SUBSET Agents,
         NEW N, Purged(N, H, es, ids, w), NEW fs, NEW c
  PROVE  Drawn(N, H, fs, c)
<1> SUFFICES ASSUME NEW e \in AllEvents
             PROVE  /\ AllUsers(At(N, e)) = AllUsers(At(H, e))
                    /\ \A y : ListHas(At(N, e), y) => ListHas(At(H, e), y)
                    /\ \A b : RunsAt(At(N, e), b) => RunsAt(At(H, e), b)
  BY DEF Drawn
<1>1. CASE e \in es
  <2>1. At(N, e) = Clean(At(H, e), e, ids, w) /\ At(H, e) \in Seq(Kind(w))
    BY <1>1, AtType DEF Purged
  <2>2. AllUsers(At(N, e)) = AllUsers(At(H, e)) BY <2>1, CleanUsers
  <2>3. \A i \in DOMAIN At(N, e) : \E j \in DOMAIN At(H, e) : Part(At(N, e)[i], At(H, e)[j])
    <3> DEFINE l == At(H, e)
               m == Clean(l, e, ids, w)
    <3>1. \A i \in DOMAIN m : \E j \in DOMAIN l : Part(m[i], l[j])
      BY <2>1, CleanParts
    <3> QED BY <3>1, <2>1
  <2> QED BY <2>2, <2>3 DEF ListHas, RunsAt, Part
<1>2. CASE e \notin es BY <1>2 DEF Purged
<1> QED BY <1>1, <1>2

(* Nothing of the agents runs after a removal, where all that runs stands  *)
(* in place.                                                               *)
LEMMA PurgedRuns ==
  ASSUME NEW w, IsWay(w), NEW H, IsHooks(H, w), NEW es, NEW ids \in SUBSET Agents,
         NEW N, Purged(N, H, es, ids, w),
         \A e \in AllEvents : \A y : ListHas(At(H, e), y) /\ y.owner \in Agents /\ y.form = "exact"
                                        => e \in es /\ y.script = ScriptOf(e),
         NEW e \in AllEvents, NEW b \in ids
  PROVE  ~RunsAt(At(N, e), b)
<1> SUFFICES ASSUME RunsAt(At(N, e), b) PROVE FALSE OBVIOUS
<1>1. PICK i \in DOMAIN At(N, e) : Runs(At(N, e)[i], b) BY DEF RunsAt
<1>2. IsHooks(N, w) /\ At(N, e) \in Seq(Kind(w)) BY AtType DEF Purged
<1>3. At(N, e)[i] \in Kind(w) BY <1>1, <1>2
<1>4. PICK y : /\ Has(At(N, e)[i], y) /\ y.owner = b /\ y.form = "exact"
               /\ w.grouped => At(N, e)[i].shape = "exact"
  BY <1>1, <1>3, RunsHas
<1>5. Drawn(N, H, {}, User) BY PurgedDrawn
<1>6. ListHas(At(H, e), y) BY <1>1, <1>4, <1>5 DEF Drawn, ListHas
<1>7. e \in es /\ y.script = ScriptOf(e) BY <1>4, <1>6
<1>8. At(N, e) = Clean(At(H, e), e, ids, w) /\ At(H, e) \in Seq(Kind(w))
  BY <1>7, AtType DEF Purged
<1>9. Refers(y, e, ids, w.forms) BY <1>4, <1>7 DEF Refers, IsWay
<1>10. w.grouped /\ At(N, e)[i].shape \notin w.shapes BY <1>1, <1>4, <1>8, <1>9, CleanParts
<1> QED BY <1>4, <1>10 DEF IsWay

(* An installation keeps the user's handlers and adds its own only.        *)
LEMMA RenewedDrawn ==
  ASSUME NEW w, IsWay(w), NEW H, IsHooks(H, w), NEW es \in SUBSET AllEvents, NEW a \in Agents
  PROVE  Drawn(Renewed(H, es, a, w), H, es, a)
<1> DEFINE N == Renewed(H, es, a, w)
<1>0. /\ \A e \in es : At(N, e) = Fresh(H, e, a, w)
      /\ \A e \in AllEvents \ es : At(N, e) = At(H, e)
  <2>1. \A e \in es : At(N, e) = Fresh(H, e, a, w) BY RenewedFacts
  <2>2. \A e \in AllEvents \ es : At(N, e) = At(H, e) BY RenewedElse
  <2> QED BY <2>1, <2>2
<1> HIDE DEF N
<1> SUFFICES ASSUME NEW e \in AllEvents
             PROVE  /\ AllUsers(At(N, e)) = AllUsers(At(H, e))
                    /\ \A y : ListHas(At(N, e), y) => \/ ListHas(At(H, e), y)
                                                      \/ e \in es /\ y = Handler(a, e)
                    /\ \A b : RunsAt(At(N, e), b) => RunsAt(At(H, e), b) \/ b = a
  BY DEF Drawn, N
<1>1. CASE e \in es
  <2> DEFINE l == At(H, e)
             m == Clean(l, e, Agents, w)
             x == Item(a, e, w)
  <2>1. l \in Seq(Kind(w)) BY AtType
  <2>2. /\ m \in Seq(Kind(w))
        /\ AllUsers(m) = AllUsers(l)
        /\ \A i \in DOMAIN m : \E j \in DOMAIN l : Part(m[i], l[j])
    <3>1. m \in Seq(Kind(w)) BY <2>1, CleanType
    <3>2. AllUsers(m) = AllUsers(l) BY <2>1, CleanUsers
    <3>3. \A i \in DOMAIN m : \E j \in DOMAIN l : Part(m[i], l[j]) BY <2>1, CleanParts
    <3> QED BY <3>1, <3>2, <3>3
  <2>3. /\ x \in Kind(w) /\ UsersOf(InElement(x)) = <<>>
        /\ \A y : Has(x, y) <=> y = Handler(a, e)
        /\ \A b : Runs(x, b) <=> b = a
    BY ItemFacts
  <2>4. At(N, e) = Append(m, x) BY <1>0, <1>1 DEF Fresh
  <2>a. Kind(w) = Listed \/ Kind(w) = Grouped BY DEF Kind
  <2> HIDE DEF l, m, x
  <2>5. AllUsers(Append(m, x)) = AllUsers(m)
    <3>1. \A q \in Seq(Kind(w)), z \in Kind(w) :
            AllUsers(Append(q, z)) = AllUsers(q) \o UsersOf(InElement(z))
      BY <2>a, AllUsersAppend
    <3>2. \A q \in Seq(Kind(w)), z \in Kind(w) : AllUsers(q) \in Seq(Listed)
      BY <2>a, AllUsersAppend
    <3>3. AllUsers(m) \o <<>> = AllUsers(m) BY <3>2, <2>2, <2>3, ConcatEmptySeq
    <3> QED BY <3>1, <3>3, <2>2, <2>3
  <2>6. \A i \in DOMAIN Append(m, x) :
          \/ i \in DOMAIN m /\ Append(m, x)[i] = m[i]
          \/ Append(m, x)[i] = x
    BY <2>2, <2>3
  <2> DEFINE p == Append(m, x)
  <2> HIDE DEF p
  <2>7. \A i \in DOMAIN p : (i \in DOMAIN m /\ p[i] = m[i]) \/ p[i] = x BY <2>6 DEF p
  <2>8. \A y : ListHas(p, y) => ListHas(l, y) \/ y = Handler(a, e)
    BY <2>2, <2>3, <2>7 DEF ListHas, Part
  <2>9. \A b : RunsAt(p, b) => RunsAt(l, b) \/ b = a
    BY <2>2, <2>3, <2>7 DEF RunsAt, Part
  <2> QED BY <1>1, <2>2, <2>4, <2>5, <2>8, <2>9 DEF p, l
<1>2. CASE e \notin es BY <1>0, <1>2
<1> QED BY <1>1, <1>2

-----------------------------------------------------------------------------
(* Documents.                                                              *)

(* A document is its root and its hooks.                                   *)
LEMMA DocumentParts ==
  ASSUME NEW w, NEW d, IsDocument(d, Kind(w))
  PROVE  /\ d = Document(d.root, d.hooks)
         /\ d.root \in SUBSET Fields
         /\ IsHooks(d.hooks, w)
<1>1. PICK es \in SUBSET AllEvents : d \in [root : SUBSET Fields, hooks : [es -> Seq(Kind(w))]]
  BY DEF IsDocument
<1>2. d = [root |-> d.root, hooks |-> d.hooks] /\ d.root \in SUBSET Fields
      /\ d.hooks \in [es -> Seq(Kind(w))]
  BY <1>1
<1> QED BY <1>2 DEF Document, IsHooks

(* A root and hooks make up a document.                                    *)
LEMMA DocumentMade ==
  ASSUME NEW w, NEW r \in SUBSET Fields, NEW N, IsHooks(N, w)
  PROVE  /\ IsDocument(Document(r, N), Kind(w))
         /\ Document(r, N) # NoFile
         /\ Document(r, N).root = r /\ Document(r, N).hooks = N
<1>1. DOMAIN N \in SUBSET AllEvents /\ N \in [DOMAIN N -> Seq(Kind(w))] BY DEF IsHooks
<1>2. [root |-> r, hooks |-> N] \in [root : SUBSET Fields, hooks : [DOMAIN N -> Seq(Kind(w))]]
  BY <1>1
<1>3. IsDocument(Document(r, N), Kind(w)) BY <1>1, <1>2 DEF IsDocument, Document
<1>4. ~IsDocument(NoFile, Kind(w)) BY HostAssumption DEF Kind
<1> QED BY <1>3, <1>4 DEF Document

(* The root and the hooks of a file that may be absent.                    *)
LEMMA OrNewParts ==
  ASSUME NEW w, NEW d, d # NoFile => IsDocument(d, Kind(w))
  PROVE  /\ OrNew(d).root \in SUBSET Fields
         /\ IsHooks(OrNew(d).hooks, w)
         /\ d = NoFile => OrNew(d).root = {} /\ OrNew(d).hooks = <<>>
         /\ d # NoFile => OrNew(d) = d
<1>1. NewDocument.root = {} /\ NewDocument.hooks = <<>> BY DEF NewDocument, Document
<1> QED BY <1>1, DocumentParts, NewHooks DEF OrNew

Plain == {"hooks", "marker", "version", "meta", "malformed"}

\* d' is an allowed file, its handlers are drawn from d, and the user's
\* fields of d are there.
FileChanged(h, n, new, old, es, c) ==
  /\ new # NoFile => IsDocument(new, Elements(h)) /\ Contained(h, n, new)
  /\ Drawn(OrNew(new).hooks, OrNew(old).hooks, es, c)
  /\ OrNew(old).root \ Plain \subseteq OrNew(new).root

Changed(h, new, ds, c) ==
  /\ new = [n \in Names(h) |-> new[n]]
  /\ \A n \in Names(h) :
       FileChanged(h, n, new[n], ds[n], IF n \in Written(h, ds) THEN Events(h) ELSE {}, c)
  /\ Written(h, ds) \subseteq Written(h, new)
  /\ h = "kimi" => Homes(new["homes"])

InPlaceHas(h, ds) ==
  \A n \in Names(h), e \in AllEvents : \A y :
    ListHas(ListAt(ds, n, e), y) /\ y.owner \in Agents /\ y.form = "exact"
      => n \in Written(h, ds) /\ e \in Events(h) /\ y.script = ScriptOf(e)

(* InPlace by the handlers a list has.                                     *)
LEMMA InPlaceIff == \A h, ds : InPlace(h, ds) <=> InPlaceHas(h, ds)
BY DEF InPlace, InPlaceHas, Every, ListHas, Has

(* What a change keeps.                                                    *)
LEMMA ChangedKeeps ==
  ASSUME NEW h, NEW ds, WellFormed(h, ds), NEW new, NEW c, Changed(h, new, ds, c)
  PROVE  /\ WellFormed(h, new)
         /\ DOMAIN ds = Names(h)
         /\ \A n \in Names(h), e \in AllEvents :
              /\ UsersHandlers(new, n, e) = UsersHandlers(ds, n, e)
              /\ \A b : RunsAt(ListAt(new, n, e), b) => RunsAt(ListAt(ds, n, e), b) \/ b = c
         /\ \A n \in Names(h) : UsersFields(ds, n) \subseteq UsersFields(new, n)
<1>1. DOMAIN ds = Names(h) BY DEF WellFormed
<1>2. \A n \in Names(h), e \in AllEvents :
        /\ AllUsers(ListAt(new, n, e)) = AllUsers(ListAt(ds, n, e))
        /\ \A y : ListHas(ListAt(new, n, e), y)
                    => \/ ListHas(ListAt(ds, n, e), y)
                       \/ n \in Written(h, ds) /\ e \in Events(h) /\ y = Handler(c, e)
        /\ \A b : RunsAt(ListAt(new, n, e), b) => RunsAt(ListAt(ds, n, e), b) \/ b = c
  BY DEF Changed, FileChanged, Drawn, ListAt
<1>3. InPlaceHas(h, ds) BY InPlaceIff DEF WellFormed
<1>4. \A e : Handler(c, e).script = ScriptOf(e) BY DEF Handler
<1>5. InPlaceHas(h, new)
  BY <1>2, <1>3, <1>4 DEF InPlaceHas, Changed
<1>6. WellFormed(h, new) BY <1>5, InPlaceIff DEF WellFormed, Changed, FileChanged
<1>7. \A n \in Names(h), e \in AllEvents : UsersHandlers(new, n, e) = UsersHandlers(ds, n, e)
  BY <1>2 DEF UsersHandlers, AllUsers, UsersOf
<1>8. \A n \in Names(h) : UsersFields(ds, n) \subseteq UsersFields(new, n)
  BY DEF Changed, FileChanged, UsersFields, Plain
<1> QED BY <1>1, <1>2, <1>6, <1>7, <1>8

-----------------------------------------------------------------------------
(* The two kinds of removals, as the plugins state them.                   *)
Three == {"exact", "moved", "legacy"}
Shapes == {"exact", "star", "own"}

FlatWay(forms) ==
  [grouped |-> FALSE, forms |-> forms, shapes |-> Shapes, drop |-> Shapes, hit |-> FALSE]
GroupWay(forms, shapes, drop, hit) ==
  [grouped |-> TRUE, forms |-> forms, shapes |-> shapes, drop |-> drop, hit |-> hit]

(* The way of a plugin that lists handlers.                                *)
LEMMA FlatIsWay ==
  ASSUME NEW forms \in SUBSET Forms, "exact" \in forms
  PROVE  /\ IsWay(FlatWay(forms)) /\ Kind(FlatWay(forms)) = Listed
         /\ ~FlatWay(forms).grouped /\ FlatWay(forms).forms = forms
         /\ \A a, e : Item(a, e, FlatWay(forms)) = Handler(a, e)
BY DEF FlatWay, IsWay, Ways, Kind, Shapes, Item

(* The way of a plugin that lists groups.                                  *)
LEMMA GroupIsWay ==
  ASSUME NEW forms \in SUBSET Forms, "exact" \in forms, NEW shapes \in SUBSET Shapes,
         "exact" \in shapes, NEW drop \in SUBSET Shapes, "exact" \in drop, NEW hit \in BOOLEAN
  PROVE  /\ IsWay(GroupWay(forms, shapes, drop, hit))
         /\ Kind(GroupWay(forms, shapes, drop, hit)) = Grouped
         /\ GroupWay(forms, shapes, drop, hit).grouped
         /\ GroupWay(forms, shapes, drop, hit).forms = forms
         /\ GroupWay(forms, shapes, drop, hit).shapes = shapes
         /\ GroupWay(forms, shapes, drop, hit).drop = drop
         /\ GroupWay(forms, shapes, drop, hit).hit = hit
         /\ \A a, e : Item(a, e, GroupWay(forms, shapes, drop, hit)) = Group(a, e)
BY DEF GroupWay, IsWay, Ways, Kind, Shapes, Item

\* The handlers that do not match, in order.
Unmatched(hs, e, ids, forms) == Pick(hs, {i \in DOMAIN hs : ~Refers(hs[i], e, ids, forms)})

(* The handlers that do not match are those a removal leaves.              *)
LEMMA UnmatchedSift ==
  ASSUME NEW hs \in Seq(Listed), NEW e, NEW ids, NEW w
  PROVE  Unmatched(hs, e, ids, w.forms) = Sift(hs, Same, Rest(e, ids, w))
<1>1. \A i \in DOMAIN hs : hs[i] \in Listed /\ Same[hs[i]] = hs[i] BY SameType
<1>2. [i \in DOMAIN hs |-> Same[hs[i]]] = hs BY <1>1
<1>3. {i \in DOMAIN hs : hs[i] \in Rest(e, ids, w)}
        = {i \in DOMAIN hs : ~Refers(hs[i], e, ids, w.forms)}
  BY <1>1 DEF Rest
<1> QED BY <1>2, <1>3 DEF Unmatched, Sift

(* A removal from a list of handlers.                                      *)
LEMMA FlatClean ==
  ASSUME NEW w, ~w.grouped, NEW l \in Seq(Listed), NEW e, NEW ids
  PROVE  Clean(l, e, ids, w) = Unmatched(l, e, ids, w.forms)
BY UnmatchedSift DEF Clean, Leave, Stays

FlatRemoval(H, es, ids, forms) ==
  PutOrDrop(H, [e \in es |-> Unmatched(At(H, e), e, ids, forms)])

FlatAddition(N, es, a) == Over([e \in es |-> Append(At(N, e), Handler(a, e))], N)

(* The removal of a plugin that lists handlers, at all events.             *)
LEMMA FlatPurged ==
  ASSUME NEW forms \in SUBSET Forms, "exact" \in forms, NEW H, IsHooks(H, FlatWay(forms)),
         NEW es \in SUBSET AllEvents, NEW ids
  PROVE  Purged(FlatRemoval(H, es, ids, forms), H, es, ids, FlatWay(forms))
<1> DEFINE w == FlatWay(forms)
           lists == [e \in es |-> Unmatched(At(H, e), e, ids, forms)]
<1>1. IsWay(w) /\ ~w.grouped /\ w.forms = forms /\ Kind(w) = Listed BY FlatIsWay
<1> HIDE DEF w
<1>2. \A e : At(H, e) \in Seq(Listed) BY <1>1, AtType DEF w
<1>3. \A e : Clean(At(H, e), e, ids, w) = Unmatched(At(H, e), e, ids, forms)
  BY <1>1, <1>2, FlatClean
<1>4. /\ DOMAIN lists = es /\ lists = [e \in DOMAIN lists |-> lists[e]]
      /\ \A e \in es : lists[e] = Clean(At(H, e), e, ids, w)
  BY <1>3
<1> HIDE DEF lists
<1>5. IsHooks(H, w) BY DEF w
<1>6. Purged(PutOrDrop(H, lists), H, es, ids, w) BY <1>1, <1>4, <1>5, PutOrDropPurged
<1> QED BY <1>6 DEF w, lists, FlatRemoval

(* Its installation.                                                       *)
LEMMA FlatRenewed ==
  ASSUME NEW forms \in SUBSET Forms, "exact" \in forms, NEW H, IsHooks(H, FlatWay(forms)),
         NEW es \in SUBSET AllEvents, NEW a
  PROVE  FlatAddition(FlatRemoval(H, es, Agents, forms), es, a)
           = Renewed(H, es, a, FlatWay(forms))
<1> DEFINE w == FlatWay(forms)
           N == FlatRemoval(H, es, Agents, forms)
<1>1. IsWay(w) /\ IsHooks(H, w) /\ \A e : Item(a, e, w) = Handler(a, e) BY FlatIsWay
<1>2. Purged(N, H, es, Agents, w) BY FlatPurged
<1> HIDE DEF w, N
<1>3. Over([e \in es |-> Append(At(N, e), Item(a, e, w))], N) = Renewed(H, es, a, w)
  BY <1>1, <1>2, AppendRenewed
<1>4. [e \in es |-> Append(At(N, e), Item(a, e, w))] = [e \in es |-> Append(At(N, e), Handler(a, e))]
  BY <1>1
<1> QED BY <1>3, <1>4 DEF FlatAddition, w, N

(* After an installation, its handler is the only one of its kind.         *)
LEMMA FlatFound ==
  ASSUME NEW forms \in SUBSET Forms, "exact" \in forms, NEW H, IsHooks(H, FlatWay(forms)),
         NEW e, NEW a \in Agents
  PROVE  LET L == Fresh(H, e, a, FlatWay(forms))
         IN  /\ L \in Seq(Listed) /\ Len(L) \in DOMAIN L
             /\ L[Len(L)] = Handler(a, e)
             /\ \A i \in DOMAIN L : \A ids \in SUBSET Agents : \A g \in SUBSET forms :
                  Refers(L[i], e, ids, g) => i = Len(L)
<1> DEFINE w == FlatWay(forms)
           M == Clean(At(H, e), e, Agents, w)
           L == Append(M, Handler(a, e))
<1>1. IsWay(w) /\ Kind(w) = Listed /\ ~w.grouped /\ w.forms = forms
      /\ Item(a, e, w) = Handler(a, e) /\ IsHooks(H, w)
  BY FlatIsWay
<1>2. Handler(a, e) \in Listed BY <1>1, ItemFacts
<1> HIDE DEF w
<1>3. M \in Seq(Listed) BY <1>1, AtType, CleanType
<1>4. \A i \in DOMAIN M : M[i] \in Listed /\ ~Refers(M[i], e, Agents, forms)
  <2> TAKE i \in DOMAIN M
  <2>1. M[i] \in Listed BY <1>3
  <2>2. Has(M[i], M[i])
    <3>1. InElement(M[i]) = <<M[i]>> BY <2>1, ElementKinds
    <3>2. 1 \in DOMAIN <<M[i]>> /\ <<M[i]>>[1] = M[i] OBVIOUS
    <3> QED BY <3>1, <3>2 DEF Has
  <2>3. At(H, e) \in Seq(Kind(w)) BY <1>1, AtType
  <2>4. \A y : Has(M[i], y) /\ Refers(y, e, Agents, w.forms) => w.grouped
    BY <1>1, <2>3, CleanParts
  <2> QED BY <1>1, <2>1, <2>2, <2>4
<1> HIDE DEF M
<1>5. L \in Seq(Listed) /\ Len(L) \in DOMAIN L /\ L[Len(L)] = Handler(a, e)
      /\ \A i \in DOMAIN L : i # Len(L) => i \in DOMAIN M /\ L[i] = M[i]
  BY <1>2, <1>3
<1>6. L = Fresh(H, e, a, w) BY <1>1 DEF Fresh, M
<1> HIDE DEF L
<1>7. \A i \in DOMAIN L : \A ids \in SUBSET Agents : \A g \in SUBSET forms :
        Refers(L[i], e, ids, g) => i = Len(L)
  BY <1>4, <1>5 DEF Refers
<1> QED BY <1>5, <1>6, <1>7 DEF w

(* An own handler of this version matches.                                 *)
LEMMA OwnRefers ==
  ASSUME NEW a, NEW e, NEW ids, NEW g, "exact" \in g
  PROVE  Refers(Handler(a, e), e, ids, g) <=> a \in ids
BY DEF Refers, Handler
\* The groups without the handlers that match.
Emptied(gs, e, ids, forms) ==
  [i \in DOMAIN gs |-> [gs[i] EXCEPT !.hooks = Unmatched(@, e, ids, forms)]]

GroupRemoval(gs, e, ids, forms, drop) ==
  LET rest == Emptied(gs, e, ids, forms)
  IN  Pick(rest, {i \in DOMAIN rest : ~(rest[i].hooks = <<>> /\ rest[i].shape \in drop)})

HitRemoval(gs, e, ids, forms, drop) ==
  LET rest == Emptied(gs, e, ids, forms)
  IN  Pick(rest, {i \in DOMAIN gs : ~(/\ rest[i].hooks = <<>>
                                      /\ gs[i].hooks # <<>>
                                      /\ gs[i].shape \in drop)})

\* ... and only in the groups of some shapes.
ShapeRemoval(gs, e, ids, forms, shapes) ==
  LET rest == [i \in DOMAIN gs |-> IF gs[i].shape \in shapes
                                   THEN [gs[i] EXCEPT !.hooks = Unmatched(@, e, ids, forms)]
                                   ELSE gs[i]]
  IN  Pick(rest, {i \in DOMAIN gs : ~(rest[i].hooks = <<>> /\ gs[i].shape \in shapes)})

EmptiedGroup(g, e, ids, w) ==
  IF g.shape \in w.shapes THEN [g EXCEPT !.hooks = Unmatched(@, e, ids, w.forms)] ELSE g

(* What is left of the groups of a list.                                   *)
LEMMA EmptiedLeave ==
  ASSUME NEW w, IsWay(w), w.grouped, NEW gs \in Seq(Grouped), NEW e, NEW ids,
         NEW i \in DOMAIN gs
  PROVE  /\ Leave(e, ids, w)[gs[i]] = EmptiedGroup(gs[i], e, ids, w)
         /\ Leave(e, ids, w)[gs[i]].shape = gs[i].shape
<1>1. gs[i] \in Grouped /\ gs[i].hooks \in Seq(Listed) BY ElementKinds
<1>2. Unmatched(gs[i].hooks, e, ids, w.forms) = Sift(gs[i].hooks, Same, Rest(e, ids, w))
  BY <1>1, UnmatchedSift
<1>3. Leave(e, ids, w)[gs[i]] = IF gs[i].shape \in w.shapes
        THEN [gs[i] EXCEPT !.hooks = Sift(@, Same, Rest(e, ids, w))] ELSE gs[i]
  BY <1>1 DEF Leave
<1>5. Leave(e, ids, w)[gs[i]].shape = gs[i].shape BY <1>1, LeaveGroup
<1> HIDE DEF Unmatched
<1> QED BY <1>2, <1>3, <1>5 DEF EmptiedGroup

(* A removal from groups, as Strip does it.                                *)
LEMMA GroupClean ==
  ASSUME NEW w, IsWay(w), w.grouped, w.shapes = Shapes, w.hit = FALSE,
         NEW gs \in Seq(Grouped), NEW e, NEW ids
  PROVE  Clean(gs, e, ids, w) = GroupRemoval(gs, e, ids, w.forms, w.drop)
<1> DEFINE f == Leave(e, ids, w)
           rest == Emptied(gs, e, ids, w.forms)
<1>1. \A i \in DOMAIN gs : gs[i] \in Grouped /\ gs[i].shape \in Shapes
  BY ElementKinds DEF Shapes
<1>2. \A i \in DOMAIN gs : f[gs[i]] = EmptiedGroup(gs[i], e, ids, w)
  BY EmptiedLeave
<1>3. \A i \in DOMAIN gs : f[gs[i]].shape = gs[i].shape BY EmptiedLeave
<1>4. \A i \in DOMAIN gs : gs[i] \in Stays(e, ids, w)
                             <=> ~(f[gs[i]].hooks = <<>> /\ gs[i].shape \in w.drop)
  BY <1>1 DEF Stays
<1>5. rest = [i \in DOMAIN gs |-> f[gs[i]]] BY <1>1, <1>2 DEF Emptied, EmptiedGroup
<1> HIDE DEF f, rest
<1>6. {i \in DOMAIN gs : gs[i] \in Stays(e, ids, w)}
        = {i \in DOMAIN rest : ~(rest[i].hooks = <<>> /\ rest[i].shape \in w.drop)}
  BY <1>3, <1>4, <1>5
<1> QED BY <1>5, <1>6 DEF Clean, Sift, GroupRemoval, f, rest

(* A removal from groups, as StripHit does it.                             *)
LEMMA HitClean ==
  ASSUME NEW w, IsWay(w), w.grouped, w.shapes = Shapes, w.hit = TRUE,
         NEW gs \in Seq(Grouped), NEW e, NEW ids
  PROVE  Clean(gs, e, ids, w) = HitRemoval(gs, e, ids, w.forms, w.drop)
<1> DEFINE f == Leave(e, ids, w)
           rest == Emptied(gs, e, ids, w.forms)
<1>1. \A i \in DOMAIN gs : gs[i] \in Grouped /\ gs[i].shape \in Shapes
  BY ElementKinds DEF Shapes
<1>2. \A i \in DOMAIN gs : f[gs[i]] = EmptiedGroup(gs[i], e, ids, w)
  BY EmptiedLeave
<1>4. \A i \in DOMAIN gs : gs[i] \in Stays(e, ids, w)
         <=> ~(f[gs[i]].hooks = <<>> /\ gs[i].hooks # <<>> /\ gs[i].shape \in w.drop)
  BY <1>1 DEF Stays
<1>5. rest = [i \in DOMAIN gs |-> f[gs[i]]] BY <1>1, <1>2 DEF Emptied, EmptiedGroup
<1> HIDE DEF f, rest
<1>6. {i \in DOMAIN gs : gs[i] \in Stays(e, ids, w)}
        = {i \in DOMAIN gs : ~(/\ rest[i].hooks = <<>> /\ gs[i].hooks # <<>>
                               /\ gs[i].shape \in w.drop)}
  BY <1>4, <1>5
<1> QED BY <1>5, <1>6 DEF Clean, Sift, HitRemoval, f, rest

(* A removal from the groups of some shapes.                               *)
LEMMA ShapeClean ==
  ASSUME NEW w, IsWay(w), w.grouped, w.drop = w.shapes, w.hit = FALSE,
         NEW gs \in Seq(Grouped), NEW e, NEW ids
  PROVE  Clean(gs, e, ids, w) = ShapeRemoval(gs, e, ids, w.forms, w.shapes)
<1> DEFINE f == Leave(e, ids, w)
           rest == [i \in DOMAIN gs |-> IF gs[i].shape \in w.shapes
                        THEN [gs[i] EXCEPT !.hooks = Unmatched(@, e, ids, w.forms)] ELSE gs[i]]
<1>1. \A i \in DOMAIN gs : gs[i] \in Grouped BY ElementKinds
<1>2. \A i \in DOMAIN gs : f[gs[i]] = EmptiedGroup(gs[i], e, ids, w)
  BY EmptiedLeave
<1>4. \A i \in DOMAIN gs : gs[i] \in Stays(e, ids, w)
                             <=> ~(f[gs[i]].hooks = <<>> /\ gs[i].shape \in w.shapes)
  BY <1>1 DEF Stays
<1>5. rest = [i \in DOMAIN gs |-> f[gs[i]]] BY <1>2 DEF EmptiedGroup
<1> HIDE DEF f, rest
<1>6. {i \in DOMAIN gs : gs[i] \in Stays(e, ids, w)}
        = {i \in DOMAIN gs : ~(rest[i].hooks = <<>> /\ gs[i].shape \in w.shapes)}
  BY <1>4, <1>5
<1> QED BY <1>5, <1>6 DEF Clean, Sift, ShapeRemoval, f, rest
\* The removals from a document: at all events, or where there is a match.
GroupsRemoval(H, es, ids, forms, drop) ==
  PutOrDrop(H, [e \in es |-> GroupRemoval(At(H, e), e, ids, forms, drop)])

ShapesRemoval(H, es, ids, forms, shapes) ==
  PutOrDrop(H, [e \in es |-> ShapeRemoval(At(H, e), e, ids, forms, shapes)])

Hits(H, es, ids, forms, drop) ==
  {e \in es \cap DOMAIN H : HitRemoval(H[e], e, ids, forms, drop) # H[e]}
HitsRemoval(H, es, ids, forms, drop) ==
  PutOrDrop(H, [e \in Hits(H, es, ids, forms, drop) |-> HitRemoval(H[e], e, ids, forms, drop)])

Matched(H, es, ids, forms) ==
  {e \in es \cap DOMAIN H : \E i \in DOMAIN H[e] :
      \E j \in DOMAIN H[e][i].hooks : Refers(H[e][i].hooks[j], e, ids, forms)}
MatchedRemoval(H, es, ids, forms, drop) ==
  PutOrDrop(H, [e \in Matched(H, es, ids, forms) |-> GroupRemoval(H[e], e, ids, forms, drop)])

GroupAddition(N, es, a) == Over([e \in es |-> Append(At(N, e), Group(a, e))], N)

(* The removal of a plugin that lists groups, at all events.               *)
LEMMA GroupsPurged ==
  ASSUME NEW w, IsWay(w), w.grouped, w.shapes = Shapes, w.hit = FALSE,
         NEW H, IsHooks(H, w), NEW es \in SUBSET AllEvents, NEW ids
  PROVE  Purged(GroupsRemoval(H, es, ids, w.forms, w.drop), H, es, ids, w)
<1> DEFINE lists == [e \in es |-> GroupRemoval(At(H, e), e, ids, w.forms, w.drop)]
<1>1. \A e : At(H, e) \in Seq(Grouped) BY AtType DEF Kind
<1>2. \A e : Clean(At(H, e), e, ids, w) = GroupRemoval(At(H, e), e, ids, w.forms, w.drop)
  BY <1>1, GroupClean
<1>3. /\ DOMAIN lists = es /\ lists = [e \in DOMAIN lists |-> lists[e]]
      /\ \A e \in es : lists[e] = Clean(At(H, e), e, ids, w)
  BY <1>2
<1> HIDE DEF lists
<1>4. Purged(PutOrDrop(H, lists), H, es, ids, w) BY <1>3, PutOrDropPurged
<1> QED BY <1>4 DEF lists, GroupsRemoval

(* The same, from the groups of some shapes.                               *)
LEMMA ShapesPurged ==
  ASSUME NEW w, IsWay(w), w.grouped, w.drop = w.shapes, w.hit = FALSE,
         NEW H, IsHooks(H, w), NEW es \in SUBSET AllEvents, NEW ids
  PROVE  Purged(ShapesRemoval(H, es, ids, w.forms, w.shapes), H, es, ids, w)
<1> DEFINE lists == [e \in es |-> ShapeRemoval(At(H, e), e, ids, w.forms, w.shapes)]
<1>1. \A e : At(H, e) \in Seq(Grouped) BY AtType DEF Kind
<1>2. \A e : Clean(At(H, e), e, ids, w) = ShapeRemoval(At(H, e), e, ids, w.forms, w.shapes)
  BY <1>1, ShapeClean
<1>3. /\ DOMAIN lists = es /\ lists = [e \in DOMAIN lists |-> lists[e]]
      /\ \A e \in es : lists[e] = Clean(At(H, e), e, ids, w)
  BY <1>2
<1> HIDE DEF lists
<1>4. Purged(PutOrDrop(H, lists), H, es, ids, w) BY <1>3, PutOrDropPurged
<1> QED BY <1>4 DEF lists, ShapesRemoval

(* Where a removal changes nothing it need not be written.                 *)
LEMMA HitsPurged ==
  ASSUME NEW w, IsWay(w), w.grouped, w.shapes = Shapes, w.hit = TRUE,
         NEW H, IsHooks(H, w), NEW es \in SUBSET AllEvents, NEW ids
  PROVE  Purged(HitsRemoval(H, es, ids, w.forms, w.drop), H, es, ids, w)
<1> DEFINE hs == Hits(H, es, ids, w.forms, w.drop)
           lists == [e \in hs |-> HitRemoval(H[e], e, ids, w.forms, w.drop)]
<1>1. \A e : At(H, e) \in Seq(Grouped) BY AtType DEF Kind
<1>2. \A e : Clean(At(H, e), e, ids, w) = HitRemoval(At(H, e), e, ids, w.forms, w.drop)
  BY <1>1, HitClean
<1>3. hs \subseteq es /\ \A e \in hs : At(H, e) = H[e] BY DEF Hits, At
<1>4. \A e \in es : e \notin hs => Clean(At(H, e), e, ids, w) = At(H, e)
  <2> SUFFICES ASSUME NEW e \in es, e \notin hs PROVE Clean(At(H, e), e, ids, w) = At(H, e)
    OBVIOUS
  <2>1. CASE e \in DOMAIN H BY <2>1, <1>2 DEF Hits, At
  <2>2. CASE e \notin DOMAIN H
    <3>1. At(H, e) = <<>> BY <2>2 DEF At
    <3> QED BY <3>1, CleanEmpty
  <2> QED BY <2>1, <2>2
<1>5. DOMAIN lists = hs /\ lists = [e \in DOMAIN lists |-> lists[e]] OBVIOUS
<1>6. \A e \in hs : lists[e] = Clean(At(H, e), e, ids, w) BY <1>2, <1>3
<1> HIDE DEF lists, hs
<1>7. Purged(PutOrDrop(H, lists), H, es, ids, w) BY <1>3, <1>4, <1>5, <1>6, PutOrDropPurged
<1> QED BY <1>7 DEF lists, hs, HitsRemoval

(* ... and where no handler matches, if no group was empty before.         *)
LEMMA MatchedPurged ==
  ASSUME NEW w, IsWay(w), w.grouped, w.shapes = Shapes, w.hit = FALSE,
         NEW H, IsHooks(H, w), NEW es \in SUBSET AllEvents, NEW ids,
         \A e \in DOMAIN H : \A i \in DOMAIN H[e] :
            H[e][i].shape \in w.drop => H[e][i].hooks # <<>>
  PROVE  Purged(MatchedRemoval(H, es, ids, w.forms, w.drop), H, es, ids, w)
<1> DEFINE hs == Matched(H, es, ids, w.forms)
           lists == [e \in hs |-> GroupRemoval(H[e], e, ids, w.forms, w.drop)]
<1>1. \A e : At(H, e) \in Seq(Grouped) BY AtType DEF Kind
<1>2. \A e : Clean(At(H, e), e, ids, w) = GroupRemoval(At(H, e), e, ids, w.forms, w.drop)
  BY <1>1, GroupClean
<1>3. hs \subseteq es /\ \A e \in hs : At(H, e) = H[e] BY DEF Matched, At
<1>4. \A e \in es : e \notin hs => Clean(At(H, e), e, ids, w) = At(H, e)
  <2> SUFFICES ASSUME NEW e \in es, e \notin hs PROVE Clean(At(H, e), e, ids, w) = At(H, e)
    OBVIOUS
  <2>1. CASE e \in DOMAIN H
    <3> DEFINE l == H[e]
               f == Leave(e, ids, w)
               K == Stays(e, ids, w)
    <3>1. At(H, e) = l /\ l \in Seq(Grouped) BY <2>1, <1>1 DEF At
    <3>2. \A i \in DOMAIN l : /\ l[i] \in Grouped /\ l[i].hooks \in Seq(Listed)
                              /\ l[i].shape \in Shapes
      BY <3>1, ElementKinds DEF Shapes
    <3>3. \A i \in DOMAIN l : \A j \in DOMAIN l[i].hooks :
            ~Refers(l[i].hooks[j], e, ids, w.forms)
      BY <2>1 DEF Matched
    <3>4. \A i \in DOMAIN l : l[i].shape \in w.drop => l[i].hooks # <<>> BY <2>1
    <3> HIDE DEF l
    <3>5. \A i \in DOMAIN l : Sift(l[i].hooks, Same, Rest(e, ids, w)) = l[i].hooks
      <4> TAKE i \in DOMAIN l
      <4>1. \A j \in DOMAIN l[i].hooks : /\ l[i].hooks[j] \in Rest(e, ids, w)
                                         /\ Same[l[i].hooks[j]] = l[i].hooks[j]
        BY <3>2, <3>3, SameType DEF Rest
      <4> QED BY <4>1, <3>2, SiftSame
    <3>6. \A i \in DOMAIN l : f[l[i]] = l[i]
      <4> TAKE i \in DOMAIN l
      <4>1. /\ f[l[i]] \in Grouped /\ f[l[i]].shape = l[i].shape
            /\ f[l[i]].hooks = IF l[i].shape \in w.shapes
                               THEN Sift(l[i].hooks, Same, Rest(e, ids, w)) ELSE l[i].hooks
        BY <3>2, LeaveGroup
      <4>2. f[l[i]].hooks = l[i].hooks BY <4>1, <3>5
      <4> HIDE DEF f
      <4> QED BY <4>1, <4>2, <3>2, GroupRecord
    <3>7. \A i \in DOMAIN l : l[i] \in K BY <3>2, <3>4, <3>6 DEF Stays
    <3> HIDE DEF f, K
    <3>8. Sift(l, f, K) = l BY <3>1, <3>6, <3>7, SiftSame
    <3> QED BY <3>1, <3>8 DEF Clean, f, K
  <2>2. CASE e \notin DOMAIN H
    <3>1. At(H, e) = <<>> BY <2>2 DEF At
    <3> QED BY <3>1, CleanEmpty
  <2> QED BY <2>1, <2>2
<1>5. DOMAIN lists = hs /\ lists = [e \in DOMAIN lists |-> lists[e]] OBVIOUS
<1>6. \A e \in hs : lists[e] = Clean(At(H, e), e, ids, w) BY <1>2, <1>3
<1> HIDE DEF lists, hs
<1>7. Purged(PutOrDrop(H, lists), H, es, ids, w) BY <1>3, <1>4, <1>5, <1>6, PutOrDropPurged
<1> QED BY <1>7 DEF lists, hs, MatchedRemoval

(* Its installation.                                                       *)
LEMMA GroupRenewed ==
  ASSUME NEW w, IsWay(w), w.grouped, NEW H, IsHooks(H, w), NEW es \in SUBSET AllEvents,
         NEW a, NEW N, Purged(N, H, es, Agents, w)
  PROVE  GroupAddition(N, es, a) = Renewed(H, es, a, w)
<1>1. \A e : Item(a, e, w) = Group(a, e) BY DEF Item
<1>2. Over([e \in es |-> Append(At(N, e), Item(a, e, w))], N) = Renewed(H, es, a, w)
  BY AppendRenewed
<1>3. [e \in es |-> Append(At(N, e), Item(a, e, w))] = [e \in es |-> Append(At(N, e), Group(a, e))]
  BY <1>1
<1> QED BY <1>2, <1>3 DEF GroupAddition

Found(l, e, ids, forms, shapes) ==
  Matches(l, LAMBDA g : g.shape \in shapes, LAMBDA h : Refers(h, e, ids, forms))

(* After an installation its group is the only one that holds a handler of *)
(* its kind, and holds no other.                                           *)
LEMMA GroupFound ==
  ASSUME NEW w, IsWay(w), w.grouped, NEW H, IsHooks(H, w), NEW e, NEW a \in Agents
  PROVE  LET L == Fresh(H, e, a, w)
         IN  /\ L \in Seq(Grouped) /\ Len(L) \in DOMAIN L /\ L[Len(L)] = Group(a, e)
             /\ \A i \in DOMAIN L : \A j \in DOMAIN L[i].hooks :
                  L[i].shape \in w.shapes /\ Refers(L[i].hooks[j], e, Agents, w.forms)
                    => i = Len(L)
<1> DEFINE M == Clean(At(H, e), e, Agents, w)
           x == Group(a, e)
           L == Append(M, x)
<1>1. Item(a, e, w) = x BY DEF Item
<1>2. x \in Grouped BY <1>1, ItemFacts DEF Kind
<1>3. M \in Seq(Grouped) BY AtType, CleanType DEF Kind
<1>4. \A i \in DOMAIN M : \A j \in DOMAIN M[i].hooks :
         M[i].shape \in w.shapes => ~Refers(M[i].hooks[j], e, Agents, w.forms)
  <2> TAKE i \in DOMAIN M
  <2> TAKE j \in DOMAIN M[i].hooks
  <2>1. M[i] \in Grouped /\ InElement(M[i]) = M[i].hooks
    <3>1. M[i] \in Grouped
      <4> HIDE DEF M
      <4> QED BY <1>3
    <3> QED BY <3>1, ElementKinds
  <2>2. Has(M[i], M[i].hooks[j]) BY <2>1 DEF Has
  <2>3. At(H, e) \in Seq(Kind(w)) BY AtType
  <2>4. \A y : Has(M[i], y) /\ Refers(y, e, Agents, w.forms) => M[i].shape \notin w.shapes
    BY <2>3, CleanParts
  <2> QED BY <2>2, <2>4
<1> HIDE DEF M, x
<1>5. L \in Seq(Grouped) /\ Len(L) \in DOMAIN L /\ L[Len(L)] = x
      /\ \A i \in DOMAIN L : i # Len(L) => i \in DOMAIN M /\ L[i] = M[i]
  BY <1>2, <1>3
<1>6. L = Fresh(H, e, a, w) BY <1>1 DEF Fresh, M
<1> HIDE DEF L
<1>7. \A i \in DOMAIN L : \A j \in DOMAIN L[i].hooks :
         L[i].shape \in w.shapes /\ Refers(L[i].hooks[j], e, Agents, w.forms) => i = Len(L)
  BY <1>4, <1>5
<1> QED BY <1>5, <1>6, <1>7 DEF x

(* The one group of an agent after an installation.                        *)
LEMMA GroupOne ==
  ASSUME NEW w, IsWay(w), w.grouped, NEW H, IsHooks(H, w), NEW e, NEW a \in Agents,
         NEW b \in Agents, NEW forms \in SUBSET w.forms, "exact" \in forms,
         NEW shapes \in SUBSET w.shapes, "exact" \in shapes
  PROVE  Found(Fresh(H, e, a, w), e, {b}, forms, shapes)
           = IF b = a THEN {<<Len(Fresh(H, e, a, w)), 1>>} ELSE {}
<1> DEFINE L == Fresh(H, e, a, w)
<1>1. /\ L \in Seq(Grouped) /\ Len(L) \in DOMAIN L /\ L[Len(L)] = Group(a, e)
      /\ \A i \in DOMAIN L : \A j \in DOMAIN L[i].hooks :
           L[i].shape \in w.shapes /\ Refers(L[i].hooks[j], e, Agents, w.forms)
             => i = Len(L)
  BY GroupFound
<1> HIDE DEF L
<1>2. /\ Group(a, e).shape = "exact" /\ DOMAIN Group(a, e).hooks = {1}
      /\ Group(a, e).hooks[1] = Handler(a, e)
  BY DEF Group
<1>3. Refers(Handler(a, e), e, {b}, forms) <=> b = a BY OwnRefers
<1>4. \A h : Refers(h, e, {b}, forms) => Refers(h, e, Agents, w.forms) BY DEF Refers
<1>5. \A i \in DOMAIN L : \A j \in DOMAIN L[i].hooks :
         (L[i].shape \in shapes /\ Refers(L[i].hooks[j], e, {b}, forms))
            <=> (i = Len(L) /\ j = 1 /\ b = a)
  BY <1>1, <1>2, <1>3, <1>4
<1>6. Found(L, e, {b}, forms, shapes)
        = UNION {{<<i, j>> : j \in {k \in DOMAIN L[i].hooks : Refers(L[i].hooks[k], e, {b}, forms)}} :
                   i \in {k \in DOMAIN L : L[k].shape \in shapes}}
  BY DEF Found, Matches
<1> DEFINE F == Found(L, e, {b}, forms, shapes)
           I == {k \in DOMAIN L : L[k].shape \in shapes}
           J(i) == {k \in DOMAIN L[i].hooks : Refers(L[i].hooks[k], e, {b}, forms)}
           S(i) == {<<i, j>> : j \in J(i)}
<1>7. \A p : p \in F <=> \E i \in I : \E j \in J(i) : p = <<i, j>>
  <2>1. F = UNION {S(i) : i \in I} BY <1>6
  <2>2. \A i, p : p \in S(i) <=> \E j \in J(i) : p = <<i, j>> BY Zenon
  <2> HIDE DEF F, S
  <2>3. \A p : p \in F <=> \E i \in I : p \in S(i) BY <2>1, Zenon
  <2> QED BY <2>2, <2>3, ZenonT(40)
<1>10. \A i, j : (i \in I /\ j \in J(i)) <=> (i = Len(L) /\ j = 1 /\ b = a)
  <2>1. 1 \in DOMAIN L[Len(L)].hooks BY <1>1, <1>2
  <2>2. \A i \in DOMAIN L : \A j \in DOMAIN L[i].hooks :
          (i \in I /\ j \in J(i)) <=> (L[i].shape \in shapes /\ Refers(L[i].hooks[j], e, {b}, forms))
    OBVIOUS
  <2> HIDE DEF F
  <2> QED BY <1>1, <1>5, <2>1, <2>2, ZenonT(40)
<1> HIDE DEF I, J
<1>8. \A p : p \in Found(L, e, {b}, forms, shapes) <=> (b = a /\ p = <<Len(L), 1>>)
  <2> HIDE DEF F
  <2> TAKE p
  <2>1. ASSUME p \in F PROVE b = a /\ p = <<Len(L), 1>>
    <3>1. PICK i \in I : \E j \in J(i) : p = <<i, j>> BY <2>1, <1>7
    <3>2. PICK j \in J(i) : p = <<i, j>> BY <3>1
    <3>3. i = Len(L) /\ j = 1 /\ b = a BY <1>10
    <3> QED BY <3>2, <3>3
  <2>2. ASSUME b = a, p = <<Len(L), 1>> PROVE p \in F BY <2>2, <1>7, <1>10
  <2> QED BY <2>1, <2>2 DEF F
<1>9. Found(L, e, {b}, forms, shapes) = IF b = a THEN {<<Len(L), 1>>} ELSE {} BY <1>8
<1> QED BY <1>9 DEF L

-----------------------------------------------------------------------------
(* Files.                                                                  *)
Triple == {"pre", "post", "fail"}
Pair == {"pre", "post"}

(* A file that is left alone is an allowed file.                           *)
LEMMA FileSame ==
  ASSUME NEW h, NEW ds, WellFormed(h, ds), NEW n \in Names(h), NEW es, NEW c
  PROVE  FileChanged(h, n, ds[n], ds[n], es, c)
<1>1. ds[n] # NoFile => IsDocument(ds[n], Elements(h)) /\ Contained(h, n, ds[n])
  BY DEF WellFormed
<1>2. Drawn(OrNew(ds[n]).hooks, OrNew(ds[n]).hooks, es, c) BY SameDrawn
<1> QED BY <1>1, <1>2 DEF FileChanged

(* What does not stand in a file that is not there.                        *)
LEMMA NothingRuns ==
  ASSUME NEW e, NEW b
  PROVE  ~RunsAt(At(OrNew(NoFile).hooks, e), b)
<1>1. OrNew(NoFile).hooks = <<>> BY DEF OrNew, NewDocument, Document
<1>2. At(<<>>, e) = <<>> BY NewHooks
<1>3. DOMAIN <<>> = {} OBVIOUS
<1> QED BY <1>1, <1>2, <1>3 DEF RunsAt

(* What a removal left does not run its agent's scripts.                   *)
LEMMA LeftRuns ==
  ASSUME NEW h, NEW ds, WellFormed(h, ds), NEW n \in Names(h), NEW w, IsWay(w),
         Kind(w) = Elements(h), NEW ids \in SUBSET Agents, NEW N,
         Purged(N, OrNew(ds[n]).hooks, Events(h), ids, w), NEW e \in AllEvents, NEW b \in ids
  PROVE  ~RunsAt(At(N, e), b)
<1> DEFINE H == OrNew(ds[n]).hooks
<1>1. ds[n] # NoFile => IsDocument(ds[n], Kind(w)) BY DEF WellFormed
<1>2. IsHooks(H, w) BY <1>1, OrNewParts
<1>3. InPlaceHas(h, ds) BY InPlaceIff DEF WellFormed
<1>4. \A f \in AllEvents : \A y : ListHas(At(H, f), y) /\ y.owner \in Agents /\ y.form = "exact"
                                     => f \in Events(h) /\ y.script = ScriptOf(f)
  BY <1>3 DEF InPlaceHas, ListAt
<1> HIDE DEF H
<1>5. Purged(N, H, Events(h), ids, w) BY DEF H
<1>6. \A f \in AllEvents, c \in ids : ~RunsAt(At(N, f), c)
  BY <1>2, <1>4, <1>5, PurgedRuns
<1> QED BY <1>6

(* No agent's script runs from a file that the plugin does not write.      *)
LEMMA ElsewhereRuns ==
  ASSUME NEW h, NEW ds, WellFormed(h, ds), NEW n \in Names(h), n \notin Written(h, ds),
         NEW e \in AllEvents, NEW b \in Agents
  PROVE  ~RunsAt(ListAt(ds, n, e), b)
<1> SUFFICES ASSUME RunsAt(ListAt(ds, n, e), b) PROVE FALSE OBVIOUS
<1> DEFINE H == OrNew(ds[n]).hooks
           w == IF Elements(h) = Listed THEN FlatWay(Three) ELSE GroupWay(Three, Shapes, Shapes, FALSE)
<1>0. Elements(h) = Listed \/ Elements(h) = Grouped BY DEF Elements
<1>1. Kind(w) = Elements(h) BY <1>0 DEF Kind, FlatWay, GroupWay
<1>2. ds[n] # NoFile => IsDocument(ds[n], Kind(w)) BY <1>1 DEF WellFormed
<1> HIDE DEF w
<1>3. IsHooks(H, w) BY <1>2, OrNewParts
<1>4. At(H, e) \in Seq(Kind(w)) BY <1>3, AtType
<1>5. PICK i \in DOMAIN At(H, e) : Runs(At(H, e)[i], b) BY DEF RunsAt, ListAt
<1>6. At(H, e)[i] \in Kind(w) BY <1>4, <1>5
<1>7. PICK y : Has(At(H, e)[i], y) /\ y.owner = b /\ y.form = "exact" BY <1>5, <1>6, RunsHas
<1>8. ListHas(ListAt(ds, n, e), y) BY <1>5, <1>7 DEF ListHas, ListAt
<1>9. InPlaceHas(h, ds) BY InPlaceIff DEF WellFormed
<1> QED BY <1>7, <1>8, <1>9 DEF InPlaceHas

(* The agents a host finds after an installation.                          *)
SomeIds(H, es, forms) ==
  {b \in Agents : \A e \in es : \E i \in DOMAIN At(H, e) : Refers(At(H, e)[i], e, {b}, forms)}
OneIds(H, es, forms) ==
  {b \in Agents : \A e \in es :
      One({i \in DOMAIN At(H, e) : Refers(At(H, e)[i], e, {b}, forms)})}
OneFound(H, es, forms, shapes) ==
  {b \in Agents : \A e \in es : One(Found(At(H, e), e, {b}, forms, shapes))}
SomeFound(H, es, forms, shapes) ==
  {b \in Agents : \A e \in es : Found(At(H, e), e, {b}, forms, shapes) # {}}

\* a is all that the host finds.
OnlyHandlers(H, es, forms, a) == SomeIds(H, es, forms) = {a} /\ OneIds(H, es, forms) = {a}
OnlyGroups(H, es, forms, shapes, a) ==
  OneFound(H, es, forms, shapes) = {a} /\ SomeFound(H, es, forms, shapes) = {a}

(* After an installation its agent is the only one in a list of handlers.  *)
LEMMA FlatIds ==
  ASSUME NEW forms \in SUBSET Forms, "exact" \in forms, NEW H, IsHooks(H, FlatWay(forms)),
         NEW es, es # {}, NEW a \in Agents, NEW N,
         \A e \in es : At(N, e) = Fresh(H, e, a, FlatWay(forms)),
         NEW g \in SUBSET forms, "exact" \in g
  PROVE  OnlyHandlers(N, es, g, a)
<1>1. \A e \in es : /\ Len(At(N, e)) \in DOMAIN At(N, e)
                    /\ At(N, e)[Len(At(N, e))] = Handler(a, e)
                    /\ \A i \in DOMAIN At(N, e) : \A ids \in SUBSET Agents :
                         Refers(At(N, e)[i], e, ids, g) => i = Len(At(N, e))
  BY FlatFound
<1>2. \A e, ids : Refers(Handler(a, e), e, ids, g) <=> a \in ids BY OwnRefers
<1>3. \A e \in es, b \in Agents : \A i \in DOMAIN At(N, e) :
         Refers(At(N, e)[i], e, {b}, g) <=> (i = Len(At(N, e)) /\ b = a)
  BY <1>1, <1>2
<1>4. \A e \in es, b \in Agents : {i \in DOMAIN At(N, e) : Refers(At(N, e)[i], e, {b}, g)}
                                    = IF b = a THEN {Len(At(N, e))} ELSE {}
  BY <1>1, <1>3
<1>5. SomeIds(N, es, g) = {a} BY <1>1, <1>3 DEF SomeIds
<1>6. \A e \in es, b \in Agents :
        One({i \in DOMAIN At(N, e) : Refers(At(N, e)[i], e, {b}, g)}) <=> b = a
  BY <1>4 DEF One
<1>7. OneIds(N, es, g) = {a} BY <1>6 DEF OneIds
<1> QED BY <1>5, <1>7 DEF OnlyHandlers

(* After an installation its agent is the only one in a list of groups.    *)
LEMMA GroupIds ==
  ASSUME NEW w, IsWay(w), w.grouped, NEW H, IsHooks(H, w), NEW es, es # {},
         NEW a \in Agents, NEW N, \A e \in es : At(N, e) = Fresh(H, e, a, w),
         NEW forms \in SUBSET w.forms, "exact" \in forms,
         NEW shapes \in SUBSET w.shapes, "exact" \in shapes
  PROVE  OnlyGroups(N, es, forms, shapes, a)
<1>1. \A e \in es, b \in Agents : Found(At(N, e), e, {b}, forms, shapes)
                                    = IF b = a THEN {<<Len(At(N, e)), 1>>} ELSE {}
  <2> TAKE e \in es, b \in Agents
  <2>1. At(N, e) = Fresh(H, e, a, w) OBVIOUS
  <2>2. Found(Fresh(H, e, a, w), e, {b}, forms, shapes)
          = IF b = a THEN {<<Len(Fresh(H, e, a, w)), 1>>} ELSE {}
    BY GroupOne
  <2> QED BY <2>1, <2>2
<1>2. \A e \in es, b \in Agents : One(Found(At(N, e), e, {b}, forms, shapes)) <=> b = a
  BY <1>1 DEF One
<1>3. \A e \in es, b \in Agents : Found(At(N, e), e, {b}, forms, shapes) # {} <=> b = a
  BY <1>1
<1> QED BY <1>2, <1>3 DEF OneFound, SomeFound, OnlyGroups

-----------------------------------------------------------------------------
(* What a removal of this way looks for.                                   *)

\* A handler of agent b that is looked for stands in the list.
Sought(l, e, b, w) ==
  \E i \in DOMAIN l : /\ w.grouped => l[i].shape \in w.shapes
                     /\ \E y : Has(l[i], y) /\ Refers(y, e, {b}, w.forms)

\* One that is recognised stands in it.
Knows(h, l, e, b) == Some(l, LAMBDA x : Known(h, x, e, b))

\* The plugin looks for all that it recognises.
Looks(h, w) == Recognised(h) \subseteq w.forms /\ (w.grouped => h = "grok" \/ w.shapes = Shapes)

(* What is recognised is what is looked for.                               *)
LEMMA KnownSought ==
  ASSUME NEW h, NEW w, IsWay(w), Looks(h, w), NEW l \in Seq(Kind(w)), NEW e, NEW b,
         Knows(h, l, e, b)
  PROVE  Sought(l, e, b, w)
<1>1. PICK i \in DOMAIN l : Known(h, l[i], e, b) BY DEF Knows, Some
<1> DEFINE x == l[i]
<1>2. x \in Kind(w) OBVIOUS
<1>3. Known(h, x, e, b) BY <1>1
<1> HIDE DEF x
<1>4. PICK k \in DOMAIN InElement(x) : Refers(InElement(x)[k], e, {b}, Recognised(h))
  BY <1>3 DEF Known, Some
<1>5. Has(x, InElement(x)[k]) BY DEF Has
<1>6. Refers(InElement(x)[k], e, {b}, w.forms) BY <1>4 DEF Refers, Looks
<1>7. w.grouped => x.shape \in w.shapes
  <2> HAVE w.grouped
  <2>1. x \in Grouped BY <1>2 DEF Kind
  <2>2. x.shape \in Shapes BY <2>1, ElementKinds DEF Shapes
  <2>3. h = "grok" => x.shape = "exact" BY <1>3 DEF Known
  <2> QED BY <2>2, <2>3 DEF Looks, IsWay
<1> QED BY <1>5, <1>6, <1>7 DEF Sought, x

(* A removal leaves nothing of what it looks for.                          *)
LEMMA CleanSought ==
  ASSUME NEW w, IsWay(w), NEW e, NEW ids \in SUBSET Agents, NEW l \in Seq(Kind(w)), NEW b \in ids
  PROVE  ~Sought(Clean(l, e, ids, w), e, b, w)
<1> DEFINE m == Clean(l, e, ids, w)
<1>1. \A i \in DOMAIN m : \A y : Has(m[i], y) /\ Refers(y, e, ids, w.forms)
                                => w.grouped /\ m[i].shape \notin w.shapes
  BY CleanParts
<1>2. \A y : Refers(y, e, {b}, w.forms) => Refers(y, e, ids, w.forms) BY DEF Refers
<1> HIDE DEF m
<1>3. ~Sought(m, e, b, w) BY <1>1, <1>2 DEF Sought
<1> QED BY <1>3 DEF m

(* An installation leaves nothing of other agents that it looks for.       *)
LEMMA FreshSought ==
  ASSUME NEW w, IsWay(w), NEW H, IsHooks(H, w), NEW e, NEW a \in Agents, NEW b \in Agents \ {a}
  PROVE  ~Sought(Fresh(H, e, a, w), e, b, w)
<1> DEFINE l == At(H, e)
           m == Clean(l, e, Agents, w)
           z == Item(a, e, w)
<1>1. l \in Seq(Kind(w)) BY AtType
<1>2. ~Sought(m, e, b, w) BY <1>1, CleanSought
<1>3. m \in Seq(Kind(w)) BY <1>1, CleanType
<1>4. \A y : Has(z, y) => y = Handler(a, e) BY ItemFacts
<1>5. Handler(a, e).owner = a BY DEF Handler
<1>6. \A y : Has(z, y) => ~Refers(y, e, {b}, w.forms) BY <1>4, <1>5 DEF Refers
<1>7. Fresh(H, e, a, w) = Append(m, z) BY DEF Fresh
<1> HIDE DEF l, m, z
<1>8. \A i \in DOMAIN Append(m, z) :
        \/ i \in DOMAIN m /\ Append(m, z)[i] = m[i]
        \/ Append(m, z)[i] = z
  BY <1>3
<1>9. ~Sought(Append(m, z), e, b, w) BY <1>2, <1>6, <1>8 DEF Sought
<1> QED BY <1>7, <1>9

-----------------------------------------------------------------------------
(* What a plugin does.                                                     *)
Takes(p, a) == p.parses /\ p.enabled /\ p.contracts = {a} /\ "whole" \in p.files

\* The files that are written have no handler of another agent than a.
Sole(h, ds, a) ==
  \A n \in Written(h, ds), e \in Events(h), b \in Agents \ {a} :
    ~Knows(h, ListAt(ds, n, e), e, b)

Installs(h, ds, a) ==
  LET new == PluginOf(h, ds).install[a]
  IN  Changed(h, new, ds, a) /\ Takes(PluginOf(h, new), a) /\ Sole(h, new, a)

Steady(h, ds, a) ==
  LET new == PluginOf(h, ds).install[a]
  IN  PluginOf(h, new).install[a] = new

Uninstalls(h, ds, a) ==
  LET new == PluginOf(h, ds).uninstall[a]
  IN  /\ Changed(h, new, ds, User)
      /\ \A n \in Names(h), e \in AllEvents : ~RunsAt(ListAt(new, n, e), a)

Sound(h) ==
  \A ds : WellFormed(h, ds) => \A a \in Agents :
    /\ PluginOf(h, ds).parses /\ ~PluginOf(h, ds).refused => Installs(h, ds, a)
    /\ PluginOf(h, ds).parses => Steady(h, ds, a)
    /\ PluginOf(h, ds).parses /\ a \notin PluginOf(h, ds).stuck => Uninstalls(h, ds, a)

(* A host with one file.                                                   *)
LEMMA OneFile ==
  ASSUME NEW h, NEW ds, WellFormed(h, ds), Names(h) = {"user"},
         \A x : Written(h, x) = {"user"}, h # "kimi", NEW c, NEW d,
         FileChanged(h, "user", d, ds["user"], Events(h), c)
  PROVE  Changed(h, [user |-> d], ds, c)
<1> DEFINE new == [user |-> d]
<1>1. new["user"] = d /\ new = [n \in {"user"} |-> new[n]] OBVIOUS
<1> HIDE DEF new
<1>2. Changed(h, new, ds, c) BY <1>1 DEF Changed
<1> QED BY <1>2 DEF new
\* An installation of a left d of the file n, with the fields r.
FileInstalled(h, ds, n, w, a, r, d) ==
  /\ FileChanged(h, n, d, ds[n], Events(h), a)
  /\ d # NoFile /\ OrNew(d) = d /\ d.root = r
  /\ IsHooks(OrNew(ds[n]).hooks, w) /\ IsHooks(d.hooks, w)
  /\ DOMAIN d.hooks = Events(h) \cup DOMAIN OrNew(ds[n]).hooks
  /\ \A e \in Events(h) : At(d.hooks, e) = Fresh(OrNew(ds[n]).hooks, e, a, w)
  /\ d.hooks = Renewed(OrNew(ds[n]).hooks, Events(h), a, w)
  /\ Renewed(d.hooks, Events(h), a, w) = d.hooks

(* An installation changes a file as it may, and leaves it this way.       *)
LEMMA FileInstallation ==
  ASSUME NEW h, NEW ds, WellFormed(h, ds), NEW n \in Names(h),
         NEW w, IsWay(w), Kind(w) = Elements(h), Events(h) \in SUBSET AllEvents,
         NEW r \in SUBSET Fields, OrNew(ds[n]).root \ Plain \subseteq r, NEW a \in Agents,
         NEW d, d = Document(r, Renewed(OrNew(ds[n]).hooks, Events(h), a, w)),
         Contained(h, n, d)
  PROVE  FileInstalled(h, ds, n, w, a, r, d)
<1> DEFINE H == OrNew(ds[n]).hooks
           es == Events(h)
           N == Renewed(H, es, a, w)
<1>0. ds[n] # NoFile => IsDocument(ds[n], Kind(w)) BY DEF WellFormed
<1>1. IsHooks(H, w) BY <1>0, OrNewParts
<1>b. es \in SUBSET AllEvents OBVIOUS
<1> HIDE DEF H, es
<1>2. IsHooks(N, w) BY <1>1, <1>b, RenewedFacts
<1>3. DOMAIN N = es \cup DOMAIN H BY DEF Renewed
<1>4. Drawn(N, H, es, a) BY <1>1, <1>b, RenewedDrawn
<1>5. Renewed(N, es, a, w) = N BY <1>1, <1>b, RenewedTwice
<1>a. \A e \in es : At(N, e) = Fresh(H, e, a, w) BY <1>1, <1>b, RenewedFacts
<1> HIDE DEF N
<1>6. d = Document(r, N) BY DEF N, H, es
<1>7. IsDocument(d, Kind(w)) BY <1>2, <1>6, DocumentMade
<1>8. d # NoFile BY <1>2, <1>6, DocumentMade
<1>9. d.root = r /\ d.hooks = N BY <1>2, <1>6, DocumentMade
<1>10. OrNew(d) = d BY <1>8 DEF OrNew
<1>11. FileChanged(h, n, d, ds[n], es, a)
  BY <1>4, <1>7, <1>8, <1>9, <1>10 DEF FileChanged, H
<1> QED
  BY <1>1, <1>2, <1>3, <1>5, <1>8, <1>9, <1>10, <1>11, <1>a DEF N, H, es, FileInstalled

\* A removal of `ids` left d of the file n.
FileLeft(h, ds, n, ids, d, es, c) ==
  /\ FileChanged(h, n, d, ds[n], es, c)
  /\ \A e \in AllEvents, b \in ids : ~RunsAt(At(OrNew(d).hooks, e), b)

(* A removal changes it as it may, and leaves no handler that runs.        *)
LEMMA FileRemoval ==
  ASSUME NEW h, NEW ds, WellFormed(h, ds), NEW n \in Names(h),
         NEW w, IsWay(w), Kind(w) = Elements(h),
         NEW r \in SUBSET Fields, OrNew(ds[n]).root \ Plain \subseteq r,
         NEW ids \in SUBSET Agents,
         NEW N, Purged(N, OrNew(ds[n]).hooks, Events(h), ids, w), NEW d,
         \/ d = Document(r, N) /\ Contained(h, n, d)
         \/ d = NoFile /\ DOMAIN N = {} /\ OrNew(ds[n]).root \subseteq Plain,
         NEW es, NEW c
  PROVE  FileLeft(h, ds, n, ids, d, es, c)
<1> DEFINE H == OrNew(ds[n]).hooks
<1>0. ds[n] # NoFile => IsDocument(ds[n], Kind(w)) BY DEF WellFormed
<1>1. IsHooks(H, w) BY <1>0, OrNewParts
<1>2. \A e \in AllEvents, b \in ids : ~RunsAt(At(N, e), b) BY LeftRuns
<1>3. IsHooks(N, w) BY DEF Purged
<1>4. Purged(N, H, Events(h), ids, w) OBVIOUS
<1> HIDE DEF H
<1>5. Drawn(N, H, es, c) BY <1>1, <1>4, PurgedDrawn
<1>6. CASE d = Document(r, N) /\ Contained(h, n, d)
  <2>1. d # NoFile /\ IsDocument(d, Kind(w)) BY <1>3, <1>6, DocumentMade
  <2>2. d.root = r /\ d.hooks = N BY <1>3, <1>6, DocumentMade
  <2>3. OrNew(d) = d BY <2>1 DEF OrNew
  <2> QED BY <1>2, <1>5, <1>6, <2>1, <2>2, <2>3 DEF FileChanged, FileLeft, H
<1>7. CASE d = NoFile /\ DOMAIN N = {} /\ OrNew(ds[n]).root \subseteq Plain
  <2>1. OrNew(NoFile).hooks = <<>> BY DEF OrNew, NewDocument, Document
  <2>2. N = <<>> BY <1>3, <1>7, NoHooks
  <2> QED BY <1>5, <1>7, <2>1, <2>2, NothingRuns DEF FileChanged, FileLeft, H
<1> QED BY <1>6, <1>7

-----------------------------------------------------------------------------
(* How a command goes about the files of a host.                           *)

\* The files an installation puts its handlers into.
Targets(h, ds) ==
  CASE h = "droid" -> {Droid!ActiveDocument(ds)}
    [] h = "copilot" -> {"user"}
    [] OTHER -> Written(h, ds)

Fits(h, w) ==
  /\ IsWay(w) /\ Kind(w) = Elements(h)
  /\ Events(h) \in SUBSET AllEvents /\ Events(h) # {}

\* A file after an installation.
Rewrites(h, n, old, d, a, w) ==
  /\ d = Document(d.root, Renewed(OrNew(old).hooks, Events(h), a, w))
  /\ d.root \in SUBSET Fields /\ OrNew(old).root \ Plain \subseteq d.root
  /\ Contained(h, n, d)

InstallForm(h, ds, new, a, w) ==
  /\ new = [n \in Names(h) |-> new[n]]
  /\ \A n \in Names(h) :
       IF n \in Targets(h, ds) THEN Rewrites(h, n, ds[n], new[n], a, w)
       ELSE FileChanged(h, n, new[n], ds[n], IF n \in Written(h, ds) THEN Events(h) ELSE {}, a)
  /\ Targets(h, ds) \subseteq Names(h) \cap Written(h, ds)
  /\ Written(h, ds) \subseteq Written(h, new)
  /\ h = "kimi" => Homes(new["homes"])

Outcome(h, ds, new, a, w) ==
  /\ Changed(h, new, ds, a)
  /\ \A n \in Targets(h, ds) : FileInstalled(h, ds, n, w, a, new[n].root, new[n])

(* An installation of this form changes the documents as it may.           *)
LEMMA InstallOutcome ==
  ASSUME NEW h, NEW w, Fits(h, w), NEW ds, WellFormed(h, ds), NEW a \in Agents, NEW new,
         InstallForm(h, ds, new, a, w)
  PROVE  Outcome(h, ds, new, a, w)
<1>1. \A n \in Targets(h, ds) : FileInstalled(h, ds, n, w, a, new[n].root, new[n])
  <2> TAKE n \in Targets(h, ds)
  <2>1. n \in Names(h) /\ Rewrites(h, n, ds[n], new[n], a, w) BY DEF InstallForm
  <2> DEFINE d == new[n]
             r == d.root
  <2>2. d = Document(r, Renewed(OrNew(ds[n]).hooks, Events(h), a, w)) BY <2>1 DEF Rewrites
  <2>3. r \in SUBSET Fields /\ OrNew(ds[n]).root \ Plain \subseteq r /\ Contained(h, n, d)
    BY <2>1 DEF Rewrites
  <2>4. IsWay(w) /\ Kind(w) = Elements(h) /\ Events(h) \in SUBSET AllEvents BY DEF Fits
  <2> HIDE DEF d, r
  <2>5. FileInstalled(h, ds, n, w, a, r, d) BY <2>1, <2>2, <2>3, <2>4, FileInstallation
  <2> QED BY <2>5 DEF d, r
<1>2. Changed(h, new, ds, a)
  <2>1. \A n \in Names(h) :
          FileChanged(h, n, new[n], ds[n], IF n \in Written(h, ds) THEN Events(h) ELSE {}, a)
    <3> TAKE n \in Names(h)
    <3>1. CASE n \in Targets(h, ds)
      <4>1. FileChanged(h, n, new[n], ds[n], Events(h), a) BY <1>1, <3>1 DEF FileInstalled
      <4>2. n \in Written(h, ds) BY <3>1 DEF InstallForm
      <4> QED BY <4>1, <4>2
    <3>2. CASE n \notin Targets(h, ds) BY <3>2 DEF InstallForm
    <3> QED BY <3>1, <3>2
  <2> QED BY <2>1 DEF Changed, InstallForm
<1> QED BY <1>1, <1>2 DEF Outcome

UninstallForm(h, ds, new, a) ==
  /\ new = [n \in Names(h) |-> new[n]]
  /\ \A n \in Names(h) :
       IF n \in Written(h, ds) THEN FileLeft(h, ds, n, {a}, new[n], Events(h), User)
       ELSE FileChanged(h, n, new[n], ds[n], {}, User)
  /\ Written(h, ds) \subseteq Written(h, new)
  /\ h = "kimi" => Homes(new["homes"])

Removed(h, ds, new, a) ==
  /\ Changed(h, new, ds, User)
  /\ \A n \in Names(h), e \in AllEvents : ~RunsAt(ListAt(new, n, e), a)

(* A removal of this form leaves no handler of its agent that runs.        *)
LEMMA UninstallOutcome ==
  ASSUME NEW h, NEW ds, WellFormed(h, ds), NEW a \in Agents, NEW new,
         UninstallForm(h, ds, new, a)
  PROVE  Removed(h, ds, new, a)
<1>1. Changed(h, new, ds, User) BY DEF UninstallForm, FileLeft, Changed
<1>2. \A n \in Names(h), e \in AllEvents : ~RunsAt(ListAt(new, n, e), a)
  <2> TAKE n \in Names(h), e \in AllEvents
  <2>1. CASE n \in Written(h, ds)
    <3>1. \A f \in AllEvents, b \in {a} : ~RunsAt(At(OrNew(new[n]).hooks, f), b)
      BY <2>1 DEF UninstallForm, FileLeft
    <3> QED BY <3>1 DEF ListAt
  <2>2. CASE n \notin Written(h, ds)
    <3>1. FileChanged(h, n, new[n], ds[n], {}, User) BY <2>2 DEF UninstallForm
    <3>2. Drawn(OrNew(new[n]).hooks, OrNew(ds[n]).hooks, {}, User) BY <3>1 DEF FileChanged
    <3>3. RunsAt(At(OrNew(new[n]).hooks, e), a) => RunsAt(At(OrNew(ds[n]).hooks, e), a) \/ a = User
      BY <3>2 DEF Drawn
    <3>4. ~RunsAt(At(OrNew(ds[n]).hooks, e), a) BY <2>2, ElsewhereRuns DEF ListAt
    <3>5. a # User BY HostAssumption
    <3> QED BY <3>3, <3>4, <3>5 DEF ListAt
  <2> QED BY <2>1, <2>2
<1> QED BY <1>1, <1>2 DEF Removed

Alone(h) == Names(h) = {"user"} /\ h \notin {"droid", "copilot", "kimi"}
            /\ \A x : Written(h, x) = {"user"}

(* Hosts with one file.                                                    *)
LEMMA OneInstall ==
  ASSUME NEW h, Alone(h), NEW ds, NEW a, NEW w, NEW d, Rewrites(h, "user", ds["user"], d, a, w)
  PROVE  InstallForm(h, ds, [user |-> d], a, w) /\ Targets(h, ds) = {"user"}
<1> DEFINE z == [user |-> d]
<1>1. z["user"] = d /\ z = [n \in {"user"} |-> z[n]] OBVIOUS
<1> HIDE DEF z
<1>2. Targets(h, ds) = {"user"} BY DEF Alone, Targets
<1>3. InstallForm(h, ds, z, a, w) BY <1>1, <1>2 DEF Alone, InstallForm
<1> QED BY <1>2, <1>3 DEF z

(* A removal in a host with one file.                                      *)
LEMMA OneUninstall ==
  ASSUME NEW h, Alone(h), NEW ds, NEW a, NEW d, FileLeft(h, ds, "user", {a}, d, Events(h), User)
  PROVE  UninstallForm(h, ds, [user |-> d], a)
<1> DEFINE z == [user |-> d]
<1>1. z["user"] = d /\ z = [n \in {"user"} |-> z[n]] OBVIOUS
<1> HIDE DEF z
<1>2. UninstallForm(h, ds, z, a) BY <1>1 DEF Alone, UninstallForm
<1> QED BY <1>2 DEF z

\* What is to be shown of a host.
Performs(h, w) ==
  \A ds : WellFormed(h, ds) => \A a \in Agents :
    PluginOf(h, ds).parses =>
      /\ InstallForm(h, ds, PluginOf(h, ds).install[a], a, w)
      /\ a \notin PluginOf(h, ds).stuck => UninstallForm(h, ds, PluginOf(h, ds).uninstall[a], a)

Repeats(h, w) ==
  \A ds : WellFormed(h, ds) => \A a \in Agents :
    LET new == PluginOf(h, ds).install[a]
    IN  PluginOf(h, ds).parses /\ WellFormed(h, new) /\ Outcome(h, ds, new, a, w) =>
          /\ ~PluginOf(h, ds).refused => Takes(PluginOf(h, new), a)
          /\ PluginOf(h, new).install[a] = new

\* The installation clears the files that it does not put its handlers into.
Clears(h) ==
  \A ds : WellFormed(h, ds) => \A a \in Agents : PluginOf(h, ds).parses =>
    LET new == PluginOf(h, ds).install[a]
    IN  \A n \in Written(h, new) \ Targets(h, ds), e \in Events(h), b \in Agents :
          ~Knows(h, ListAt(new, n, e), e, b)

(* Nothing is recognised in a file without hooks.                          *)
LEMMA EmptyKnows ==
  ASSUME NEW h, NEW H, DOMAIN H = {}, NEW e, NEW b
  PROVE  ~Knows(h, At(H, e), e, b)
<1>1. At(H, e) = <<>> BY DEF At
<1>2. DOMAIN <<>> = {} OBVIOUS
<1> QED BY <1>1, <1>2 DEF Knows, Some

(* Nothing is recognised after a removal of all agents.                    *)
LEMMA PurgedKnows ==
  ASSUME NEW h, NEW w, IsWay(w), Looks(h, w), NEW H, IsHooks(H, w), NEW es \in SUBSET AllEvents,
         NEW N, Purged(N, H, es, Agents, w), NEW e \in es, NEW b \in Agents
  PROVE  ~Knows(h, At(N, e), e, b)
<1>1. At(N, e) = Clean(At(H, e), e, Agents, w) BY DEF Purged
<1>2. At(H, e) \in Seq(Kind(w)) BY AtType
<1>3. At(N, e) \in Seq(Kind(w)) BY AtType DEF Purged
<1>4. ~Sought(At(N, e), e, b, w) BY <1>1, <1>2, CleanSought
<1> QED BY <1>3, <1>4, KnownSought

(* There is no such file in most hosts.                                    *)
LEMMA NothingElse ==
  ASSUME NEW h, h \notin {"droid", "copilot", "kimi"}
  PROVE  Clears(h)
<1>1. \A ds, new : Written(h, new) = Targets(h, ds) BY DEF Written, Targets
<1> QED BY <1>1 DEF Clears

(* What an installation leaves is its agent's alone.                       *)
LEMMA OutcomeSole ==
  ASSUME NEW h, NEW w, Fits(h, w), Looks(h, w), Clears(h), NEW ds, WellFormed(h, ds),
         NEW a \in Agents, PluginOf(h, ds).parses,
         Outcome(h, ds, PluginOf(h, ds).install[a], a, w)
  PROVE  Sole(h, PluginOf(h, ds).install[a], a)
<1> DEFINE new == PluginOf(h, ds).install[a]
<1>1. ASSUME NEW n \in Written(h, new) \ Targets(h, ds), NEW e \in Events(h), NEW b \in Agents
      PROVE  ~Knows(h, ListAt(new, n, e), e, b)
  BY <1>1 DEF Clears
<1>2. Outcome(h, ds, new, a, w) OBVIOUS
<1> HIDE DEF new
<1>3. ASSUME NEW n \in Targets(h, ds), NEW e \in Events(h), NEW b \in Agents \ {a}
      PROVE  ~Knows(h, ListAt(new, n, e), e, b)
  <2> DEFINE d == new[n]
             H == OrNew(ds[n]).hooks
  <2>1. FileInstalled(h, ds, n, w, a, d.root, d) BY <1>2 DEF Outcome
  <2>2. /\ OrNew(d) = d /\ IsHooks(H, w) /\ IsHooks(d.hooks, w)
        /\ At(d.hooks, e) = Fresh(H, e, a, w)
    BY <2>1 DEF FileInstalled
  <2>3. ListAt(new, n, e) = At(d.hooks, e) BY <2>2 DEF ListAt
  <2> HIDE DEF d, H
  <2>4. IsWay(w) BY DEF Fits
  <2>5. At(d.hooks, e) \in Seq(Kind(w)) BY <2>2, AtType
  <2>6. ~Sought(At(d.hooks, e), e, b, w) BY <2>2, <2>4, FreshSought
  <2> QED BY <2>3, <2>4, <2>5, <2>6, KnownSought
<1>4. Sole(h, new, a)
  <2> SUFFICES ASSUME NEW n \in Written(h, new), NEW e \in Events(h), NEW b \in Agents \ {a}
               PROVE  ~Knows(h, ListAt(new, n, e), e, b)
    BY DEF Sole
  <2>1. CASE n \in Targets(h, ds) BY <2>1, <1>3
  <2>2. CASE n \notin Targets(h, ds) BY <2>2, <1>1
  <2> QED BY <2>1, <2>2
<1> QED BY <1>4 DEF new

(* The form of the commands and their repetition make a host sound.        *)
LEMMA HostSound ==
  ASSUME NEW h, NEW w, Fits(h, w), Looks(h, w), Performs(h, w), Repeats(h, w), Clears(h)
  PROVE  Sound(h)
<1> SUFFICES ASSUME NEW ds, WellFormed(h, ds), NEW a \in Agents, PluginOf(h, ds).parses
             PROVE  /\ ~PluginOf(h, ds).refused => Installs(h, ds, a)
                    /\ Steady(h, ds, a)
                    /\ a \notin PluginOf(h, ds).stuck => Uninstalls(h, ds, a)
  BY DEF Sound
<1> DEFINE new == PluginOf(h, ds).install[a]
<1>1. InstallForm(h, ds, new, a, w) BY DEF Performs
<1>2. Outcome(h, ds, new, a, w) BY <1>1, InstallOutcome
<1>3. Changed(h, new, ds, a) BY <1>2 DEF Outcome
<1>4. WellFormed(h, new) BY <1>3, ChangedKeeps
<1>5. /\ ~PluginOf(h, ds).refused => Takes(PluginOf(h, new), a)
      /\ PluginOf(h, new).install[a] = new
  BY <1>2, <1>4 DEF Repeats
<1>6. ASSUME a \notin PluginOf(h, ds).stuck PROVE Uninstalls(h, ds, a)
  <2>1. UninstallForm(h, ds, PluginOf(h, ds).uninstall[a], a) BY <1>6 DEF Performs
  <2>2. Removed(h, ds, PluginOf(h, ds).uninstall[a], a) BY <2>1, UninstallOutcome
  <2> QED BY <2>2 DEF Removed, Uninstalls
<1>7. Sole(h, new, a) BY <1>2, OutcomeSole
<1> QED BY <1>3, <1>5, <1>6, <1>7 DEF Installs, Steady

(* The hooks and the root of a file of a host.                             *)
LEMMA OldFile ==
  ASSUME NEW h, NEW w, Fits(h, w), NEW ds, WellFormed(h, ds), NEW n \in Names(h)
  PROVE  /\ IsHooks(OrNew(ds[n]).hooks, w)
         /\ OrNew(ds[n]).root \in SUBSET Fields
         /\ ds[n] = NoFile => OrNew(ds[n]).root = {} /\ OrNew(ds[n]).hooks = <<>>
         /\ ds[n] # NoFile => OrNew(ds[n]) = ds[n]
<1>1. ds[n] # NoFile => IsDocument(ds[n], Kind(w)) BY DEF Fits, WellFormed
<1> QED BY <1>1, OrNewParts

After(h, old, d, a, w) ==
  /\ d # NoFile /\ OrNew(d) = d /\ d = Document(d.root, d.hooks)
  /\ IsHooks(d.hooks, w) /\ IsHooks(OrNew(old).hooks, w)
  /\ DOMAIN d.hooks = Events(h) \cup DOMAIN OrNew(old).hooks /\ DOMAIN d.hooks # {}
  /\ \A e \in Events(h) : At(d.hooks, e) = Fresh(OrNew(old).hooks, e, a, w)
  /\ Renewed(d.hooks, Events(h), a, w) = d.hooks

(* A file an installation wrote is as it left it.                          *)
LEMMA NewFile ==
  ASSUME NEW h, NEW w, Fits(h, w), NEW ds, NEW new, NEW a, Outcome(h, ds, new, a, w),
         NEW n \in Targets(h, ds)
  PROVE  After(h, ds[n], new[n], a, w)
<1> DEFINE d == new[n]
<1>1. FileInstalled(h, ds, n, w, a, d.root, d) BY DEF Outcome
<1> HIDE DEF d
<1>2. d # NoFile /\ OrNew(d) = d BY <1>1 DEF FileInstalled
<1>3. IsHooks(d.hooks, w) /\ IsHooks(OrNew(ds[n]).hooks, w) BY <1>1 DEF FileInstalled
<1>4. DOMAIN d.hooks = Events(h) \cup DOMAIN OrNew(ds[n]).hooks BY <1>1 DEF FileInstalled
<1>5. DOMAIN d.hooks # {} BY <1>4 DEF Fits
<1>6. \A e \in Events(h) : At(d.hooks, e) = Fresh(OrNew(ds[n]).hooks, e, a, w)
  BY <1>1 DEF FileInstalled
<1>7. Renewed(d.hooks, Events(h), a, w) = d.hooks BY <1>1 DEF FileInstalled
<1>8. d = Document(d.root, d.hooks)
  <2>1. IsDocument(d, Elements(h)) BY <1>1, <1>2 DEF FileInstalled, FileChanged
  <2>2. PICK es : d \in [root : SUBSET Fields, hooks : [es -> Seq(Elements(h))]]
    BY <2>1 DEF IsDocument
  <2> QED BY <2>2 DEF Document
<1> QED BY <1>2, <1>3, <1>4, <1>5, <1>6, <1>7, <1>8 DEF After, d

(* Its agent is the one whose groups are found in it.                      *)
LEMMA GroupsTaken ==
  ASSUME NEW h, NEW w, Fits(h, w), w.grouped, NEW old, NEW d, NEW a \in Agents,
         After(h, old, d, a, w),
         NEW forms \in SUBSET w.forms, "exact" \in forms,
         NEW shapes \in SUBSET w.shapes, "exact" \in shapes
  PROVE  OnlyGroups(d.hooks, Events(h), forms, shapes, a)
<1>1. IsWay(w) /\ Events(h) # {} BY DEF Fits
<1>2. IsHooks(OrNew(old).hooks, w) BY DEF After
<1>3. \A e \in Events(h) : At(d.hooks, e) = Fresh(OrNew(old).hooks, e, a, w) BY DEF After
<1> QED BY <1>1, <1>2, <1>3, GroupIds

(* Its agent is the one whose handlers are found in it.                    *)
LEMMA HandlersTaken ==
  ASSUME NEW h, NEW f \in SUBSET Forms, "exact" \in f, Fits(h, FlatWay(f)), NEW old, NEW d,
         NEW a \in Agents, After(h, old, d, a, FlatWay(f)), NEW forms \in SUBSET f, "exact" \in forms
  PROVE  OnlyHandlers(d.hooks, Events(h), forms, a)
<1>1. Events(h) # {} BY DEF Fits
<1>2. IsHooks(OrNew(old).hooks, FlatWay(f)) BY DEF After
<1>3. \A e \in Events(h) : At(d.hooks, e) = Fresh(OrNew(old).hooks, e, a, FlatWay(f)) BY DEF After
<1> QED BY <1>1, <1>2, <1>3, FlatIds

-----------------------------------------------------------------------------
(* Hosts of which one file is written.                                     *)

Replaces(h, ds, new, n, d) == new = [m \in Names(h) |-> IF m = n THEN d ELSE ds[m]]

Single(h, n) ==
  /\ n \in Names(h) /\ h \notin {"droid", "copilot", "kimi"}
  /\ \A x : Written(h, x) = {n}

(* An installation that rewrites one of several files.                     *)
LEMMA SingleInstall ==
  ASSUME NEW h, NEW n, Single(h, n), NEW ds, WellFormed(h, ds), NEW a, NEW w, NEW d,
         Rewrites(h, n, ds[n], d, a, w), NEW new, Replaces(h, ds, new, n, d)
  PROVE  InstallForm(h, ds, new, a, w)
<1>1. Targets(h, ds) = {n} BY DEF Single, Targets
<1>2. new = [m \in Names(h) |-> new[m]] BY DEF Replaces
<1>3. \A m \in Names(h) : new[m] = IF m = n THEN d ELSE ds[m] BY DEF Replaces
<1>4. \A m \in Names(h) :
       IF m \in Targets(h, ds) THEN Rewrites(h, m, ds[m], new[m], a, w)
       ELSE FileChanged(h, m, new[m], ds[m], IF m \in Written(h, ds) THEN Events(h) ELSE {}, a)
  <2> TAKE m \in Names(h)
  <2>1. CASE m = n BY <1>1, <1>3, <2>1
  <2>2. CASE m # n
    <3>1. new[m] = ds[m] BY <1>3, <2>2
    <3>2. \A es : FileChanged(h, m, ds[m], ds[m], es, a) BY FileSame
    <3> QED BY <1>1, <2>2, <3>1, <3>2
  <2> QED BY <2>1, <2>2
<1> QED BY <1>1, <1>2, <1>4 DEF Single, InstallForm

(* A removal that rewrites one of several files.                           *)
LEMMA SingleUninstall ==
  ASSUME NEW h, NEW n, Single(h, n), NEW ds, WellFormed(h, ds), NEW a, NEW d,
         FileLeft(h, ds, n, {a}, d, Events(h), User), NEW new, Replaces(h, ds, new, n, d)
  PROVE  UninstallForm(h, ds, new, a)
<1>2. new = [m \in Names(h) |-> new[m]] BY DEF Replaces
<1>3. \A m \in Names(h) : new[m] = IF m = n THEN d ELSE ds[m] BY DEF Replaces
<1>4. \A m \in Names(h) :
       IF m \in Written(h, ds) THEN FileLeft(h, ds, m, {a}, new[m], Events(h), User)
       ELSE FileChanged(h, m, new[m], ds[m], {}, User)
  <2> TAKE m \in Names(h)
  <2>1. CASE m = n BY <1>3, <2>1 DEF Single
  <2>2. CASE m # n
    <3>1. new[m] = ds[m] BY <1>3, <2>2
    <3>2. FileChanged(h, m, ds[m], ds[m], {}, User) BY FileSame
    <3> QED BY <2>2, <3>1, <3>2 DEF Single
  <2> QED BY <2>1, <2>2
<1> QED BY <1>2, <1>4 DEF Single, UninstallForm

(* A document's own root and hooks make it up.                             *)
LEMMA Whole ==
  ASSUME NEW h, NEW d, IsDocument(d, Elements(h))
  PROVE  d = Document(d.root, d.hooks)
<1>1. PICK es : d \in [root : SUBSET Fields, hooks : [es -> Seq(Elements(h))]]
  BY DEF IsDocument
<1> QED BY <1>1 DEF Document

\* Hooks stand in a container.
Held(doc) == DOMAIN doc.hooks # {} => "hooks" \in doc.root

(* The hooks of a file stand in their container.                           *)
LEMMA OldHeld ==
  ASSUME NEW h \in {"gemini", "qwen", "letta"}, NEW ds, WellFormed(h, ds), NEW n \in Names(h)
  PROVE  Held(OrNew(ds[n]))
<1>1. ds[n] # NoFile => Held(ds[n]) BY DEF WellFormed, Contained, HasSettings, Held
<1> QED BY <1>1 DEF Held, OrNew, NewDocument, Document

(* For these hosts nothing else is asked of a file.                        *)
LEMMA HeldContained ==
  \A h \in {"gemini", "qwen", "letta"} : \A n, d : Contained(h, n, d) <=> Held(d)
BY DEF Contained, HasSettings, Held

\* A file that a host creates has a marker.
MarkedRoot(doc) == IF doc = NoFile THEN {"marker"} ELSE doc.root

-----------------------------------------------------------------------------
(* More on handlers without groups.                                        *)

(* An installation adds its handler to what it does not look for.          *)
LEMMA FlatKept ==
  ASSUME NEW forms \in SUBSET Forms, "exact" \in forms, NEW H, IsHooks(H, FlatWay(forms)),
         NEW e, NEW a \in Agents, NEW i \in DOMAIN Fresh(H, e, a, FlatWay(forms))
  PROVE  LET x == Fresh(H, e, a, FlatWay(forms))[i]
         IN  \/ x = Handler(a, e)
             \/ \E j \in DOMAIN At(H, e) : x = At(H, e)[j] /\ ~Refers(x, e, Agents, forms)
<1> DEFINE w == FlatWay(forms)
           l == At(H, e)
           M == Unmatched(l, e, Agents, forms)
           L == Fresh(H, e, a, w)
<1>1. Kind(w) = Listed /\ ~w.grouped /\ w.forms = forms /\ Item(a, e, w) = Handler(a, e)
      /\ IsHooks(H, w)
  BY FlatIsWay
<1> HIDE DEF w
<1>2. l \in Seq(Listed) BY <1>1, AtType
<1> HIDE DEF l
<1>3. L = Append(M, Handler(a, e)) BY <1>1, <1>2, FlatClean DEF Fresh, l
<1>4. /\ M \in Seq(Listed)
      /\ \A k \in DOMAIN M : \E j \in DOMAIN l :
            j \in {n \in DOMAIN l : ~Refers(l[n], e, Agents, forms)} /\ M[k] = l[j]
  <2> DEFINE S == {n \in DOMAIN l : ~Refers(l[n], e, Agents, forms)}
  <2>1. M = Pick(l, S) BY DEF Unmatched
  <2> HIDE DEF S, M
  <2>2. M \in Seq(Listed) /\ \A k \in DOMAIN M : \E j \in DOMAIN l : j \in S /\ M[k] = l[j]
    BY <1>2, <2>1, PickRange
  <2> QED BY <2>2 DEF S
<1>5. \A k \in DOMAIN M : \E j \in DOMAIN l : M[k] = l[j] /\ ~Refers(l[j], e, Agents, forms)
  BY <1>4
<1> HIDE DEF M, L
<1>6. \A k \in DOMAIN L : L[k] = Handler(a, e) \/ (k \in DOMAIN M /\ L[k] = M[k])
  BY <1>3, <1>4
<1>7. i \in DOMAIN L BY DEF L, w
<1>8. \/ L[i] = Handler(a, e)
      \/ \E j \in DOMAIN l : L[i] = l[j] /\ ~Refers(L[i], e, Agents, forms)
  BY <1>5, <1>6, <1>7
<1> QED BY <1>8 DEF l, L, w

(* The user has no handlers in a list of the agents'.                      *)
LEMMA NoUsers ==
  ASSUME NEW l \in Seq(Listed), \A i \in DOMAIN l : l[i].owner # User
  PROVE  AllUsers(l) = <<>>
<1> DEFINE S == {i \in DOMAIN l : ~(l[i].owner # User)}
           p == Pick(l, S)
<1>1. AllUsers(l) = p BY HandlersOfListed DEF AllUsers, UsersOf, Without
<1>2. S = {} OBVIOUS
<1>3. p \in Seq(Listed) /\ \A i \in DOMAIN p : \E j \in DOMAIN l : j \in S /\ p[i] = l[j]
  BY PickRange
<1> HIDE DEF p, S
<1>4. DOMAIN p = {} BY <1>2, <1>3
<1>5. p = <<>> BY <1>3, <1>4
<1> QED BY <1>1, <1>5

(* A document of the agents' handlers may go.                              *)
LEMMA AgentsFile ==
  ASSUME NEW h, NEW n, Elements(h) = Listed, NEW old, old # NoFile => IsDocument(old, Listed),
         \A e \in AllEvents : \A i \in DOMAIN At(OrNew(old).hooks, e) :
            At(OrNew(old).hooks, e)[i].owner # User,
         OrNew(old).root \subseteq Plain, NEW es, NEW c
  PROVE  FileChanged(h, n, NoFile, old, es, c)
<1> DEFINE H == OrNew(old).hooks
           w == FlatWay(Three)
<1>1. Kind(w) = Listed BY DEF FlatWay, Kind
<1> HIDE DEF w
<1>2. IsHooks(H, w) BY <1>1, OrNewParts
<1> HIDE DEF H
<1>3. \A e : At(H, e) \in Seq(Listed) BY <1>1, <1>2, AtType
<1>4. \A e \in AllEvents : AllUsers(At(H, e)) = <<>> BY <1>3, NoUsers DEF H
<1>5. OrNew(NoFile).hooks = <<>> /\ \A e : At(<<>>, e) = <<>>
  BY NewHooks DEF OrNew, NewDocument, Document
<1>6. \A y : ~ListHas(<<>>, y)
  <2>1. DOMAIN <<>> = {} OBVIOUS
  <2> QED BY <2>1 DEF ListHas
<1>7. \A e, b : ~RunsAt(At(OrNew(NoFile).hooks, e), b) BY NothingRuns
<1>8. Drawn(OrNew(NoFile).hooks, H, es, c)
  BY <1>4, <1>5, <1>6, <1>7, AllUsersEmpty DEF Drawn
<1> QED BY <1>8 DEF FileChanged, H
(* Two files of a host are replaced.                                       *)
LEMMA TwoFiles ==
  ASSUME NEW m, NEW n, m # n, NEW ds, DOMAIN ds = {m, n}, NEW x, NEW y
  PROVE  LET new == [ds EXCEPT ![m] = x, ![n] = y]
         IN  new = [k \in {m, n} |-> new[k]] /\ new[m] = x /\ new[n] = y
OBVIOUS

-----------------------------------------------------------------------------
(* Kiro IDE.                                                               *)
Named == {"exact", "moved", "edited"}

KiroIdeRemoval(H, ids) == FlatRemoval(H, Pair, ids, Named)

KiroIdeAddition(doc, a) ==
  KiroIde!Render(doc, FlatAddition(KiroIdeRemoval(OrNew(doc).hooks, Agents), Pair, a))

KiroIdeLess(doc, a) == KiroIde!Render(doc, KiroIdeRemoval(OrNew(doc).hooks, {a}))

(* The operators of the plugin, in the terms used here.                    *)
LEMMA KiroIdeOps ==
  ASSUME NEW ds, NEW a
  PROVE  /\ KiroIde!Install(ds, a) =
              [ds EXCEPT !["workspace"] = KiroIdeAddition(ds["workspace"], a),
                         !["legacy"] = KiroIde!RemoveLegacy(ds["legacy"], {a})]
         /\ KiroIde!Uninstall(ds, a) =
              [ds EXCEPT !["workspace"] = KiroIdeLess(ds["workspace"], a),
                         !["legacy"] = KiroIde!RemoveLegacy(ds["legacy"], {a})]
<1>1. \A d : KiroIde!OrNew(d) = OrNew(d)
  BY DEF KiroIde!OrNew, OrNew, KiroIde!NewDocument, NewDocument, KiroIde!Document, Document
<1>2. \A H, ids : KiroIde!WithoutManaged(H, ids) = KiroIdeRemoval(H, ids)
  BY DEF KiroIde!WithoutManaged, KiroIdeRemoval, FlatRemoval, KiroIde!PutOrDrop, PutOrDrop,
    KiroIde!Drop, Drop, KiroIde!Over, Over, KiroIde!Without, Unmatched, KiroIde!Pick, Pick,
    KiroIde!Kept, Kept, KiroIde!At, At, KiroIde!OwnedReference, KiroIde!Refers, Refers,
    KiroIde!ScriptOf, ScriptOf, KiroIde!Events, Pair, Named
<1>3. \A N : KiroIde!Append1(N, KiroIde!Events, LAMBDA e : KiroIde!Handler(a, e))
               = FlatAddition(N, Pair, a)
  BY DEF KiroIde!Append1, FlatAddition, KiroIde!Over, Over, KiroIde!At, At, KiroIde!Handler,
    Handler, KiroIde!ScriptOf, ScriptOf, KiroIde!Events, Pair
<1>4. \A d : KiroIde!Render(d, KiroIde!Append1(KiroIde!WithoutManaged(KiroIde!OrNew(d).hooks, Agents),
                                 KiroIde!Events, LAMBDA e : KiroIde!Handler(a, e))) = KiroIdeAddition(d, a)
  BY <1>1, <1>2, <1>3 DEF KiroIdeAddition
<1>5. \A d : KiroIde!Render(d, KiroIde!WithoutManaged(KiroIde!OrNew(d).hooks, {a})) = KiroIdeLess(d, a)
  BY <1>1, <1>2 DEF KiroIdeLess
<1>6. KiroIde!Install(ds, a) =
        [ds EXCEPT !["workspace"] = KiroIdeAddition(ds["workspace"], a),
                   !["legacy"] = KiroIde!RemoveLegacy(ds["legacy"], {a})]
  BY <1>4 DEF KiroIde!Install
<1>7. KiroIde!Uninstall(ds, a) =
        [ds EXCEPT !["workspace"] = KiroIdeLess(ds["workspace"], a),
                   !["legacy"] = KiroIde!RemoveLegacy(ds["legacy"], {a})]
  BY <1>5 DEF KiroIde!Uninstall
<1> QED BY <1>6, <1>7

(* How its files are rendered.                                             *)
LEMMA KiroIdeRender ==
  ASSUME NEW doc, doc # NoFile => IsDocument(doc, Listed) /\ "version" \in doc.root,
         NEW N
  PROVE  LET d == Document(OrNew(doc).root \cup {"version"}, N)
         IN  /\ DOMAIN N # {} => KiroIde!Render(doc, N) = d
             /\ \/ KiroIde!Render(doc, N) = d
                \/ /\ KiroIde!Render(doc, N) = NoFile /\ DOMAIN N = {}
                   /\ OrNew(doc).root \subseteq {"version"}
<1> DEFINE d == Document(OrNew(doc).root \cup {"version"}, N)
           r == KiroIde!Render(doc, N)
<1>1. r = IF OrNew(doc).hooks = N THEN doc
          ELSE IF DOMAIN N = {} /\ KiroIde!EntirelyManaged(doc) THEN NoFile ELSE d
  BY DEF KiroIde!Render, KiroIde!OrNew, OrNew, KiroIde!NewDocument, NewDocument,
    KiroIde!Document, Document
<1>2. KiroIde!EntirelyManaged(doc) => doc # NoFile /\ doc.root \subseteq {"version"}
  BY DEF KiroIde!EntirelyManaged
<1>3. doc # NoFile => OrNew(doc) = doc BY DEF OrNew
<1>4. OrNew(NoFile).root = {} /\ OrNew(NoFile).hooks = <<>> BY DEF OrNew, NewDocument, Document
<1>5. DOMAIN <<>> = {} OBVIOUS
<1>6. ASSUME doc # NoFile, OrNew(doc).hooks = N PROVE doc = d
  <2>1. PICK es : doc \in [root : SUBSET Fields, hooks : [es -> Seq(Listed)]]
    BY <1>6 DEF IsDocument
  <2>2. doc = Document(doc.root, doc.hooks) BY <2>1 DEF Document
  <2>3. doc.root \cup {"version"} = doc.root BY <1>6
  <2> QED BY <1>3, <1>6, <2>2, <2>3
<1> HIDE DEF d, r
<1>7. CASE OrNew(doc).hooks = N /\ doc # NoFile
  <2>1. r = d BY <1>1, <1>6, <1>7
  <2> QED BY <2>1 DEF d, r
<1>8. CASE OrNew(doc).hooks = N /\ doc = NoFile
  <2>1. r = NoFile /\ DOMAIN N = {} /\ OrNew(doc).root \subseteq {"version"}
    BY <1>1, <1>4, <1>5, <1>8
  <2> QED BY <2>1 DEF r
<1>9. CASE OrNew(doc).hooks # N
  <2>1. r = IF DOMAIN N = {} /\ KiroIde!EntirelyManaged(doc) THEN NoFile ELSE d BY <1>1, <1>9
  <2>2. /\ DOMAIN N # {} => r = d
        /\ r = d \/ (r = NoFile /\ DOMAIN N = {} /\ OrNew(doc).root \subseteq {"version"})
    BY <1>2, <1>3, <2>1
  <2> QED BY <2>2 DEF d, r
<1> QED BY <1>7, <1>8, <1>9

KiroIdeWay == FlatWay(Named)

(* Which files, events and elements the host has.                          *)
LEMMA KiroIdeFits ==
  /\ Fits("kiroide", KiroIdeWay) /\ Events("kiroide") = Pair
  /\ Names("kiroide") = {"workspace", "legacy"} /\ Elements("kiroide") = Listed
  /\ \A n, d : Contained("kiroide", n, d)
  /\ \A ds : Written("kiroide", ds) = {"workspace"} /\ Targets("kiroide", ds) = {"workspace"}
<1>1. Named \in SUBSET Forms /\ "exact" \in Named BY DEF Named, Forms
<1>2. IsWay(KiroIdeWay) /\ Kind(KiroIdeWay) = Listed BY <1>1, FlatIsWay DEF KiroIdeWay
<1>3. Elements("kiroide") = Listed BY DEF Elements
<1>4. Events("kiroide") = Pair BY DEF Events, Pair
<1>5. Events("kiroide") \in SUBSET AllEvents /\ Events("kiroide") # {} BY <1>4 DEF Pair, AllEvents
<1>6. Names("kiroide") = {"workspace", "legacy"} BY DEF Names
<1>7. \A n, d : Contained("kiroide", n, d) BY DEF Contained, HasSettings
<1>8. \A ds : Written("kiroide", ds) = {"workspace"} BY DEF Written
<1>9. \A ds : Targets("kiroide", ds) = Written("kiroide", ds) BY DEF Targets
<1> QED BY <1>2, <1>3, <1>4, <1>5, <1>6, <1>7, <1>8, <1>9 DEF Fits

(* What the plugin says of a set of documents, by its operators.           *)
LEMMA KiroIdeFields ==
  \A ds : /\ PluginOf("kiroide", ds).parses <=> KiroIde!Parses(ds)
          /\ PluginOf("kiroide", ds).refused <=> KiroIde!Disabled(ds)
          /\ PluginOf("kiroide", ds).enabled <=> ~KiroIde!Disabled(ds)
          /\ PluginOf("kiroide", ds).contracts = KiroIde!Contracts(ds)
          /\ "whole" \in PluginOf("kiroide", ds).files
          /\ \A a \in Agents : /\ PluginOf("kiroide", ds).install[a] = KiroIde!Install(ds, a)
                               /\ PluginOf("kiroide", ds).uninstall[a] = KiroIde!Uninstall(ds, a)
<1> TAKE ds
<1>1. PluginOf("kiroide", ds) = KiroIde!Plugin(ds) BY DEF PluginOf
<1> DEFINE off == KiroIde!Disabled(ds)
           on == ~off
<1>2. KiroIde!Plugin(ds).refused = off /\ KiroIde!Plugin(ds).enabled = on
  BY DEF KiroIde!Plugin
<1>3. on \in BOOLEAN /\ off \in BOOLEAN BY DEF KiroIde!Disabled, KiroIde!Taken
<1>4. on <=> ~off OBVIOUS
<1> HIDE DEF on, off
<1>5. /\ KiroIde!Plugin(ds).parses <=> KiroIde!Parses(ds)
      /\ KiroIde!Plugin(ds).contracts = KiroIde!Contracts(ds)
      /\ "whole" \in KiroIde!Plugin(ds).files
      /\ \A a \in Agents : /\ KiroIde!Plugin(ds).install[a] = KiroIde!Install(ds, a)
                           /\ KiroIde!Plugin(ds).uninstall[a] = KiroIde!Uninstall(ds, a)
  BY DEF KiroIde!Plugin, KiroIde!RuntimeFiles
<1>6. (KiroIde!Plugin(ds).refused <=> off) /\ (KiroIde!Plugin(ds).enabled <=> ~off)
  BY <1>2, <1>3, <1>4
<1> QED BY <1>1, <1>5, <1>6 DEF off

(* The plugin's removal and addition are those of its way.                 *)
LEMMA KiroIdeLists ==
  ASSUME NEW H, IsHooks(H, KiroIdeWay)
  PROVE  /\ \A ids : Purged(KiroIdeRemoval(H, ids), H, Pair, ids, KiroIdeWay)
         /\ \A a : FlatAddition(KiroIdeRemoval(H, Agents), Pair, a) = Renewed(H, Pair, a, KiroIdeWay)
<1>1. Named \in SUBSET Forms /\ "exact" \in Named BY DEF Named, Forms
<1>2. Pair \in SUBSET AllEvents BY DEF Pair, AllEvents
<1>3. \A ids : Purged(FlatRemoval(H, Pair, ids, Named), H, Pair, ids, KiroIdeWay)
  BY <1>1, <1>2, FlatPurged DEF KiroIdeWay
<1>4. \A a : FlatAddition(FlatRemoval(H, Pair, Agents, Named), Pair, a) = Renewed(H, Pair, a, KiroIdeWay)
  BY <1>1, <1>2, FlatRenewed DEF KiroIdeWay
<1> QED BY <1>3, <1>4 DEF KiroIdeRemoval

(* The file of earlier versions stays as it is, or goes.                   *)
LEMMA KiroIdeLegacy ==
  ASSUME NEW ds, WellFormed("kiroide", ds), NEW a \in Agents
  PROVE  /\ \A es, c : FileChanged("kiroide", "legacy", KiroIde!RemoveLegacy(ds["legacy"], {a}),
                                   ds["legacy"], es, c)
         /\ LET d == KiroIde!RemoveLegacy(ds["legacy"], {a})
            IN  (d = NoFile \/ d = ds["legacy"]) /\ KiroIde!RemoveLegacy(d, {a}) = d
<1> DEFINE old == ds["legacy"]
           d == KiroIde!RemoveLegacy(old, {a})
<1>0. "legacy" \in Names("kiroide") BY KiroIdeFits
<1>1. CASE KiroIde!LegacyContract(old, {a})
  <2>1. d = NoFile BY <1>1 DEF KiroIde!RemoveLegacy
  <2>2. KiroIde!RemoveLegacy(NoFile, {a}) = NoFile BY DEF KiroIde!RemoveLegacy
  <2>3. /\ old # NoFile /\ old.root = {} /\ DOMAIN old.hooks = Pair
        /\ \A e \in Pair : /\ \E x \in DOMAIN old.hooks[e] : DOMAIN old.hooks[e] = {x}
                           /\ old.hooks[e][1].owner = a
    BY <1>1 DEF KiroIde!LegacyContract, KiroIde!Events, Pair, KiroIde!Refers, KiroIde!One
  <2>4. OrNew(old) = old /\ IsDocument(old, Listed)
    BY <1>0, <2>3, KiroIdeFits DEF OrNew, WellFormed
  <2>5. \A e \in AllEvents : \A i \in DOMAIN At(old.hooks, e) : At(old.hooks, e)[i].owner # User
    <3> TAKE e \in AllEvents
    <3>1. CASE e \in Pair
      <4>1. At(old.hooks, e) = old.hooks[e] BY <2>3, <3>1 DEF At
      <4>2. old.hooks[e] \in Seq(Listed)
        <5>1. PICK es : old \in [root : SUBSET Fields, hooks : [es -> Seq(Listed)]]
          BY <2>4 DEF IsDocument
        <5> QED BY <2>3, <3>1, <5>1
      <4>3. \A i \in DOMAIN old.hooks[e] : i = 1 BY <2>3, <3>1, <4>2
      <4>4. a # User BY HostAssumption
      <4> QED BY <2>3, <3>1, <4>1, <4>3, <4>4
    <3>2. CASE e \notin Pair
      <4>1. At(old.hooks, e) = <<>> BY <2>3, <3>2 DEF At
      <4> QED BY <4>1
    <3> QED BY <3>1, <3>2
  <2>6. \A es, c : FileChanged("kiroide", "legacy", NoFile, old, es, c)
    <3> TAKE es, c
    <3> HIDE DEF old
    <3>1. OrNew(old).root \subseteq Plain BY <2>3, <2>4
    <3>2. \A e \in AllEvents : \A i \in DOMAIN At(OrNew(old).hooks, e) :
            At(OrNew(old).hooks, e)[i].owner # User
      BY <2>4, <2>5
    <3> QED BY <2>4, <3>1, <3>2, KiroIdeFits, AgentsFile
  <2> QED BY <2>1, <2>2, <2>6
<1>2. CASE ~KiroIde!LegacyContract(old, {a})
  <2>1. d = old BY <1>2 DEF KiroIde!RemoveLegacy
  <2>2. \A es, c : FileChanged("kiroide", "legacy", old, old, es, c) BY <1>0, FileSame
  <2>3. KiroIde!RemoveLegacy(old, {a}) = old BY <2>1
  <2> QED BY <2>1, <2>2, <2>3
<1> QED BY <1>1, <1>2

(* What an installation writes.                                            *)
LEMMA KiroIdeAdded ==
  ASSUME NEW ds, WellFormed("kiroide", ds), KiroIde!Parses(ds), NEW a \in Agents
  PROVE  KiroIdeAddition(ds["workspace"], a)
           = Document(OrNew(ds["workspace"]).root \cup {"version"},
                      Renewed(OrNew(ds["workspace"]).hooks, Pair, a, KiroIdeWay))
<1> DEFINE old == ds["workspace"]
           H == OrNew(old).hooks
           N == Renewed(H, Pair, a, KiroIdeWay)
<1>1. "workspace" \in Names("kiroide") BY KiroIdeFits
<1>2. IsHooks(H, KiroIdeWay) BY <1>1, KiroIdeFits, OldFile
<1>3. KiroIdeAddition(old, a) = KiroIde!Render(old, N) BY <1>2, KiroIdeLists DEF KiroIdeAddition
<1>4. DOMAIN N # {} BY DEF Renewed, Pair
<1>5. old # NoFile => IsDocument(old, Listed) /\ "version" \in old.root
  BY <1>1, KiroIdeFits DEF WellFormed, KiroIde!Parses, KiroIde!ParseDocument
<1> HIDE DEF old, N
<1>6. KiroIdeAddition(old, a) = Document(OrNew(old).root \cup {"version"}, N)
  BY <1>3, <1>4, <1>5, KiroIdeRender
<1> QED BY <1>6 DEF old, N

(* Its commands have the form of an installation and of a removal.         *)
LEMMA KiroIdePerforms == Performs("kiroide", KiroIdeWay)
<1> SUFFICES ASSUME NEW ds, WellFormed("kiroide", ds), NEW a \in Agents, KiroIde!Parses(ds)
             PROVE  /\ InstallForm("kiroide", ds, KiroIde!Install(ds, a), a, KiroIdeWay)
                    /\ UninstallForm("kiroide", ds, KiroIde!Uninstall(ds, a), a)
  BY KiroIdeFields DEF Performs
<1> DEFINE old == ds["workspace"]
           r == OrNew(old).root \cup {"version"}
           left == KiroIde!RemoveLegacy(ds["legacy"], {a})
<1>1. DOMAIN ds = {"workspace", "legacy"} /\ "workspace" \in Names("kiroide")
  BY KiroIdeFits DEF WellFormed
<1>2. IsHooks(OrNew(old).hooks, KiroIdeWay) /\ OrNew(old).root \in SUBSET Fields
  BY <1>1, KiroIdeFits, OldFile
<1>3. r \in SUBSET Fields /\ OrNew(old).root \ Plain \subseteq r BY <1>2 DEF Fields
<1>4. \A es, c : FileChanged("kiroide", "legacy", left, ds["legacy"], es, c) BY KiroIdeLegacy
<1> HIDE DEF r, left
<1>5. InstallForm("kiroide", ds, KiroIde!Install(ds, a), a, KiroIdeWay)
  <2> DEFINE new == KiroIde!Install(ds, a)
             d == KiroIdeAddition(old, a)
  <2>1. /\ new = [n \in {"workspace", "legacy"} |-> new[n]]
        /\ new["workspace"] = d /\ new["legacy"] = left
    <3>1. new = [ds EXCEPT !["workspace"] = d, !["legacy"] = left] BY KiroIdeOps DEF left
    <3> HIDE DEF new, d, left
    <3> QED BY <1>1, <3>1, TwoFiles
  <2>2. d = Document(r, Renewed(OrNew(old).hooks, Pair, a, KiroIdeWay)) BY KiroIdeAdded DEF r
  <2> HIDE DEF new, d
  <2>3. d.root = r BY <2>2 DEF Document
  <2>4. Rewrites("kiroide", "workspace", old, d, a, KiroIdeWay)
    BY <1>3, <2>2, <2>3, KiroIdeFits DEF Rewrites
  <2>5. \A n \in Names("kiroide") :
          IF n \in Targets("kiroide", ds) THEN Rewrites("kiroide", n, ds[n], new[n], a, KiroIdeWay)
          ELSE FileChanged("kiroide", n, new[n], ds[n], IF n \in Written("kiroide", ds) THEN Events("kiroide") ELSE {}, a)
    BY <1>4, <2>1, <2>4, KiroIdeFits
  <2> QED BY <2>1, <2>5, KiroIdeFits DEF InstallForm, new
<1>6. UninstallForm("kiroide", ds, KiroIde!Uninstall(ds, a), a)
  <2> DEFINE new == KiroIde!Uninstall(ds, a)
             d == KiroIdeLess(old, a)
             N == KiroIdeRemoval(OrNew(old).hooks, {a})
  <2>1. /\ new = [n \in {"workspace", "legacy"} |-> new[n]]
        /\ new["workspace"] = d /\ new["legacy"] = left
    <3>1. new = [ds EXCEPT !["workspace"] = d, !["legacy"] = left] BY KiroIdeOps DEF left
    <3> HIDE DEF new, d, left
    <3> QED BY <1>1, <3>1, TwoFiles
  <2>2. Purged(N, OrNew(old).hooks, Events("kiroide"), {a}, KiroIdeWay)
    BY <1>2, KiroIdeLists, KiroIdeFits
  <2>3. old # NoFile => IsDocument(old, Listed) /\ "version" \in old.root
    BY <1>1, KiroIdeFits DEF WellFormed, KiroIde!Parses, KiroIde!ParseDocument
  <2>4. d = KiroIde!Render(old, N) BY DEF KiroIdeLess
  <2> HIDE DEF new, d, N
  <2>5. \/ d = Document(r, N) /\ Contained("kiroide", "workspace", d)
        \/ d = NoFile /\ DOMAIN N = {} /\ OrNew(old).root \subseteq Plain
    <3> HIDE DEF old
    <3> QED BY <2>3, <2>4, KiroIdeRender, KiroIdeFits DEF r, Plain
  <2>6. FileLeft("kiroide", ds, "workspace", {a}, d, Events("kiroide"), User)
    BY <1>1, <1>3, <2>2, <2>5, KiroIdeFits, FileRemoval DEF Fits
  <2>7. \A n \in Names("kiroide") :
          IF n \in Written("kiroide", ds) THEN FileLeft("kiroide", ds, n, {a}, new[n], Events("kiroide"), User)
          ELSE FileChanged("kiroide", n, new[n], ds[n], {}, User)
    BY <1>4, <2>1, <2>6, KiroIdeFits
  <2> QED BY <2>1, <2>7, KiroIdeFits DEF UninstallForm, new
<1> QED BY <1>5, <1>6

(* The agents version 3 runs if only its handlers have Elydora's names.    *)
LEMMA KiroFound ==
  ASSUME NEW N,
         \A e \in Pair : \A i \in DOMAIN At(N, e) :
            At(N, e)[i].script = ScriptOf(e) => Refers(At(N, e)[i], e, Agents, {"exact", "moved"})
  PROVE  KiroIde!RuntimeContracts(N) = OneIds(N, Pair, {"exact", "moved"})
<1>1. ~\E e \in KiroIde!Events : KiroIde!Some(KiroIde!At(N, e), LAMBDA h :
         KiroIde!ManagedSpecification(h, e) /\ ~KiroIde!ManagedReference(h, e, Agents))
  BY DEF KiroIde!Some, KiroIde!At, At, KiroIde!Events, Pair,
    KiroIde!ManagedSpecification, KiroIde!ManagedReference, KiroIde!Refers, Refers,
    KiroIde!ScriptOf, ScriptOf
<1>2. KiroIde!RuntimeContracts(N) =
        {b \in Agents : \A e \in KiroIde!Events :
           KiroIde!One({i \in DOMAIN KiroIde!At(N, e) :
              KiroIde!ManagedReference(KiroIde!At(N, e)[i], e, {b})})}
  BY <1>1 DEF KiroIde!RuntimeContracts
<1> QED BY <1>2 DEF OneIds, KiroIde!One, One, KiroIde!At, At, KiroIde!Events, Pair,
  KiroIde!ManagedReference, KiroIde!Refers, Refers, KiroIde!ScriptOf, ScriptOf

(* After an installation the host reports it, and another one changes      *)
(* nothing.                                                                *)
LEMMA KiroIdeRepeats == Repeats("kiroide", KiroIdeWay)
<1> SUFFICES ASSUME NEW ds, WellFormed("kiroide", ds), NEW a \in Agents, KiroIde!Parses(ds),
                    NEW z, z = KiroIde!Install(ds, a), WellFormed("kiroide", z),
                    Outcome("kiroide", ds, z, a, KiroIdeWay)
             PROVE  /\ ~KiroIde!Disabled(ds) => Takes(PluginOf("kiroide", z), a)
                    /\ KiroIde!Install(z, a) = z
  BY KiroIdeFields DEF Repeats
<1> DEFINE old == ds["workspace"]
           H == OrNew(old).hooks
           new == z["workspace"]
           r == OrNew(old).root \cup {"version"}
<1>1. /\ DOMAIN ds = {"workspace", "legacy"} /\ "workspace" \in Names("kiroide")
      /\ DOMAIN z = {"workspace", "legacy"}
  BY KiroIdeFits DEF WellFormed
<1>2. After("kiroide", old, new, a, KiroIdeWay) BY KiroIdeFits, NewFile
<1>3. /\ new # NoFile /\ OrNew(new) = new /\ new = Document(new.root, new.hooks)
      /\ IsHooks(new.hooks, KiroIdeWay) /\ IsHooks(H, KiroIdeWay)
      /\ \A e \in Pair : At(new.hooks, e) = Fresh(H, e, a, KiroIdeWay)
      /\ Renewed(new.hooks, Pair, a, KiroIdeWay) = new.hooks
  BY <1>2, KiroIdeFits DEF After
<1>4. /\ z["workspace"] = KiroIdeAddition(old, a)
      /\ z["legacy"] = KiroIde!RemoveLegacy(ds["legacy"], {a})
  <2> DEFINE d == KiroIdeAddition(old, a)
             left == KiroIde!RemoveLegacy(ds["legacy"], {a})
  <2>1. z = [ds EXCEPT !["workspace"] = d, !["legacy"] = left] BY KiroIdeOps
  <2>2. z["workspace"] = d /\ z["legacy"] = left
    <3> HIDE DEF d, left
    <3> QED BY <1>1, <2>1, TwoFiles
  <2> QED BY <2>2
<1>5. new.root = r
  <2>1. new = Document(r, Renewed(H, Pair, a, KiroIdeWay)) BY <1>4, KiroIdeAdded
  <2> QED BY <2>1 DEF Document
<1>6. /\ z["legacy"] = NoFile \/ z["legacy"] = ds["legacy"]
      /\ KiroIde!RemoveLegacy(z["legacy"], {a}) = z["legacy"]
  BY <1>4, KiroIdeLegacy
<1>7. KiroIde!Parses(z)
  <2>1. "malformed" \notin r
    BY DEF KiroIde!Parses, KiroIde!ParseDocument, OrNew, NewDocument, Document
  <2>2. "version" \in new.root /\ "malformed" \notin new.root BY <1>5, <2>1
  <2> QED BY <1>6, <2>2 DEF KiroIde!Parses, KiroIde!ParseDocument
<1>8. KiroIde!Install(z, a) = z
  <2>1. KiroIdeAddition(new, a) = new
    <3>1. KiroIdeAddition(new, a) = Document(new.root \cup {"version"}, new.hooks)
      BY <1>3, <1>7, KiroIdeAdded
    <3>2. new.root \cup {"version"} = new.root BY <1>5
    <3> QED BY <1>3, <3>1, <3>2
  <2>2. KiroIde!Install(z, a) = [z EXCEPT !["workspace"] = new, !["legacy"] = z["legacy"]]
    <3> DEFINE d == KiroIdeAddition(z["workspace"], a)
               left == KiroIde!RemoveLegacy(z["legacy"], {a})
    <3>1. KiroIde!Install(z, a) = [z EXCEPT !["workspace"] = d, !["legacy"] = left]
      BY KiroIdeOps
    <3>2. d = new /\ left = z["legacy"] BY <1>6, <2>1
    <3> HIDE DEF d, left
    <3> QED BY <3>1, <3>2
  <2>3. z = [n \in {"workspace", "legacy"} |-> z[n]] BY KiroIdeFits DEF WellFormed
  <2> QED BY <2>2, <2>3
<1>9. ASSUME ~KiroIde!Disabled(ds) PROVE Takes(PluginOf("kiroide", z), a)
  <2> DEFINE L(e) == At(new.hooks, e)
  <2>1. \A e \in Pair : \A i \in DOMAIN At(H, e) :
          At(H, e)[i].script = ScriptOf(e) => Refers(At(H, e)[i], e, Agents, Named)
    BY <1>9 DEF KiroIde!Disabled, KiroIde!Taken, KiroIde!OrNew, OrNew, KiroIde!NewDocument,
      NewDocument, KiroIde!Document, Document, KiroIde!Some, KiroIde!At, At, KiroIde!Events, Pair,
      KiroIde!ManagedSpecification, KiroIde!OwnedReference, KiroIde!Refers, Refers,
      KiroIde!ScriptOf, ScriptOf, Named
  <2>2. \A e \in Pair : \A i \in DOMAIN L(e) :
          L(e)[i] = Handler(a, e) \/ L(e)[i].script # ScriptOf(e)
    <3> TAKE e \in Pair
    <3> TAKE i \in DOMAIN L(e)
    <3>1. L(e) = Fresh(H, e, a, KiroIdeWay) BY <1>3
    <3>2. Named \in SUBSET Forms /\ "exact" \in Named BY DEF Named, Forms
    <3>3. \/ L(e)[i] = Handler(a, e)
          \/ \E j \in DOMAIN At(H, e) : L(e)[i] = At(H, e)[j] /\ ~Refers(L(e)[i], e, Agents, Named)
      BY <1>3, <3>1, <3>2, FlatKept DEF KiroIdeWay
    <3> QED BY <2>1, <3>3
  <2> HIDE DEF H, old
  <2>3. \A e : Handler(a, e).owner = a /\ Handler(a, e).script = ScriptOf(e)
               /\ Handler(a, e).form = "exact"
    BY DEF Handler
  <2>4. \A e \in Pair : \A i \in DOMAIN L(e) :
          L(e)[i].script = ScriptOf(e) => Refers(L(e)[i], e, Agents, {"exact", "moved"})
    BY <2>2, <2>3 DEF Refers
  <2> HIDE DEF new
  <2>5. ~KiroIde!Disabled(z)
    BY <1>3, <2>4 DEF KiroIde!Disabled, KiroIde!Taken, KiroIde!OrNew, OrNew, KiroIde!NewDocument,
      NewDocument, KiroIde!Document, Document, KiroIde!Some, KiroIde!At, At, KiroIde!Events, Pair,
      KiroIde!ManagedSpecification, KiroIde!OwnedReference, KiroIde!Refers, Refers,
      KiroIde!ScriptOf, ScriptOf, new
  <2>6. KiroIde!Contracts(z) = OneIds(new.hooks, Pair, {"exact", "moved"})
    <3>1. KiroIde!Contracts(z) = KiroIde!RuntimeContracts(new.hooks)
      BY <1>3 DEF KiroIde!Contracts, KiroIde!OrNew, OrNew, KiroIde!NewDocument, NewDocument,
        KiroIde!Document, Document, new
    <3>2. KiroIde!RuntimeContracts(new.hooks) = OneIds(new.hooks, Pair, {"exact", "moved"})
      BY <2>4, KiroFound
    <3> QED BY <3>1, <3>2
  <2>7. OnlyHandlers(new.hooks, Events("kiroide"), {"exact", "moved"}, a)
    <3>1. Named \in SUBSET Forms /\ "exact" \in Named /\ {"exact", "moved"} \in SUBSET Named
      BY DEF Named, Forms
    <3>2. After("kiroide", old, new, a, FlatWay(Named)) /\ Fits("kiroide", FlatWay(Named))
      BY <1>2, KiroIdeFits DEF KiroIdeWay, new, old
    <3> QED BY <3>1, <3>2, HandlersTaken
  <2> QED BY <1>7, <2>5, <2>6, <2>7, KiroIdeFields, KiroIdeFits, SMTT(40) DEF Takes, OnlyHandlers
<1> QED BY <1>8, <1>9

(* Kiro IDE: every installation takes and is steady, every removal clean.  *)
LEMMA KiroIdeSound == Sound("kiroide")
<1>1. Looks("kiroide", KiroIdeWay) BY DEF Looks, Recognised, KiroIdeWay, FlatWay, Named
<1>2. Clears("kiroide") BY NothingElse
<1> QED BY <1>1, <1>2, KiroIdeFits, KiroIdePerforms, KiroIdeRepeats, HostSound
(* What a removal leaves has no handler of its agents.                     *)
LEMMA UnmatchedLeft ==
  ASSUME NEW l \in Seq(Listed), NEW e, NEW ids, NEW forms,
         NEW i \in DOMAIN Unmatched(l, e, ids, forms)
  PROVE  ~Refers(Unmatched(l, e, ids, forms)[i], e, ids, forms)
<1> DEFINE S == {n \in DOMAIN l : ~Refers(l[n], e, ids, forms)}
           M == Unmatched(l, e, ids, forms)
<1>1. M = Pick(l, S) BY DEF Unmatched
<1> HIDE DEF M, S
<1>2. \A k \in DOMAIN M : \E j \in DOMAIN l : j \in S /\ M[k] = l[j] BY <1>1, PickRange
<1>3. PICK j \in DOMAIN l : j \in S /\ M[i] = l[j] BY <1>2 DEF M
<1>4. ~Refers(l[j], e, ids, forms) BY <1>3 DEF S
<1> QED BY <1>3, <1>4 DEF M

(* A second removal finds nothing.                                         *)
LEMMA FlatTwice ==
  ASSUME NEW forms \in SUBSET Forms, "exact" \in forms, NEW H, IsHooks(H, FlatWay(forms)),
         NEW es \in SUBSET AllEvents, NEW ids
  PROVE  FlatRemoval(FlatRemoval(H, es, ids, forms), es, ids, forms)
           = FlatRemoval(H, es, ids, forms)
<1> DEFINE w == FlatWay(forms)
           N == FlatRemoval(H, es, ids, forms)
           lists == [e \in es |-> Unmatched(At(H, e), e, ids, forms)]
           rest == [e \in es |-> Unmatched(At(N, e), e, ids, forms)]
<1>1. IsWay(w) /\ ~w.grouped /\ w.forms = forms /\ Kind(w) = Listed BY FlatIsWay
<1>2. Purged(N, H, es, ids, w) BY FlatPurged
<1>3. \A e \in DOMAIN N : e \in es => N[e] # <<>>
  <2>1. N = [e \in (DOMAIN lists \cup DOMAIN H) \ {x \in DOMAIN lists : lists[x] = <<>>} |->
              Over(lists, H)[e]]
    BY DEF FlatRemoval, PutOrDrop, Drop, Over
  <2>2. \A e \in DOMAIN lists : Over(lists, H)[e] = lists[e] BY DEF Over
  <2>3. DOMAIN lists = es OBVIOUS
  <2> HIDE DEF lists, N
  <2> QED BY <2>1, <2>2, <2>3
<1> HIDE DEF w
<1>4. \A e \in es : rest[e] = At(N, e)
  <2> TAKE e \in es
  <2>1. At(H, e) \in Seq(Listed) BY <1>1, AtType DEF w
  <2>2. At(N, e) = Unmatched(At(H, e), e, ids, forms) BY <1>1, <1>2, <2>1, FlatClean DEF Purged
  <2> HIDE DEF N
  <2>3. \A i \in DOMAIN At(N, e) : ~Refers(At(N, e)[i], e, ids, forms)
    BY <2>1, <2>2, UnmatchedLeft
  <2>4. Unmatched(At(N, e), e, ids, forms) = At(N, e) BY <2>3, PickAll DEF Unmatched
  <2> QED BY <2>4
<1>5. FlatRemoval(N, es, ids, forms) = PutOrDrop(N, rest) BY DEF FlatRemoval
<1>6. IsHooks(N, w) BY <1>2 DEF Purged
<1> HIDE DEF N
<1>7. DOMAIN rest = es OBVIOUS
<1> HIDE DEF rest
<1>8. PutOrDrop(N, rest) = N
  <2>1. PutOrDrop(N, rest) = [e \in (es \cup DOMAIN N) \ {x \in es : rest[x] = <<>>} |->
                                IF e \in es THEN rest[e] ELSE N[e]]
    BY <1>7 DEF PutOrDrop, Drop, Over
  <2>2. (es \cup DOMAIN N) \ {x \in es : rest[x] = <<>>} = DOMAIN N
    BY <1>3, <1>4 DEF At
  <2>3. \A e \in DOMAIN N : (IF e \in es THEN rest[e] ELSE N[e]) = N[e] BY <1>4 DEF At
  <2>4. N = [e \in DOMAIN N |-> N[e]] BY <1>6 DEF IsHooks
  <2> QED BY <2>1, <2>2, <2>3, <2>4
<1> QED BY <1>5, <1>8 DEF N

(* No agent is found after a removal of all.                               *)
LEMMA FlatNone ==
  ASSUME NEW forms \in SUBSET Forms, "exact" \in forms, NEW H, IsHooks(H, FlatWay(forms)),
         NEW es \in SUBSET AllEvents, es # {}, NEW N, Purged(N, H, es, Agents, FlatWay(forms))
  PROVE  SomeIds(N, es, forms) = {}
<1> DEFINE w == FlatWay(forms)
<1>1. IsWay(w) /\ ~w.grouped /\ w.forms = forms /\ Kind(w) = Listed BY FlatIsWay
<1>2. \A e \in es : \A i : i \in DOMAIN At(N, e) => ~Refers(At(N, e)[i], e, Agents, forms)
  <2> TAKE e \in es
  <2> TAKE i
  <2> HAVE i \in DOMAIN At(N, e)
  <2>1. At(H, e) \in Seq(Listed) BY <1>1, AtType
  <2>2. At(N, e) = Unmatched(At(H, e), e, Agents, forms) BY <1>1, <2>1, FlatClean DEF Purged
  <2> QED BY <2>1, <2>2, UnmatchedLeft
<1>3. \A e, y : \A b \in Agents : Refers(y, e, {b}, forms) => Refers(y, e, Agents, forms)
  BY DEF Refers
<1>4. PICK e \in es : TRUE OBVIOUS
<1>5. ASSUME NEW b \in SomeIds(N, es, forms) PROVE FALSE
  <2>1. b \in Agents /\ \E i \in DOMAIN At(N, e) : Refers(At(N, e)[i], e, {b}, forms)
    BY <1>4 DEF SomeIds
  <2> QED BY <1>2, <1>3, <1>4, <2>1
<1> QED BY <1>5

-----------------------------------------------------------------------------
(* GitHub Copilot CLI.                                                     *)
CopilotRemoval(H, ids) == FlatRemoval(H, Triple, ids, Three)

CopilotAddition(doc, a) ==
  Copilot!RenderDocument(doc, FlatAddition(CopilotRemoval(OrNew(doc).hooks, Agents), Triple, a))

CopilotLess(doc, ids) ==
  IF doc = NoFile THEN NoFile ELSE Copilot!RenderDocument(doc, CopilotRemoval(doc.hooks, ids))

(* The operators of the plugin, in the terms used here.                    *)
LEMMA CopilotOps ==
  ASSUME NEW ds, NEW a
  PROVE  /\ Copilot!Install(ds, a) =
              [ds EXCEPT !["user"] = CopilotAddition(ds["user"], a),
                         !["legacy"] = CopilotLess(ds["legacy"], Agents)]
         /\ Copilot!Uninstall(ds, a) =
              [ds EXCEPT !["user"] = CopilotLess(ds["user"], {a}),
                         !["legacy"] = CopilotLess(ds["legacy"], {a})]
         /\ Copilot!Contracts(ds) = SomeIds(OrNew(ds["user"]).hooks, Triple, Three)
                                      \cup SomeIds(OrNew(ds["legacy"]).hooks, Triple, Three)
<1>1. \A d : Copilot!OrNew(d) = OrNew(d)
  BY DEF Copilot!OrNew, OrNew, Copilot!NewDocument, NewDocument, Copilot!Document, Document
<1>2. \A H, ids : Copilot!RemoveManagedHooks(H, ids) = CopilotRemoval(H, ids)
  BY DEF Copilot!RemoveManagedHooks, CopilotRemoval, FlatRemoval, Copilot!PutOrDrop, PutOrDrop,
    Copilot!Drop, Drop, Copilot!Over, Over, Copilot!Without, Unmatched, Copilot!Pick, Pick,
    Copilot!Kept, Kept, Copilot!At, At, Copilot!ManagedEntry, Copilot!Refers, Refers,
    Copilot!ScriptOf, ScriptOf, Copilot!Events, Triple, Three
<1>3. \A N : Copilot!Append1(N, Copilot!Events, LAMBDA e : Copilot!Handler(a, e))
               = FlatAddition(N, Triple, a)
  BY DEF Copilot!Append1, FlatAddition, Copilot!Over, Over, Copilot!At, At, Copilot!Handler,
    Handler, Copilot!ScriptOf, ScriptOf, Copilot!Events, Triple
<1>4. \A d : Copilot!RenderInstallation(d, a) = CopilotAddition(d, a)
  BY <1>1, <1>2, <1>3 DEF CopilotAddition, Copilot!RenderInstallation
<1>5. \A d, ids : Copilot!RenderRemoval(d, ids) = CopilotLess(d, ids)
  BY <1>2 DEF CopilotLess, Copilot!RenderRemoval
<1>6. Copilot!Install(ds, a) =
        [ds EXCEPT !["user"] = CopilotAddition(ds["user"], a),
                   !["legacy"] = CopilotLess(ds["legacy"], Agents)]
  BY <1>4, <1>5 DEF Copilot!Install
<1>7. Copilot!Uninstall(ds, a) =
        [ds EXCEPT !["user"] = CopilotLess(ds["user"], {a}),
                   !["legacy"] = CopilotLess(ds["legacy"], {a})]
  BY <1>5 DEF Copilot!Uninstall
<1>8. \A H : Copilot!RuntimeContracts(H) = SomeIds(H, Triple, Three)
  BY DEF Copilot!RuntimeContracts, SomeIds, Copilot!Some, Copilot!At, At, Copilot!ManagedEntry,
    Copilot!Refers, Refers, Copilot!ScriptOf, ScriptOf, Copilot!Events, Triple, Three
<1>9. Copilot!Contracts(ds) = SomeIds(OrNew(ds["user"]).hooks, Triple, Three)
                                \cup SomeIds(OrNew(ds["legacy"]).hooks, Triple, Three)
  <2> DEFINE found(n) == Copilot!RuntimeContracts(OrNew(ds[n]).hooks)
  <2>1. Copilot!Contracts(ds) = UNION {found(n) : n \in {"user", "legacy"}}
    BY <1>1 DEF Copilot!Contracts
  <2>2. found("user") = SomeIds(OrNew(ds["user"]).hooks, Triple, Three)
        /\ found("legacy") = SomeIds(OrNew(ds["legacy"]).hooks, Triple, Three)
    BY <1>8
  <2> HIDE DEF found
  <2>3. Copilot!Contracts(ds) = found("user") \cup found("legacy") BY <2>1
  <2> QED BY <2>2, <2>3
<1> QED BY <1>6, <1>7, <1>9

(* How its files are rendered.                                             *)
LEMMA CopilotRender ==
  ASSUME NEW doc, NEW N
  PROVE  LET d == Document(OrNew(doc).root \cup {"version"}, N)
         IN  /\ DOMAIN N # {} => Copilot!RenderDocument(doc, N) = d
             /\ \/ Copilot!RenderDocument(doc, N) = d
                \/ /\ Copilot!RenderDocument(doc, N) = NoFile /\ DOMAIN N = {}
                   /\ OrNew(doc).root \subseteq {"version"}
<1> DEFINE d == Document(OrNew(doc).root \cup {"version"}, N)
<1>1. Copilot!RenderDocument(doc, N) =
        IF DOMAIN N = {} /\ OrNew(doc).root \subseteq {"version"} THEN NoFile ELSE d
  BY DEF Copilot!RenderDocument, Copilot!OrNew, OrNew, Copilot!NewDocument, NewDocument,
    Copilot!Document, Document
<1> HIDE DEF d
<1>2. /\ DOMAIN N # {} => Copilot!RenderDocument(doc, N) = d
      /\ \/ Copilot!RenderDocument(doc, N) = d
         \/ /\ Copilot!RenderDocument(doc, N) = NoFile /\ DOMAIN N = {}
            /\ OrNew(doc).root \subseteq {"version"}
  BY <1>1
<1> QED BY <1>2 DEF d

CopilotWay == FlatWay(Three)

CopilotNames == {"user", "legacy", "config", "settings", "claude", "claudeLocal", "github", "githubLocal"}

(* Which files, events and elements the host has.                          *)
LEMMA CopilotFits ==
  /\ Fits("copilot", CopilotWay) /\ Events("copilot") = Triple
  /\ Names("copilot") = CopilotNames /\ Elements("copilot") = Listed
  /\ \A n, d : Contained("copilot", n, d)
  /\ \A ds : Written("copilot", ds) = {"user", "legacy"} /\ Targets("copilot", ds) = {"user"}
<1>1. Three \in SUBSET Forms /\ "exact" \in Three BY DEF Three, Forms
<1>2. IsWay(CopilotWay) /\ Kind(CopilotWay) = Listed BY <1>1, FlatIsWay DEF CopilotWay
<1>3. Elements("copilot") = Listed BY DEF Elements
<1>4. Events("copilot") = Triple BY DEF Events, Triple
<1>5. Events("copilot") \in SUBSET AllEvents /\ Events("copilot") # {} BY <1>4 DEF Triple, AllEvents
<1>6. Names("copilot") = CopilotNames BY DEF Names, CopilotNames
<1>7. \A n, d : Contained("copilot", n, d) BY DEF Contained, HasSettings
<1>8. \A ds : Written("copilot", ds) = {"user", "legacy"} BY DEF Written
<1>9. \A ds : Targets("copilot", ds) = {"user"} BY DEF Targets
<1> QED BY <1>2, <1>3, <1>4, <1>5, <1>6, <1>7, <1>8, <1>9 DEF Fits

(* What the plugin says of a set of documents, by its operators.           *)
LEMMA CopilotFields ==
  \A ds : /\ PluginOf("copilot", ds).parses <=> Copilot!Parses(ds)
          /\ PluginOf("copilot", ds).refused <=> Copilot!Disabled(ds)
          /\ PluginOf("copilot", ds).enabled <=> ~Copilot!Disabled(ds)
          /\ PluginOf("copilot", ds).contracts = Copilot!Contracts(ds)
          /\ "whole" \in PluginOf("copilot", ds).files
          /\ \A a \in Agents : /\ PluginOf("copilot", ds).install[a] = Copilot!Install(ds, a)
                               /\ PluginOf("copilot", ds).uninstall[a] = Copilot!Uninstall(ds, a)
<1> TAKE ds
<1>1. PluginOf("copilot", ds) = Copilot!Plugin(ds) BY DEF PluginOf
<1> DEFINE off == Copilot!Disabled(ds)
           on == ~off
<1>2. Copilot!Plugin(ds).refused = off /\ Copilot!Plugin(ds).enabled = on
  BY DEF Copilot!Plugin
<1>3. on \in BOOLEAN /\ off \in BOOLEAN BY DEF Copilot!Disabled, Copilot!EffectiveDisabledSource
<1>4. on <=> ~off OBVIOUS
<1> HIDE DEF on, off
<1>5. /\ Copilot!Plugin(ds).parses <=> Copilot!Parses(ds)
      /\ Copilot!Plugin(ds).contracts = Copilot!Contracts(ds)
      /\ "whole" \in Copilot!Plugin(ds).files
      /\ \A a \in Agents : /\ Copilot!Plugin(ds).install[a] = Copilot!Install(ds, a)
                           /\ Copilot!Plugin(ds).uninstall[a] = Copilot!Uninstall(ds, a)
  BY DEF Copilot!Plugin, Copilot!RuntimeFiles
<1>6. (Copilot!Plugin(ds).refused <=> off) /\ (Copilot!Plugin(ds).enabled <=> ~off)
  BY <1>2, <1>3, <1>4
<1> QED BY <1>1, <1>5, <1>6 DEF off

(* The plugin's removal and addition are those of its way.                 *)
LEMMA CopilotLists ==
  ASSUME NEW H, IsHooks(H, CopilotWay)
  PROVE  /\ \A ids : Purged(CopilotRemoval(H, ids), H, Triple, ids, CopilotWay)
         /\ \A a : FlatAddition(CopilotRemoval(H, Agents), Triple, a) = Renewed(H, Triple, a, CopilotWay)
<1>1. Three \in SUBSET Forms /\ "exact" \in Three BY DEF Three, Forms
<1>2. Triple \in SUBSET AllEvents BY DEF Triple, AllEvents
<1>3. \A ids : Purged(FlatRemoval(H, Triple, ids, Three), H, Triple, ids, CopilotWay)
  BY <1>1, <1>2, FlatPurged DEF CopilotWay
<1>4. \A a : FlatAddition(FlatRemoval(H, Triple, Agents, Three), Triple, a) = Renewed(H, Triple, a, CopilotWay)
  BY <1>1, <1>2, FlatRenewed DEF CopilotWay
<1> QED BY <1>3, <1>4 DEF CopilotRemoval

(* A file from which agents were removed.                                  *)
LEMMA CopilotLeft ==
  ASSUME NEW ds, WellFormed("copilot", ds), NEW n \in Names("copilot"), NEW ids \in SUBSET Agents
  PROVE  \A es, c : FileLeft("copilot", ds, n, ids, CopilotLess(ds[n], ids), es, c)
<1> TAKE es, c
<1> DEFINE old == ds[n]
           r == OrNew(old).root \cup {"version"}
           N == CopilotRemoval(OrNew(old).hooks, ids)
           d == CopilotLess(old, ids)
<1>1. IsHooks(OrNew(old).hooks, CopilotWay) /\ OrNew(old).root \in SUBSET Fields
  BY CopilotFits, OldFile
<1>2. r \in SUBSET Fields /\ OrNew(old).root \ Plain \subseteq r BY <1>1 DEF Fields
<1>3. CASE old = NoFile
  <2>1. d = NoFile BY <1>3 DEF CopilotLess
  <2>2. FileChanged("copilot", n, old, old, es, c) BY FileSame
  <2> HIDE DEF old, d
  <2> QED BY <1>3, <2>1, <2>2, NothingRuns DEF FileLeft, old, d
<1>4. CASE old # NoFile
  <2>1. OrNew(old) = old BY <1>4 DEF OrNew
  <2>2. d = Copilot!RenderDocument(old, N) BY <1>4, <2>1 DEF CopilotLess
  <2>3. Purged(N, OrNew(old).hooks, Events("copilot"), ids, CopilotWay)
    BY <1>1, CopilotLists, CopilotFits
  <2> HIDE DEF d, N
  <2>4. \/ d = Document(r, N) /\ Contained("copilot", n, d)
        \/ d = NoFile /\ DOMAIN N = {} /\ OrNew(old).root \subseteq Plain
    <3> HIDE DEF old
    <3> QED BY <2>2, CopilotRender, CopilotFits DEF r, Plain
  <2> HIDE DEF r
  <2>5. FileLeft("copilot", ds, n, ids, d, es, c)
    BY <1>2, <2>3, <2>4, CopilotFits, FileRemoval DEF Fits
  <2> QED BY <2>5 DEF d
<1> QED BY <1>3, <1>4

(* The file of earlier versions after an installation.                     *)
LEMMA CopilotLegacy ==
  ASSUME NEW ds, WellFormed("copilot", ds)
  PROVE  LET d == CopilotLess(ds["legacy"], Agents)
         IN  /\ CopilotLess(d, Agents) = d
             /\ SomeIds(OrNew(d).hooks, Triple, Three) = {}
             /\ d # NoFile => d.root = OrNew(ds["legacy"]).root \cup {"version"}
<1> DEFINE old == ds["legacy"]
           H == OrNew(old).hooks
           r == OrNew(old).root \cup {"version"}
           N == CopilotRemoval(H, Agents)
           d == CopilotLess(old, Agents)
<1>1. "legacy" \in Names("copilot") BY CopilotFits DEF CopilotNames
<1>2. IsHooks(H, CopilotWay) /\ OrNew(old).root \in SUBSET Fields BY <1>1, CopilotFits, OldFile
<1>3. Three \in SUBSET Forms /\ "exact" \in Three /\ Triple \in SUBSET AllEvents /\ Triple # {}
  BY DEF Three, Forms, Triple, AllEvents
<1>4. Purged(N, H, Triple, Agents, CopilotWay) BY <1>2, CopilotLists
<1>5. SomeIds(N, Triple, Three) = {} BY <1>2, <1>3, <1>4, FlatNone DEF CopilotWay
<1>6. CopilotRemoval(N, Agents) = N
  BY <1>2, <1>3, FlatTwice DEF CopilotRemoval, CopilotWay
<1>7. r \in SUBSET Fields BY <1>2 DEF Fields
<1>a. \A x \in SUBSET Fields : \A M : IsHooks(M, CopilotWay) => Document(x, M) # NoFile
  BY CopilotFits, DocumentMade
<1> HIDE DEF H, N
<1>8. IsHooks(N, CopilotWay) BY <1>4 DEF Purged
<1>9. CASE d = NoFile
  <2>1. CopilotLess(NoFile, Agents) = NoFile BY DEF CopilotLess
  <2>2. OrNew(NoFile).hooks = <<>> BY DEF OrNew, NewDocument, Document
  <2>3. SomeIds(<<>>, Triple, Three) = {}
    <3>1. At(<<>>, "pre") = <<>> BY NewHooks
    <3>2. "pre" \in Triple BY DEF Triple
    <3>3. DOMAIN <<>> = {} OBVIOUS
    <3> QED BY <3>1, <3>2, <3>3 DEF SomeIds
  <2> HIDE DEF d
  <2> QED BY <1>9, <2>1, <2>2, <2>3 DEF d
<1>10. CASE d # NoFile
  <2>1. old # NoFile BY <1>10 DEF CopilotLess
  <2>2. OrNew(old) = old BY <2>1 DEF OrNew
  <2>3. d = Copilot!RenderDocument(old, N) BY <2>1, <2>2 DEF CopilotLess, N, H
  <2>4. d = Document(r, N) /\ ~(DOMAIN N = {} /\ r \subseteq {"version"})
    <3>1. Copilot!RenderDocument(old, N)
            = IF DOMAIN N = {} /\ OrNew(old).root \subseteq {"version"} THEN NoFile
              ELSE Document(r, N)
      BY DEF Copilot!RenderDocument, Copilot!OrNew, OrNew, Copilot!NewDocument, NewDocument,
        Copilot!Document, Document
    <3> HIDE DEF d, old
    <3> QED BY <1>10, <2>3, <3>1 DEF r
  <2>5. d.root = r /\ d.hooks = N BY <2>4 DEF Document
  <2> HIDE DEF d, old
  <2>6. OrNew(d) = d BY <1>10 DEF OrNew
  <2>7. CopilotLess(d, Agents) = Copilot!RenderDocument(d, N)
    BY <1>6, <1>10, <2>5 DEF CopilotLess
  <2>8. Copilot!RenderDocument(d, N) = Document(d.root \cup {"version"}, N)
    <3>1. Copilot!RenderDocument(d, N)
            = IF DOMAIN N = {} /\ OrNew(d).root \subseteq {"version"} THEN NoFile
              ELSE Document(OrNew(d).root \cup {"version"}, N)
      BY DEF Copilot!RenderDocument, Copilot!OrNew, OrNew, Copilot!NewDocument, NewDocument,
        Copilot!Document, Document
    <3> QED BY <2>4, <2>5, <2>6, <3>1
  <2>9. d.root \cup {"version"} = r BY <2>5 DEF r
  <2> QED BY <1>5, <2>4, <2>5, <2>6, <2>7, <2>8, <2>9 DEF d, r, old
<1> QED BY <1>9, <1>10

(* What an installation writes.                                            *)
LEMMA CopilotAdded ==
  ASSUME NEW ds, WellFormed("copilot", ds), NEW a \in Agents
  PROVE  CopilotAddition(ds["user"], a)
           = Document(OrNew(ds["user"]).root \cup {"version"},
                      Renewed(OrNew(ds["user"]).hooks, Triple, a, CopilotWay))
<1> DEFINE old == ds["user"]
           H == OrNew(old).hooks
           N == Renewed(H, Triple, a, CopilotWay)
<1>1. "user" \in Names("copilot") BY CopilotFits DEF CopilotNames
<1>2. IsHooks(H, CopilotWay) BY <1>1, CopilotFits, OldFile
<1>3. CopilotAddition(old, a) = Copilot!RenderDocument(old, N)
  BY <1>2, CopilotLists DEF CopilotAddition
<1>4. DOMAIN N # {} BY DEF Renewed, Triple
<1> HIDE DEF old, N
<1>5. CopilotAddition(old, a) = Document(OrNew(old).root \cup {"version"}, N)
  BY <1>3, <1>4, CopilotRender
<1> QED BY <1>5 DEF old, N

(* Two of its files are replaced.                                          *)
LEMMA CopilotTwo ==
  ASSUME NEW ds, DOMAIN ds = CopilotNames, NEW x, NEW y
  PROVE  LET new == [ds EXCEPT !["user"] = x, !["legacy"] = y]
         IN  /\ new = [k \in CopilotNames |-> new[k]] /\ new["user"] = x /\ new["legacy"] = y
             /\ \A k \in CopilotNames : k \notin {"user", "legacy"} => new[k] = ds[k]
BY DEF CopilotNames

(* Its commands have the form of an installation and of a removal.         *)
LEMMA CopilotPerforms == Performs("copilot", CopilotWay)
<1> SUFFICES ASSUME NEW ds, WellFormed("copilot", ds), NEW a \in Agents, Copilot!Parses(ds)
             PROVE  /\ InstallForm("copilot", ds, Copilot!Install(ds, a), a, CopilotWay)
                    /\ UninstallForm("copilot", ds, Copilot!Uninstall(ds, a), a)
  BY CopilotFields DEF Performs
<1> DEFINE old == ds["user"]
           r == OrNew(old).root \cup {"version"}
<1>1. /\ DOMAIN ds = CopilotNames /\ "user" \in Names("copilot") /\ "legacy" \in Names("copilot")
      /\ {"user", "legacy"} \subseteq CopilotNames
  BY CopilotFits DEF WellFormed, CopilotNames
<1>2. IsHooks(OrNew(old).hooks, CopilotWay) /\ OrNew(old).root \in SUBSET Fields
  BY <1>1, CopilotFits, OldFile
<1>3. r \in SUBSET Fields /\ OrNew(old).root \ Plain \subseteq r BY <1>2 DEF Fields
<1>4. \A n \in Names("copilot") : \A es, c : FileChanged("copilot", n, ds[n], ds[n], es, c) BY FileSame
<1> HIDE DEF r
<1>5. InstallForm("copilot", ds, Copilot!Install(ds, a), a, CopilotWay)
  <2> DEFINE new == Copilot!Install(ds, a)
             d == CopilotAddition(old, a)
             left == CopilotLess(ds["legacy"], Agents)
  <2>1. /\ new = [n \in CopilotNames |-> new[n]] /\ new["user"] = d /\ new["legacy"] = left
        /\ \A n \in CopilotNames : n \notin {"user", "legacy"} => new[n] = ds[n]
    <3>1. new = [ds EXCEPT !["user"] = d, !["legacy"] = left] BY CopilotOps
    <3> HIDE DEF new, d, left
    <3> QED BY <1>1, <3>1, CopilotTwo
  <2>2. d = Document(r, Renewed(OrNew(old).hooks, Triple, a, CopilotWay)) BY CopilotAdded DEF r
  <2>3. \A es, c : FileChanged("copilot", "legacy", left, ds["legacy"], es, c)
    <3>1. \A es, c : FileLeft("copilot", ds, "legacy", Agents, left, es, c) BY <1>1, CopilotLeft
    <3> HIDE DEF left
    <3> QED BY <3>1 DEF FileLeft
  <2> HIDE DEF new, d, left
  <2>4. d.root = r BY <2>2 DEF Document
  <2>5. Rewrites("copilot", "user", old, d, a, CopilotWay)
    BY <1>3, <2>2, <2>4, CopilotFits DEF Rewrites
  <2>6. \A n \in Names("copilot") :
          IF n \in Targets("copilot", ds) THEN Rewrites("copilot", n, ds[n], new[n], a, CopilotWay)
          ELSE FileChanged("copilot", n, new[n], ds[n], IF n \in Written("copilot", ds) THEN Events("copilot") ELSE {}, a)
    <3> TAKE n \in Names("copilot")
    <3>1. CASE n = "user" BY <2>1, <2>5, <3>1, CopilotFits
    <3>2. CASE n = "legacy" BY <2>1, <2>3, <3>2, CopilotFits
    <3>3. CASE n \notin {"user", "legacy"} BY <1>4, <2>1, <3>3, CopilotFits
    <3> QED BY <3>1, <3>2, <3>3
  <2> QED BY <1>1, <2>1, <2>6, CopilotFits DEF InstallForm, new
<1>6. UninstallForm("copilot", ds, Copilot!Uninstall(ds, a), a)
  <2> DEFINE new == Copilot!Uninstall(ds, a)
             d == CopilotLess(old, {a})
             left == CopilotLess(ds["legacy"], {a})
  <2>1. /\ new = [n \in CopilotNames |-> new[n]] /\ new["user"] = d /\ new["legacy"] = left
        /\ \A n \in CopilotNames : n \notin {"user", "legacy"} => new[n] = ds[n]
    <3>1. new = [ds EXCEPT !["user"] = d, !["legacy"] = left] BY CopilotOps
    <3> HIDE DEF new, d, left
    <3> QED BY <1>1, <3>1, CopilotTwo
  <2>2. /\ FileLeft("copilot", ds, "user", {a}, d, Events("copilot"), User)
        /\ FileLeft("copilot", ds, "legacy", {a}, left, Events("copilot"), User)
    BY <1>1, CopilotLeft
  <2> HIDE DEF new, d, left
  <2>3. \A n \in Names("copilot") :
          IF n \in Written("copilot", ds) THEN FileLeft("copilot", ds, n, {a}, new[n], Events("copilot"), User)
          ELSE FileChanged("copilot", n, new[n], ds[n], {}, User)
    <3> TAKE n \in Names("copilot")
    <3>1. CASE n \in {"user", "legacy"} BY <2>1, <2>2, <3>1, CopilotFits
    <3>2. CASE n \notin {"user", "legacy"} BY <1>4, <2>1, <3>2, CopilotFits
    <3> QED BY <3>1, <3>2
  <2> QED BY <2>1, <2>3, CopilotFits DEF UninstallForm, new
<1> QED BY <1>5, <1>6

(* The settings decide whether hooks are disabled.                         *)
LEMMA CopilotSettings ==
  ASSUME NEW ds, NEW z,
         \A n \in CopilotNames : n \notin {"user", "legacy"} => z[n] = ds[n]
  PROVE  Copilot!EffectiveDisabledSource(z) <=> Copilot!EffectiveDisabledSource(ds)
<1> DEFINE six == CopilotNames \ {"user", "legacy"}
           l == Copilot!SettingsLayers
           S(x) == {i \in DOMAIN l : ~(OrNew(x[l[i]]).root \cap {"off", "on"} = {})}
           said(x) == Pick(l, S(x))
<1>1. l \in Seq(six) BY DEF Copilot!SettingsLayers, CopilotNames
<1>2. \A x : Copilot!EffectiveDisabledSource(x)
               <=> said(x) # <<>> /\ "off" \in x[said(x)[Len(said(x))]].root
  BY DEF Copilot!EffectiveDisabledSource, Copilot!Without, Copilot!Pick, Pick, Copilot!Kept, Kept,
    Copilot!OrNew, OrNew, Copilot!NewDocument, NewDocument, Copilot!Document, Document
<1>3. \A n \in six : z[n] = ds[n] OBVIOUS
<1> HIDE DEF six, l
<1>4. \A i \in DOMAIN l : l[i] \in six BY <1>1
<1>5. S(z) = S(ds) BY <1>3, <1>4
<1>6. said(z) = said(ds) /\ said(ds) \in Seq(six) BY <1>1, <1>5, PickRange
<1> HIDE DEF said, S
<1> DEFINE p == said(ds)
<1>7. p # <<>> => p[Len(p)] \in six BY <1>6
<1> HIDE DEF p
<1>8. said(z) = p /\ said(ds) = p BY <1>6 DEF p
<1> QED BY <1>2, <1>3, <1>7, <1>8

(* After an installation the host reports it, and another one changes      *)
(* nothing.                                                                *)
LEMMA CopilotRepeats == Repeats("copilot", CopilotWay)
<1> SUFFICES ASSUME NEW ds, WellFormed("copilot", ds), NEW a \in Agents, Copilot!Parses(ds),
                    NEW z, z = Copilot!Install(ds, a), WellFormed("copilot", z),
                    Outcome("copilot", ds, z, a, CopilotWay)
             PROVE  /\ ~Copilot!Disabled(ds) => Takes(PluginOf("copilot", z), a)
                    /\ Copilot!Install(z, a) = z
  BY CopilotFields DEF Repeats
<1> DEFINE old == ds["user"]
           new == z["user"]
           r == OrNew(old).root \cup {"version"}
           left == CopilotLess(ds["legacy"], Agents)
<1>1. /\ DOMAIN ds = CopilotNames /\ "user" \in Names("copilot") /\ "legacy" \in Names("copilot")
      /\ DOMAIN z = CopilotNames /\ {"user", "legacy"} \subseteq CopilotNames
  BY CopilotFits DEF WellFormed, CopilotNames
<1>2. After("copilot", old, new, a, CopilotWay) BY CopilotFits, NewFile
<1>3. /\ new # NoFile /\ OrNew(new) = new /\ new = Document(new.root, new.hooks)
      /\ IsHooks(new.hooks, CopilotWay)
      /\ Renewed(new.hooks, Triple, a, CopilotWay) = new.hooks
  BY <1>2, CopilotFits DEF After
<1>4. /\ z["user"] = CopilotAddition(old, a) /\ z["legacy"] = left
      /\ \A n \in CopilotNames : n \notin {"user", "legacy"} => z[n] = ds[n]
  <2> DEFINE d == CopilotAddition(old, a)
  <2>1. z = [ds EXCEPT !["user"] = d, !["legacy"] = left] BY CopilotOps
  <2>2. /\ z["user"] = d /\ z["legacy"] = left
        /\ \A n \in CopilotNames : n \notin {"user", "legacy"} => z[n] = ds[n]
    <3> HIDE DEF d, left
    <3> QED BY <1>1, <2>1, CopilotTwo
  <2> QED BY <2>2
<1>5. new.root = r
  <2>1. new = Document(r, Renewed(OrNew(old).hooks, Triple, a, CopilotWay)) BY <1>4, CopilotAdded
  <2> QED BY <2>1 DEF Document
<1>6. /\ CopilotLess(left, Agents) = left
      /\ SomeIds(OrNew(left).hooks, Triple, Three) = {}
      /\ left # NoFile => left.root = OrNew(ds["legacy"]).root \cup {"version"}
  BY CopilotLegacy
<1> HIDE DEF left
<1>7. Copilot!Parses(z)
  <2>1. \A n \in CopilotNames : ds[n] # NoFile =>
          IF n \in {"user", "legacy"} THEN Copilot!ParseDocument(ds[n])
          ELSE "malformed" \notin ds[n].root
    BY <1>1 DEF Copilot!Parses
  <2>2. \A n \in {"user", "legacy"} : "malformed" \notin OrNew(ds[n]).root
    BY <1>1, <2>1 DEF Copilot!ParseDocument, OrNew, NewDocument, Document
  <2>3. Copilot!ParseDocument(new) BY <1>5, <2>2 DEF Copilot!ParseDocument
  <2>4. left # NoFile => Copilot!ParseDocument(left) BY <1>6, <2>2 DEF Copilot!ParseDocument
  <2>5. \A n \in CopilotNames : z[n] # NoFile =>
          IF n \in {"user", "legacy"} THEN Copilot!ParseDocument(z[n])
          ELSE "malformed" \notin z[n].root
    <3> HIDE DEF old, r
    <3> TAKE n \in CopilotNames
    <3>1. CASE n = "user" BY <2>3, <3>1
    <3>2. CASE n = "legacy" BY <1>4, <2>4, <3>2
    <3>3. CASE n \notin {"user", "legacy"} BY <1>4, <2>1, <3>3
    <3> QED BY <3>1, <3>2, <3>3
  <2> QED BY <1>1, <2>5 DEF Copilot!Parses
<1>8. Copilot!Install(z, a) = z
  <2>1. CopilotAddition(new, a) = new
    <3>1. CopilotAddition(new, a) = Document(new.root \cup {"version"}, new.hooks)
      BY <1>3, CopilotAdded
    <3>2. new.root \cup {"version"} = new.root BY <1>5
    <3> QED BY <1>3, <3>1, <3>2
  <2>2. Copilot!Install(z, a) = [z EXCEPT !["user"] = new, !["legacy"] = left]
    <3> DEFINE d == CopilotAddition(z["user"], a)
               rest == CopilotLess(z["legacy"], Agents)
    <3>1. Copilot!Install(z, a) = [z EXCEPT !["user"] = d, !["legacy"] = rest]
      BY CopilotOps
    <3>2. d = new /\ rest = left BY <1>4, <1>6, <2>1
    <3> HIDE DEF d, rest
    <3> QED BY <3>1, <3>2
  <2>3. z = [n \in CopilotNames |-> z[n]] BY CopilotFits DEF WellFormed
  <2> QED BY <1>4, <2>2, <2>3
<1>9. ASSUME ~Copilot!Disabled(ds) PROVE Takes(PluginOf("copilot", z), a)
  <2>1. \A x : Copilot!Disabled(x) <=> "off" \in OrNew(x["user"]).root \/ Copilot!EffectiveDisabledSource(x)
    BY DEF Copilot!Disabled, Copilot!OrNew, OrNew, Copilot!NewDocument, NewDocument,
      Copilot!Document, Document
  <2>2. Copilot!EffectiveDisabledSource(z) <=> Copilot!EffectiveDisabledSource(ds)
    BY <1>4, CopilotSettings
  <2>3. ~Copilot!Disabled(z)
    <3>1. "off" \notin OrNew(new).root BY <1>3, <1>5, <1>9, <2>1
    <3> QED BY <1>9, <2>1, <2>2, <3>1
  <2>4. OnlyHandlers(new.hooks, Events("copilot"), Three, a)
    <3>1. Three \in SUBSET Forms /\ "exact" \in Three BY DEF Three, Forms
    <3>2. After("copilot", old, new, a, FlatWay(Three)) /\ Fits("copilot", FlatWay(Three))
      BY <1>2, CopilotFits DEF CopilotWay
    <3> QED BY <3>1, <3>2, HandlersTaken
  <2>5. SomeIds(OrNew(z["user"]).hooks, Triple, Three) = {a}
    BY <1>3, <2>4, CopilotFits DEF OnlyHandlers
  <2>6. Copilot!Contracts(z) = {a}
    <3>1. Copilot!Contracts(z) = SomeIds(OrNew(z["user"]).hooks, Triple, Three)
                                   \cup SomeIds(OrNew(z["legacy"]).hooks, Triple, Three)
      BY CopilotOps
    <3>2. SomeIds(OrNew(z["legacy"]).hooks, Triple, Three) = {} BY <1>4, <1>6
    <3> QED BY <2>5, <3>1, <3>2
  <2> QED BY <1>7, <2>3, <2>6, CopilotFields DEF Takes
<1> QED BY <1>8, <1>9

(* An installation clears the file of earlier versions.                    *)
LEMMA CopilotClears == Clears("copilot")
<1> SUFFICES ASSUME NEW ds, WellFormed("copilot", ds), NEW a \in Agents,
                    NEW e \in Events("copilot"), NEW b \in Agents
             PROVE  ~Knows("copilot", ListAt(Copilot!Install(ds, a), "legacy", e), e, b)
  BY CopilotFields, CopilotFits DEF Clears
<1> DEFINE old == ds["legacy"]
           H == OrNew(old).hooks
           N == CopilotRemoval(H, Agents)
           d == CopilotLess(old, Agents)
<1>1. /\ DOMAIN ds = CopilotNames /\ "legacy" \in Names("copilot")
      /\ {"user", "legacy"} \subseteq CopilotNames
  BY CopilotFits DEF WellFormed, CopilotNames
<1>2. Copilot!Install(ds, a)["legacy"] = d
  <2> DEFINE new == Copilot!Install(ds, a)
             x == CopilotAddition(ds["user"], a)
  <2>1. new = [ds EXCEPT !["user"] = x, !["legacy"] = d] BY CopilotOps
  <2> HIDE DEF new, d, x
  <2> QED BY <1>1, <2>1, CopilotTwo DEF new
<1>3. IsHooks(H, CopilotWay) BY <1>1, CopilotFits, OldFile
<1>4. Purged(N, H, Triple, Agents, CopilotWay) BY <1>3, CopilotLists
<1>5. Looks("copilot", CopilotWay) BY DEF Looks, Recognised, CopilotWay, FlatWay, Three
<1>6. ~Knows("copilot", At(N, e), e, b)
  <2>1. IsWay(CopilotWay) /\ Triple \in SUBSET AllEvents /\ e \in Triple BY CopilotFits DEF Fits
  <2> HIDE DEF N, H
  <2> QED BY <1>3, <1>4, <1>5, <2>1, PurgedKnows
<1>7. OrNew(d).hooks = N \/ DOMAIN OrNew(d).hooks = {}
  <2>1. OrNew(NoFile).hooks = <<>> BY DEF OrNew, NewDocument, Document
  <2>2. DOMAIN <<>> = {} OBVIOUS
  <2>3. CASE old = NoFile
    <3>1. d = NoFile BY <2>3 DEF CopilotLess
    <3> HIDE DEF d
    <3> QED BY <3>1, <2>1, <2>2
  <2>4. CASE old # NoFile
    <3>1. OrNew(old) = old BY <2>4 DEF OrNew
    <3>2. d = Copilot!RenderDocument(old, N) BY <2>4, <3>1 DEF CopilotLess
    <3>3. Document(OrNew(old).root \cup {"version"}, N).hooks = N BY DEF Document
    <3> HIDE DEF d, N, old
    <3>4. d = NoFile \/ d = Document(OrNew(old).root \cup {"version"}, N) BY <3>2, CopilotRender
    <3> QED BY <3>3, <3>4, <2>1, <2>2 DEF OrNew
  <2> QED BY <2>3, <2>4
<1> HIDE DEF d, N, H
<1> QED BY <1>2, <1>6, <1>7, EmptyKnows DEF ListAt

(* Copilot: every installation takes and is steady, every removal clean.   *)
LEMMA CopilotSound == Sound("copilot")
<1>1. Looks("copilot", CopilotWay) BY DEF Looks, Recognised, CopilotWay, FlatWay, Three
<1>2. Clears("copilot") BY CopilotClears
<1> QED BY <1>1, <1>2, CopilotFits, CopilotPerforms, CopilotRepeats, HostSound

-----------------------------------------------------------------------------
(* Kiro CLI.                                                               *)

(* It shares the format of version 3 with Kiro IDE.                        *)
LEMMA KiroCliShared ==
  /\ \A d, N : KiroCli!V3!Render(d, N) = KiroIde!Render(d, N)
  /\ \A N : KiroCli!V3!RuntimeContracts(N) = KiroIde!RuntimeContracts(N)
  /\ \A d : KiroCli!V3!ParseDocument(d) <=> KiroIde!ParseDocument(d)
BY DEF KiroCli!V3!Render, KiroIde!Render, KiroCli!V3!OrNew, KiroIde!OrNew,
  KiroCli!V3!NewDocument, KiroIde!NewDocument, KiroCli!V3!Document, KiroIde!Document,
  KiroCli!V3!EntirelyManaged, KiroIde!EntirelyManaged, KiroCli!V3!Every, KiroIde!Every,
  KiroCli!V3!ManagedReference, KiroIde!ManagedReference, KiroCli!V3!Refers, KiroIde!Refers,
  KiroCli!V3!ScriptOf, KiroIde!ScriptOf, KiroCli!V3!Events, KiroIde!Events,
  KiroCli!V3!RuntimeContracts, KiroIde!RuntimeContracts, KiroCli!V3!Some, KiroIde!Some,
  KiroCli!V3!At, KiroIde!At, KiroCli!V3!ManagedSpecification, KiroIde!ManagedSpecification,
  KiroCli!V3!One, KiroIde!One, KiroCli!V3!ParseDocument, KiroIde!ParseDocument

(* A removal that finds nothing changes nothing.                           *)
LEMMA FlatIdle ==
  ASSUME NEW forms \in SUBSET Forms, "exact" \in forms, NEW H, IsHooks(H, FlatWay(forms)),
         NEW es \in SUBSET AllEvents, NEW ids,
         \A e \in es : \A i \in DOMAIN At(H, e) : ~Refers(At(H, e)[i], e, ids, forms)
  PROVE  Purged(H, H, es, ids, FlatWay(forms))
<1> DEFINE w == FlatWay(forms)
<1>1. IsWay(w) /\ ~w.grouped /\ w.forms = forms /\ Kind(w) = Listed BY FlatIsWay
<1>2. \A e \in es : Clean(At(H, e), e, ids, w) = At(H, e)
  <2> TAKE e \in es
  <2>1. At(H, e) \in Seq(Listed) BY <1>1, AtType DEF w
  <2>2. Clean(At(H, e), e, ids, w) = Unmatched(At(H, e), e, ids, forms) BY <1>1, <2>1, FlatClean
  <2>3. Unmatched(At(H, e), e, ids, forms) = At(H, e) BY PickAll DEF Unmatched
  <2> QED BY <2>2, <2>3
<1> QED BY <1>2 DEF Purged

(* A removal that finds all leaves nothing.                                *)
LEMMA FlatGone ==
  ASSUME NEW forms \in SUBSET Forms, "exact" \in forms, NEW H, IsHooks(H, FlatWay(forms)),
         NEW es \in SUBSET AllEvents, NEW ids, DOMAIN H \subseteq es,
         \A e \in DOMAIN H : \A i \in DOMAIN H[e] : Refers(H[e][i], e, ids, forms)
  PROVE  DOMAIN FlatRemoval(H, es, ids, forms) = {}
<1> DEFINE w == FlatWay(forms)
           lists == [e \in es |-> Unmatched(At(H, e), e, ids, forms)]
<1>1. Kind(w) = Listed BY FlatIsWay
<1>2. \A e \in es : lists[e] = <<>>
  <2> TAKE e \in es
  <2> DEFINE M == Unmatched(At(H, e), e, ids, forms)
             l == At(H, e)
             S == {n \in DOMAIN l : ~Refers(l[n], e, ids, forms)}
  <2>1. l \in Seq(Listed) BY <1>1, AtType DEF w
  <2>2. \A i \in DOMAIN l : Refers(l[i], e, ids, forms)
    <3>1. CASE e \in DOMAIN H BY <3>1 DEF At
    <3>2. CASE e \notin DOMAIN H
      <4>1. l = <<>> BY <3>2 DEF At
      <4> HIDE DEF l
      <4> QED BY <4>1
    <3> QED BY <3>1, <3>2
  <2>3. M = Pick(l, S) BY DEF Unmatched
  <2>4. S = {} BY <2>2
  <2> HIDE DEF M, l, S
  <2>5. M \in Seq(Listed) /\ \A k \in DOMAIN M : \E j \in DOMAIN l : j \in S /\ M[k] = l[j]
    BY <2>1, <2>3, PickRange
  <2>6. DOMAIN M = {} BY <2>4, <2>5
  <2>7. M = <<>> BY <2>5, <2>6
  <2> QED BY <2>7 DEF M, l
<1>3. DOMAIN lists = es OBVIOUS
<1>4. FlatRemoval(H, es, ids, forms) = PutOrDrop(H, lists) BY DEF FlatRemoval
<1> HIDE DEF lists
<1> QED BY <1>2, <1>3, <1>4 DEF PutOrDrop, Drop, Over

KiroCliRemoval(H, ids) == FlatRemoval(H, Pair, ids, Forms)

KiroCliHooks(H, a) == FlatAddition(KiroCliRemoval(H, Agents), Pair, a)

KiroCliV2(doc, a) == Document(OrNew(doc).root \cup {"meta"}, KiroCliHooks(OrNew(doc).hooks, a))

KiroCliV3(doc, a) == KiroIde!Render(doc, KiroCliHooks(OrNew(doc).hooks, a))

(* The operators of the plugin, in the terms used here.                    *)
LEMMA KiroCliOps ==
  ASSUME NEW ds, NEW a
  PROVE  /\ KiroCli!Install(ds, a) =
              [ds EXCEPT !["v2"] = KiroCliV2(ds["v2"], a), !["v3"] = KiroCliV3(ds["v3"], a)]
         /\ KiroCli!Uninstall(ds, a) =
              [ds EXCEPT !["v2"] = KiroCli!RenderV2Uninstall(ds["v2"], {a}),
                         !["v3"] = KiroCli!RenderV3Uninstall(ds["v3"], {a})]
         /\ \A H, ids : KiroCli!WithoutManaged(H, ids) = KiroCliRemoval(H, ids)
<1>1. \A d : KiroCli!OrNew(d) = OrNew(d)
  BY DEF KiroCli!OrNew, OrNew, KiroCli!NewDocument, NewDocument, KiroCli!Document, Document
<1>2. \A H, ids : KiroCli!WithoutManaged(H, ids) = KiroCliRemoval(H, ids)
  BY DEF KiroCli!WithoutManaged, KiroCliRemoval, FlatRemoval, KiroCli!PutOrDrop, PutOrDrop,
    KiroCli!Drop, Drop, KiroCli!Over, Over, KiroCli!Without, Unmatched, KiroCli!Pick, Pick,
    KiroCli!Kept, Kept, KiroCli!At, At, KiroCli!OwnedReference, KiroCli!Refers, Refers,
    KiroCli!ScriptOf, ScriptOf, KiroCli!Events, KiroCli!V3!Events, Pair, KiroCli!Forms, Forms
<1>3. \A N : KiroCli!Append1(N, KiroCli!Events, LAMBDA e : KiroCli!Handler(a, e))
               = FlatAddition(N, Pair, a)
  BY DEF KiroCli!Append1, FlatAddition, KiroCli!Over, Over, KiroCli!At, At, KiroCli!Handler,
    Handler, KiroCli!ScriptOf, ScriptOf, KiroCli!Events, KiroCli!V3!Events, Pair
<1>4. \A H : KiroCli!WithHooks(H, a) = KiroCliHooks(H, a)
  BY <1>2, <1>3 DEF KiroCli!WithHooks, KiroCliHooks
<1>5. \A d : KiroCli!RenderV2Installation(d, a) = KiroCliV2(d, a)
  BY <1>1, <1>4 DEF KiroCli!RenderV2Installation, KiroCliV2, KiroCli!Document, Document
<1>6. \A d : KiroCli!V3!Render(d, KiroCli!WithHooks(KiroCli!OrNew(d).hooks, a)) = KiroCliV3(d, a)
  BY <1>1, <1>4, KiroCliShared DEF KiroCliV3
<1>7. KiroCli!Install(ds, a) =
        [ds EXCEPT !["v2"] = KiroCliV2(ds["v2"], a), !["v3"] = KiroCliV3(ds["v3"], a)]
  BY <1>5, <1>6 DEF KiroCli!Install
<1>8. KiroCli!Uninstall(ds, a) =
        [ds EXCEPT !["v2"] = KiroCli!RenderV2Uninstall(ds["v2"], {a}),
                   !["v3"] = KiroCli!RenderV3Uninstall(ds["v3"], {a})]
  BY DEF KiroCli!Uninstall
<1> QED BY <1>2, <1>7, <1>8

KiroCliWay == FlatWay(Forms)

(* Which files, events and elements the host has.                          *)
LEMMA KiroCliFits ==
  /\ Fits("kirocli", KiroCliWay) /\ Events("kirocli") = Pair
  /\ Names("kirocli") = {"v2", "v3"} /\ Elements("kirocli") = Listed
  /\ \A n, d : Contained("kirocli", n, d)
  /\ \A ds : Written("kirocli", ds) = {"v2", "v3"} /\ Targets("kirocli", ds) = {"v2", "v3"}
<1>1. Forms \in SUBSET Forms /\ "exact" \in Forms BY DEF Forms
<1>2. IsWay(KiroCliWay) /\ Kind(KiroCliWay) = Listed BY <1>1, FlatIsWay DEF KiroCliWay
<1>3. Elements("kirocli") = Listed BY DEF Elements
<1>4. Events("kirocli") = Pair BY DEF Events, Pair
<1>5. Events("kirocli") \in SUBSET AllEvents /\ Events("kirocli") # {} BY <1>4 DEF Pair, AllEvents
<1>6. Names("kirocli") = {"v2", "v3"} BY DEF Names
<1>7. \A n, d : Contained("kirocli", n, d) BY DEF Contained, HasSettings
<1>8. \A ds : Written("kirocli", ds) = {"v2", "v3"} BY DEF Written
<1>9. \A ds : Targets("kirocli", ds) = Written("kirocli", ds) BY DEF Targets
<1> QED BY <1>2, <1>3, <1>4, <1>5, <1>6, <1>7, <1>8, <1>9 DEF Fits

(* What the plugin says of a set of documents, by its operators.           *)
LEMMA KiroCliFields ==
  \A ds : /\ PluginOf("kirocli", ds).parses <=> KiroCli!Parses(ds)
          /\ PluginOf("kirocli", ds).refused <=> KiroCli!Disabled(ds)
          /\ PluginOf("kirocli", ds).enabled <=> ~KiroCli!Disabled(ds)
          /\ PluginOf("kirocli", ds).contracts = KiroCli!Contracts(ds)
          /\ "whole" \in PluginOf("kirocli", ds).files
          /\ \A a \in Agents : /\ PluginOf("kirocli", ds).install[a] = KiroCli!Install(ds, a)
                               /\ PluginOf("kirocli", ds).uninstall[a] = KiroCli!Uninstall(ds, a)
<1> TAKE ds
<1>1. PluginOf("kirocli", ds) = KiroCli!Plugin(ds) BY DEF PluginOf
<1> DEFINE off == KiroCli!Disabled(ds)
           on == ~off
<1>2. KiroCli!Plugin(ds).refused = off /\ KiroCli!Plugin(ds).enabled = on
  BY DEF KiroCli!Plugin
<1>3. on \in BOOLEAN /\ off \in BOOLEAN BY DEF KiroCli!Disabled, KiroCli!V2Conflict, KiroCli!V3Taken
<1>4. on <=> ~off OBVIOUS
<1> HIDE DEF on, off
<1>5. /\ KiroCli!Plugin(ds).parses <=> KiroCli!Parses(ds)
      /\ KiroCli!Plugin(ds).contracts = KiroCli!Contracts(ds)
      /\ "whole" \in KiroCli!Plugin(ds).files
      /\ \A a \in Agents : /\ KiroCli!Plugin(ds).install[a] = KiroCli!Install(ds, a)
                           /\ KiroCli!Plugin(ds).uninstall[a] = KiroCli!Uninstall(ds, a)
  BY DEF KiroCli!Plugin, KiroCli!RuntimeFiles
<1>6. (KiroCli!Plugin(ds).refused <=> off) /\ (KiroCli!Plugin(ds).enabled <=> ~off)
  BY <1>2, <1>3, <1>4
<1> QED BY <1>1, <1>5, <1>6 DEF off

(* The plugin's removal and addition are those of its way.                 *)
LEMMA KiroCliLists ==
  ASSUME NEW H, IsHooks(H, KiroCliWay)
  PROVE  /\ \A ids : Purged(KiroCliRemoval(H, ids), H, Pair, ids, KiroCliWay)
         /\ \A a : KiroCliHooks(H, a) = Renewed(H, Pair, a, KiroCliWay)
<1>1. Forms \in SUBSET Forms /\ "exact" \in Forms BY DEF Forms
<1>2. Pair \in SUBSET AllEvents BY DEF Pair, AllEvents
<1>3. \A ids : Purged(FlatRemoval(H, Pair, ids, Forms), H, Pair, ids, KiroCliWay)
  BY <1>1, <1>2, FlatPurged DEF KiroCliWay
<1>4. \A a : FlatAddition(FlatRemoval(H, Pair, Agents, Forms), Pair, a) = Renewed(H, Pair, a, KiroCliWay)
  BY <1>1, <1>2, FlatRenewed DEF KiroCliWay
<1> QED BY <1>3, <1>4 DEF KiroCliRemoval, KiroCliHooks

(* What an installation writes.                                            *)
LEMMA KiroCliAdded ==
  ASSUME NEW ds, WellFormed("kirocli", ds), KiroCli!Parses(ds), NEW a \in Agents
  PROVE  /\ KiroCliV2(ds["v2"], a)
              = Document(OrNew(ds["v2"]).root \cup {"meta"},
                         Renewed(OrNew(ds["v2"]).hooks, Pair, a, KiroCliWay))
         /\ KiroCliV3(ds["v3"], a)
              = Document(OrNew(ds["v3"]).root \cup {"version"},
                         Renewed(OrNew(ds["v3"]).hooks, Pair, a, KiroCliWay))
<1>1. "v2" \in Names("kirocli") /\ "v3" \in Names("kirocli") BY KiroCliFits
<1>2. \A n \in Names("kirocli") : IsHooks(OrNew(ds[n]).hooks, KiroCliWay) BY KiroCliFits, OldFile
<1>3. \A n \in Names("kirocli") :
        KiroCliHooks(OrNew(ds[n]).hooks, a) = Renewed(OrNew(ds[n]).hooks, Pair, a, KiroCliWay)
  BY <1>2, KiroCliLists
<1>4. KiroCliV2(ds["v2"], a)
        = Document(OrNew(ds["v2"]).root \cup {"meta"}, Renewed(OrNew(ds["v2"]).hooks, Pair, a, KiroCliWay))
  BY <1>1, <1>3 DEF KiroCliV2
<1> DEFINE old == ds["v3"]
           N == Renewed(OrNew(old).hooks, Pair, a, KiroCliWay)
<1>5. KiroCliV3(old, a) = KiroIde!Render(old, N) BY <1>1, <1>3 DEF KiroCliV3
<1>6. DOMAIN N # {} BY DEF Renewed, Pair
<1>7. old # NoFile => IsDocument(old, Listed) /\ "version" \in old.root
  BY <1>1, KiroCliFits, KiroCliShared DEF WellFormed, KiroCli!Parses, KiroIde!ParseDocument
<1> HIDE DEF old, N
<1>8. KiroCliV3(old, a) = Document(OrNew(old).root \cup {"version"}, N)
  BY <1>5, <1>6, <1>7, KiroIdeRender
<1> QED BY <1>4, <1>8 DEF old, N

\* A handler of one of the agents stands in the file.
KiroCliOwns(H, ids) ==
  \E e \in Pair : \E i \in DOMAIN At(H, e) : Refers(At(H, e)[i], e, ids, Forms)

(* What a removal leaves of a file.                                        *)
LEMMA KiroCliLeft ==
  ASSUME NEW ds, WellFormed("kirocli", ds), NEW n \in Names("kirocli"), NEW a \in Agents, NEW d,
         NEW r \in SUBSET Fields, OrNew(ds[n]).root \ Plain \subseteq r,
         \/ d = ds[n] /\ ~KiroCliOwns(OrNew(ds[n]).hooks, {a})
         \/ d = Document(r, KiroCliRemoval(OrNew(ds[n]).hooks, {a}))
         \/ /\ d = NoFile /\ DOMAIN KiroCliRemoval(OrNew(ds[n]).hooks, {a}) = {}
            /\ OrNew(ds[n]).root \subseteq Plain
  PROVE  FileLeft("kirocli", ds, n, {a}, d, Events("kirocli"), User)
<1> DEFINE old == ds[n]
           H == OrNew(old).hooks
           N == KiroCliRemoval(H, {a})
<1>1. /\ IsHooks(H, KiroCliWay) /\ OrNew(old).root \in SUBSET Fields
      /\ old = NoFile => OrNew(old).root = {} /\ H = <<>>
      /\ old # NoFile => OrNew(old) = old
  BY KiroCliFits, OldFile
<1>2. Purged(N, H, Events("kirocli"), {a}, KiroCliWay) BY <1>1, KiroCliLists, KiroCliFits
<1>3. CASE d = old /\ ~KiroCliOwns(H, {a})
  <2>1. Forms \in SUBSET Forms /\ "exact" \in Forms /\ Pair \in SUBSET AllEvents
    BY DEF Forms, Pair, AllEvents
  <2>2. \A e \in Pair : \A i \in DOMAIN At(H, e) : ~Refers(At(H, e)[i], e, {a}, Forms)
    BY <1>3 DEF KiroCliOwns
  <2>3. Purged(H, H, Events("kirocli"), {a}, KiroCliWay)
    <3> HIDE DEF H
    <3> QED BY <1>1, <2>1, <2>2, FlatIdle, KiroCliFits DEF KiroCliWay
  <2>4. \/ d = Document(OrNew(old).root, H) /\ Contained("kirocli", n, d)
        \/ d = NoFile /\ DOMAIN H = {} /\ OrNew(old).root \subseteq Plain
    <3>1. CASE old = NoFile
      <4>1. DOMAIN <<>> = {} OBVIOUS
      <4> QED BY <1>1, <1>3, <3>1, <4>1
    <3>2. CASE old # NoFile
      <4>1. IsDocument(old, Elements("kirocli")) BY <3>2 DEF WellFormed
      <4>2. old = Document(old.root, old.hooks) BY <4>1, Whole
      <4> QED BY <1>1, <1>3, <3>2, <4>2, KiroCliFits
    <3> QED BY <3>1, <3>2
  <2> QED BY <1>1, <2>3, <2>4, KiroCliFits, FileRemoval DEF Fits
<1>4. CASE \/ d = Document(r, N)
           \/ d = NoFile /\ DOMAIN N = {} /\ OrNew(old).root \subseteq Plain
  BY <1>2, <1>4, KiroCliFits, FileRemoval DEF Fits
<1> QED BY <1>3, <1>4

(* A removal from the agent file of version 2.                             *)
LEMMA KiroCliV2Left ==
  ASSUME NEW ds, WellFormed("kirocli", ds), NEW a \in Agents
  PROVE  FileLeft("kirocli", ds, "v2", {a}, KiroCli!RenderV2Uninstall(ds["v2"], {a}),
                  Events("kirocli"), User)
<1> DEFINE old == ds["v2"]
           H == OrNew(old).hooks
           N == KiroCliRemoval(H, {a})
           d == KiroCli!RenderV2Uninstall(old, {a})
           r == OrNew(old).root
<1>1. "v2" \in Names("kirocli") BY KiroCliFits
<1>2. /\ IsHooks(H, KiroCliWay) /\ r \in SUBSET Fields
      /\ old = NoFile => OrNew(old).root = {} /\ H = <<>>
      /\ old # NoFile => OrNew(old) = old
  BY <1>1, KiroCliFits, OldFile
<1>3. KiroCli!HasOwnedHooks(old, {a}) <=> KiroCliOwns(H, {a})
  BY DEF KiroCli!HasOwnedHooks, KiroCliOwns, KiroCli!Some, KiroCli!At, At, KiroCli!OrNew, OrNew,
    KiroCli!NewDocument, NewDocument, KiroCli!Document, Document, KiroCli!OwnedReference,
    KiroCli!Refers, Refers, KiroCli!ScriptOf, ScriptOf, KiroCli!Events, KiroCli!V3!Events, Pair,
    KiroCli!Forms, Forms
<1>4. CASE ~KiroCliOwns(H, {a})
  <2>1. d = old BY <1>3, <1>4 DEF KiroCli!RenderV2Uninstall
  <2> HIDE DEF d
  <2>2. FileLeft("kirocli", ds, "v2", {a}, d, Events("kirocli"), User)
    BY <1>1, <1>2, <1>4, <2>1, KiroCliLeft
  <2> QED BY <2>2 DEF d
<1>5. CASE KiroCliOwns(H, {a})
  <2>1. old # NoFile
    <3> SUFFICES ASSUME old = NoFile PROVE FALSE OBVIOUS
    <3>1. H = <<>> BY <1>2
    <3>2. \A e : At(<<>>, e) = <<>> BY NewHooks
    <3>3. DOMAIN <<>> = {} OBVIOUS
    <3> HIDE DEF H
    <3> QED BY <1>5, <3>1, <3>2, <3>3 DEF KiroCliOwns
  <2>2. CASE KiroCli!EntirelyManagedV2(old, {a})
    <3>1. d = NoFile BY <1>3, <1>5, <2>2 DEF KiroCli!RenderV2Uninstall
    <3>2. /\ old.root = {"meta"} /\ DOMAIN old.hooks = Pair
          /\ \A e \in Pair : /\ \E x \in DOMAIN old.hooks[e] : DOMAIN old.hooks[e] = {x}
                             /\ Refers(old.hooks[e][1], e, {a}, Forms)
      BY <2>2 DEF KiroCli!EntirelyManagedV2, KiroCli!One, KiroCli!OwnedReference, KiroCli!Refers,
        Refers, KiroCli!ScriptOf, ScriptOf, KiroCli!Events, KiroCli!V3!Events, Pair,
        KiroCli!Forms, Forms
    <3>3. H = old.hooks BY <1>2, <2>1
    <3>4. \A e \in DOMAIN H : \A i \in DOMAIN H[e] : Refers(H[e][i], e, {a}, Forms)
      <4> TAKE e \in DOMAIN H
      <4>0. Forms \in SUBSET Forms /\ "exact" \in Forms BY DEF Forms
      <4>1. H[e] \in Seq(Listed) BY <1>2, <4>0, FlatIsWay DEF IsHooks, KiroCliWay
      <4>2. \A i \in DOMAIN H[e] : i = 1 BY <3>2, <3>3, <4>1
      <4> QED BY <3>2, <3>3, <4>2
    <3>5. DOMAIN N = {}
      <4>1. Forms \in SUBSET Forms /\ "exact" \in Forms /\ Pair \in SUBSET AllEvents
        BY DEF Forms, Pair, AllEvents
      <4>2. DOMAIN H \subseteq Pair BY <3>2, <3>3
      <4> HIDE DEF H
      <4> QED BY <1>2, <3>4, <4>1, <4>2, FlatGone DEF KiroCliRemoval, KiroCliWay
    <3>6. r \subseteq Plain BY <1>2, <2>1, <3>2 DEF Plain
    <3>7. FileLeft("kirocli", ds, "v2", {a}, NoFile, Events("kirocli"), User)
      <4> HIDE DEF N
      <4> QED BY <1>1, <1>2, <3>5, <3>6, KiroCliLeft DEF N
    <3> QED BY <3>1, <3>7
  <2>3. CASE ~KiroCli!EntirelyManagedV2(old, {a})
    <3>1. d = Document(old.root, KiroCliRemoval(old.hooks, {a}))
      BY <1>3, <1>5, <2>3, KiroCliOps DEF KiroCli!RenderV2Uninstall, KiroCli!Document, Document
    <3>2. d = Document(r, N) BY <1>2, <2>1, <3>1
    <3> HIDE DEF d
    <3>3. FileLeft("kirocli", ds, "v2", {a}, d, Events("kirocli"), User)
      BY <1>1, <1>2, <3>2, KiroCliLeft
    <3> QED BY <3>3 DEF d
  <2> QED BY <2>2, <2>3
<1> QED BY <1>4, <1>5

(* A removal from the hook file of version 3.                              *)
LEMMA KiroCliV3Left ==
  ASSUME NEW ds, WellFormed("kirocli", ds), KiroCli!Parses(ds), NEW a \in Agents
  PROVE  FileLeft("kirocli", ds, "v3", {a}, KiroCli!RenderV3Uninstall(ds["v3"], {a}),
                  Events("kirocli"), User)
<1> DEFINE old == ds["v3"]
           H == OrNew(old).hooks
           N == KiroCliRemoval(H, {a})
           d == KiroCli!RenderV3Uninstall(old, {a})
           r == OrNew(old).root \cup {"version"}
<1>1. "v3" \in Names("kirocli") BY KiroCliFits
<1>2. /\ IsHooks(H, KiroCliWay) /\ r \in SUBSET Fields
      /\ OrNew(old).root \ Plain \subseteq r
      /\ old = NoFile => OrNew(old).root = {} /\ H = <<>>
      /\ old # NoFile => OrNew(old) = old
  <2>1. /\ IsHooks(H, KiroCliWay) /\ OrNew(old).root \in SUBSET Fields
        /\ old = NoFile => OrNew(old).root = {} /\ H = <<>>
        /\ old # NoFile => OrNew(old) = old
    BY <1>1, KiroCliFits, OldFile
  <2> QED BY <2>1 DEF Fields
<1>3. KiroCli!HasOwnedHooks(old, {a}) <=> KiroCliOwns(H, {a})
  BY DEF KiroCli!HasOwnedHooks, KiroCliOwns, KiroCli!Some, KiroCli!At, At, KiroCli!OrNew, OrNew,
    KiroCli!NewDocument, NewDocument, KiroCli!Document, Document, KiroCli!OwnedReference,
    KiroCli!Refers, Refers, KiroCli!ScriptOf, ScriptOf, KiroCli!Events, KiroCli!V3!Events, Pair,
    KiroCli!Forms, Forms
<1>4. CASE ~KiroCliOwns(H, {a})
  <2>1. d = old BY <1>3, <1>4 DEF KiroCli!RenderV3Uninstall
  <2> HIDE DEF d
  <2>2. FileLeft("kirocli", ds, "v3", {a}, d, Events("kirocli"), User)
    BY <1>1, <1>2, <1>4, <2>1, KiroCliLeft
  <2> QED BY <2>2 DEF d
<1>5. CASE KiroCliOwns(H, {a})
  <2>1. old # NoFile
    <3> SUFFICES ASSUME old = NoFile PROVE FALSE OBVIOUS
    <3>1. H = <<>> BY <1>2
    <3>2. \A e : At(<<>>, e) = <<>> BY NewHooks
    <3>3. DOMAIN <<>> = {} OBVIOUS
    <3> HIDE DEF H
    <3> QED BY <1>5, <3>1, <3>2, <3>3 DEF KiroCliOwns
  <2>2. CASE KiroCli!EntirelyManagedV3(old, {a})
    <3>1. d = NoFile BY <1>3, <1>5, <2>2 DEF KiroCli!RenderV3Uninstall
    <3>2. /\ old.root = {"version"} /\ DOMAIN old.hooks \subseteq Pair
          /\ \A e \in DOMAIN old.hooks : \A i \in DOMAIN old.hooks[e] :
               Refers(old.hooks[e][i], e, {a}, Forms)
      BY <2>2 DEF KiroCli!EntirelyManagedV3, KiroCli!Every, KiroCli!OwnedReference, KiroCli!Refers,
        Refers, KiroCli!ScriptOf, ScriptOf, KiroCli!Events, KiroCli!V3!Events, Pair,
        KiroCli!Forms, Forms
    <3>3. H = old.hooks BY <1>2, <2>1
    <3>4. \A e \in DOMAIN H : \A i \in DOMAIN H[e] : Refers(H[e][i], e, {a}, Forms)
      BY <3>2, <3>3
    <3>5. DOMAIN N = {}
      <4>1. Forms \in SUBSET Forms /\ "exact" \in Forms /\ Pair \in SUBSET AllEvents
        BY DEF Forms, Pair, AllEvents
      <4>2. DOMAIN H \subseteq Pair BY <3>2, <3>3
      <4> HIDE DEF H
      <4> QED BY <1>2, <3>4, <4>1, <4>2, FlatGone DEF KiroCliRemoval, KiroCliWay
    <3>6. OrNew(old).root \subseteq Plain BY <1>2, <2>1, <3>2 DEF Plain
    <3>7. FileLeft("kirocli", ds, "v3", {a}, NoFile, Events("kirocli"), User)
      <4> HIDE DEF N, r
      <4> QED BY <1>1, <1>2, <3>5, <3>6, KiroCliLeft DEF N
    <3> QED BY <3>1, <3>7
  <2>3. CASE ~KiroCli!EntirelyManagedV3(old, {a})
    <3>1. d = KiroIde!Render(old, KiroCliRemoval(old.hooks, {a}))
      BY <1>3, <1>5, <2>3, KiroCliOps, KiroCliShared DEF KiroCli!RenderV3Uninstall
    <3>2. d = KiroIde!Render(old, N) BY <1>2, <2>1, <3>1
    <3>3. old # NoFile => IsDocument(old, Listed) /\ "version" \in old.root
      BY <1>1, KiroCliFits, KiroCliShared DEF WellFormed, KiroCli!Parses, KiroIde!ParseDocument
    <3> HIDE DEF d
    <3>4. \/ d = Document(r, N)
          \/ d = NoFile /\ DOMAIN N = {} /\ OrNew(old).root \subseteq Plain
      <4> HIDE DEF old, N
      <4> QED BY <3>2, <3>3, KiroIdeRender DEF r, Plain
    <3>5. FileLeft("kirocli", ds, "v3", {a}, d, Events("kirocli"), User)
      <4> HIDE DEF r
      <4> QED BY <1>1, <1>2, <3>4, KiroCliLeft
    <3> QED BY <3>5 DEF d
  <2> QED BY <2>2, <2>3
<1> QED BY <1>4, <1>5

(* Its commands have the form of an installation and of a removal.         *)
LEMMA KiroCliPerforms == Performs("kirocli", KiroCliWay)
<1> SUFFICES ASSUME NEW ds, WellFormed("kirocli", ds), NEW a \in Agents, KiroCli!Parses(ds)
             PROVE  /\ InstallForm("kirocli", ds, KiroCli!Install(ds, a), a, KiroCliWay)
                    /\ UninstallForm("kirocli", ds, KiroCli!Uninstall(ds, a), a)
  BY KiroCliFields DEF Performs
<1>1. DOMAIN ds = {"v2", "v3"} /\ "v2" \in Names("kirocli") /\ "v3" \in Names("kirocli")
  BY KiroCliFits DEF WellFormed
<1>2. \A n \in Names("kirocli") : OrNew(ds[n]).root \in SUBSET Fields BY KiroCliFits, OldFile
<1>3. InstallForm("kirocli", ds, KiroCli!Install(ds, a), a, KiroCliWay)
  <2> DEFINE new == KiroCli!Install(ds, a)
             d2 == KiroCliV2(ds["v2"], a)
             d3 == KiroCliV3(ds["v3"], a)
             r2 == OrNew(ds["v2"]).root \cup {"meta"}
             r3 == OrNew(ds["v3"]).root \cup {"version"}
  <2>1. new = [n \in {"v2", "v3"} |-> new[n]] /\ new["v2"] = d2 /\ new["v3"] = d3
    <3>1. new = [ds EXCEPT !["v2"] = d2, !["v3"] = d3] BY KiroCliOps
    <3> HIDE DEF new, d2, d3
    <3> QED BY <1>1, <3>1, TwoFiles
  <2>2. d2 = Document(r2, Renewed(OrNew(ds["v2"]).hooks, Pair, a, KiroCliWay)) BY KiroCliAdded
  <2>3. d3 = Document(r3, Renewed(OrNew(ds["v3"]).hooks, Pair, a, KiroCliWay)) BY KiroCliAdded
  <2>4. r2 \in SUBSET Fields /\ r3 \in SUBSET Fields BY <1>1, <1>2 DEF Fields
  <2>5. OrNew(ds["v2"]).root \ Plain \subseteq r2 /\ OrNew(ds["v3"]).root \ Plain \subseteq r3
    OBVIOUS
  <2> HIDE DEF new, d2, d3, r2, r3
  <2>6. d2.root = r2 /\ d3.root = r3 BY <2>2, <2>3 DEF Document
  <2>7. Rewrites("kirocli", "v2", ds["v2"], d2, a, KiroCliWay)
    BY <2>2, <2>4, <2>5, <2>6, KiroCliFits DEF Rewrites
  <2>8. Rewrites("kirocli", "v3", ds["v3"], d3, a, KiroCliWay)
    BY <2>3, <2>4, <2>5, <2>6, KiroCliFits DEF Rewrites
  <2>9. \A n \in Names("kirocli") :
          IF n \in Targets("kirocli", ds) THEN Rewrites("kirocli", n, ds[n], new[n], a, KiroCliWay)
          ELSE FileChanged("kirocli", n, new[n], ds[n], IF n \in Written("kirocli", ds) THEN Events("kirocli") ELSE {}, a)
    BY <2>1, <2>7, <2>8, KiroCliFits
  <2> QED BY <2>1, <2>9, KiroCliFits DEF InstallForm, new
<1>4. UninstallForm("kirocli", ds, KiroCli!Uninstall(ds, a), a)
  <2> DEFINE new == KiroCli!Uninstall(ds, a)
             d2 == KiroCli!RenderV2Uninstall(ds["v2"], {a})
             d3 == KiroCli!RenderV3Uninstall(ds["v3"], {a})
  <2>1. new = [n \in {"v2", "v3"} |-> new[n]] /\ new["v2"] = d2 /\ new["v3"] = d3
    <3>1. new = [ds EXCEPT !["v2"] = d2, !["v3"] = d3] BY KiroCliOps
    <3> HIDE DEF new, d2, d3
    <3> QED BY <1>1, <3>1, TwoFiles
  <2>2. /\ FileLeft("kirocli", ds, "v2", {a}, d2, Events("kirocli"), User)
        /\ FileLeft("kirocli", ds, "v3", {a}, d3, Events("kirocli"), User)
    BY KiroCliV2Left, KiroCliV3Left
  <2> HIDE DEF new, d2, d3
  <2>3. \A n \in Names("kirocli") :
          IF n \in Written("kirocli", ds) THEN FileLeft("kirocli", ds, n, {a}, new[n], Events("kirocli"), User)
          ELSE FileChanged("kirocli", n, new[n], ds[n], {}, User)
    BY <2>1, <2>2, KiroCliFits
  <2> QED BY <2>1, <2>3, KiroCliFits DEF UninstallForm, new
<1> QED BY <1>3, <1>4

(* The agents version 2 runs after an installation.                        *)
LEMMA KiroCliFound ==
  ASSUME NEW N, NEW a \in Agents,
         \A e \in Pair : /\ Len(At(N, e)) \in DOMAIN At(N, e)
                         /\ At(N, e)[Len(At(N, e))] = Handler(a, e)
                         /\ \A i \in DOMAIN At(N, e) : \A ids \in SUBSET Agents : \A g \in SUBSET Forms :
                              Refers(At(N, e)[i], e, ids, g) => i = Len(At(N, e))
  PROVE  KiroCli!V2RuntimeContracts(N) = {a}
<1> DEFINE managed(e) == {i \in DOMAIN At(N, e) : Refers(At(N, e)[i], e, Agents, {"exact", "moved"})}
           bad == \/ \E e \in Pair : \E i \in DOMAIN At(N, e) :
                        /\ Refers(At(N, e)[i], e, Agents, Forms)
                        /\ ~Refers(At(N, e)[i], e, Agents, {"exact", "moved"})
                  \/ \E e \in Pair : ~One(managed(e))
           ids == {b \in Agents : \A e \in Pair : \E i \in managed(e) : At(N, e)[i].owner = b}
<1>1. KiroCli!V2RuntimeContracts(N) = IF bad THEN {} ELSE ids
  BY DEF KiroCli!V2RuntimeContracts, KiroCli!Some, KiroCli!At, At, KiroCli!OwnedReference,
    KiroCli!ManagedReference, KiroCli!Refers, Refers, KiroCli!ScriptOf, ScriptOf, KiroCli!Events,
    KiroCli!V3!Events, Pair, KiroCli!Forms, Forms, KiroCli!One, One
<1>2. \A e : Refers(Handler(a, e), e, Agents, {"exact", "moved"}) /\ Handler(a, e).owner = a
  BY DEF Refers, Handler
<1>3. {"exact", "moved"} \in SUBSET Forms /\ Agents \in SUBSET Agents /\ Forms \in SUBSET Forms
  BY DEF Forms
<1>4. \A e \in Pair : managed(e) = {Len(At(N, e))} BY <1>2, <1>3
<1>5. \A e \in Pair : One(managed(e)) BY <1>4 DEF One
<1>6. \A e \in Pair : \A i \in DOMAIN At(N, e) : Refers(At(N, e)[i], e, Agents, Forms) =>
         Refers(At(N, e)[i], e, Agents, {"exact", "moved"})
  BY <1>2, <1>3
<1>7. ~bad BY <1>5, <1>6
<1>8. \A e \in Pair : \A b : (\E i \in managed(e) : At(N, e)[i].owner = b) <=> b = a BY <1>2, <1>4
<1> HIDE DEF managed, bad
<1>9. ids = {a}
  <2>1. "pre" \in Pair BY DEF Pair
  <2> QED BY <1>8, <2>1
<1> QED BY <1>1, <1>7, <1>9

(* After an installation the host reports it, and another one changes      *)
(* nothing.                                                                *)
LEMMA KiroCliRepeats == Repeats("kirocli", KiroCliWay)
<1> SUFFICES ASSUME NEW ds, WellFormed("kirocli", ds), NEW a \in Agents, KiroCli!Parses(ds),
                    NEW z, z = KiroCli!Install(ds, a), WellFormed("kirocli", z),
                    Outcome("kirocli", ds, z, a, KiroCliWay)
             PROVE  /\ ~KiroCli!Disabled(ds) => Takes(PluginOf("kirocli", z), a)
                    /\ KiroCli!Install(z, a) = z
  BY KiroCliFields DEF Repeats
<1> DEFINE H(n) == OrNew(ds[n]).hooks
           r2 == OrNew(ds["v2"]).root \cup {"meta"}
           r3 == OrNew(ds["v3"]).root \cup {"version"}
           N2 == z["v2"].hooks
           N3 == z["v3"].hooks
<1>1. /\ DOMAIN ds = {"v2", "v3"} /\ "v2" \in Names("kirocli") /\ "v3" \in Names("kirocli")
      /\ DOMAIN z = {"v2", "v3"}
  BY KiroCliFits DEF WellFormed
<1>2. \A n \in {"v2", "v3"} : After("kirocli", ds[n], z[n], a, KiroCliWay) BY KiroCliFits, NewFile
<1>3. \A n \in {"v2", "v3"} :
        /\ z[n] # NoFile /\ OrNew(z[n]) = z[n] /\ z[n] = Document(z[n].root, z[n].hooks)
        /\ IsHooks(z[n].hooks, KiroCliWay) /\ IsHooks(H(n), KiroCliWay)
        /\ \A e \in Pair : At(z[n].hooks, e) = Fresh(H(n), e, a, KiroCliWay)
        /\ Renewed(z[n].hooks, Pair, a, KiroCliWay) = z[n].hooks
  BY <1>2, KiroCliFits DEF After
<1>4. z["v2"] = KiroCliV2(ds["v2"], a) /\ z["v3"] = KiroCliV3(ds["v3"], a)
  <2> DEFINE d2 == KiroCliV2(ds["v2"], a)
             d3 == KiroCliV3(ds["v3"], a)
  <2>1. z = [ds EXCEPT !["v2"] = d2, !["v3"] = d3] BY KiroCliOps
  <2>2. z["v2"] = d2 /\ z["v3"] = d3
    <3> HIDE DEF d2, d3
    <3> QED BY <1>1, <2>1, TwoFiles
  <2> QED BY <2>2
<1>5. z["v2"].root = r2 /\ z["v3"].root = r3
  <2>1. z["v2"] = Document(r2, Renewed(H("v2"), Pair, a, KiroCliWay)) BY <1>4, KiroCliAdded
  <2>2. z["v3"] = Document(r3, Renewed(H("v3"), Pair, a, KiroCliWay)) BY <1>4, KiroCliAdded
  <2> QED BY <2>1, <2>2 DEF Document
<1>6. KiroCli!Parses(z)
  <2>1. "malformed" \notin r2
    BY DEF KiroCli!Parses, KiroCli!ValidateV2, OrNew, NewDocument, Document
  <2>2. "malformed" \notin r3
    BY KiroCliShared DEF KiroCli!Parses, KiroIde!ParseDocument, OrNew, NewDocument, Document
  <2>3. "version" \in r3 OBVIOUS
  <2> HIDE DEF r2, r3
  <2> QED BY <1>5, <2>1, <2>2, <2>3, KiroCliShared
        DEF KiroCli!Parses, KiroCli!ValidateV2, KiroIde!ParseDocument
<1>7. KiroCli!Install(z, a) = z
  <2>1. KiroCliV2(z["v2"], a) = z["v2"] /\ KiroCliV3(z["v3"], a) = z["v3"]
    <3>1. /\ KiroCliV2(z["v2"], a) = Document(z["v2"].root \cup {"meta"}, N2)
          /\ KiroCliV3(z["v3"], a) = Document(z["v3"].root \cup {"version"}, N3)
      BY <1>3, <1>6, KiroCliAdded
    <3>2. z["v2"].root \cup {"meta"} = z["v2"].root /\ z["v3"].root \cup {"version"} = z["v3"].root
      BY <1>5
    <3> QED BY <1>3, <3>1, <3>2
  <2>2. KiroCli!Install(z, a) = [z EXCEPT !["v2"] = z["v2"], !["v3"] = z["v3"]]
    <3> DEFINE d2 == KiroCliV2(z["v2"], a)
               d3 == KiroCliV3(z["v3"], a)
    <3>1. KiroCli!Install(z, a) = [z EXCEPT !["v2"] = d2, !["v3"] = d3] BY KiroCliOps
    <3>2. d2 = z["v2"] /\ d3 = z["v3"] BY <2>1
    <3> HIDE DEF d2, d3
    <3> QED BY <3>1, <3>2
  <2>3. z = [n \in {"v2", "v3"} |-> z[n]] BY KiroCliFits DEF WellFormed
  <2> QED BY <2>2, <2>3
<1>8. ASSUME ~KiroCli!Disabled(ds) PROVE Takes(PluginOf("kirocli", z), a)
  <2>0. Forms \in SUBSET Forms /\ "exact" \in Forms BY SMTT(40) DEF Forms
  <2>1. \A e \in Pair : \A i \in DOMAIN At(H("v3"), e) :
          At(H("v3"), e)[i].script = ScriptOf(e) => Refers(At(H("v3"), e)[i], e, Agents, Forms)
    BY <1>8 DEF KiroCli!Disabled, KiroCli!V3Taken, KiroCli!OrNew, OrNew, KiroCli!NewDocument,
      NewDocument, KiroCli!Document, Document, KiroCli!Some, KiroCli!At, At, KiroCli!Events,
      KiroCli!V3!Events, Pair, KiroCli!V3!ManagedSpecification, KiroCli!V3!ScriptOf,
      KiroCli!OwnedReference, KiroCli!Refers, Refers,
      KiroCli!ScriptOf, ScriptOf, Forms, KiroCli!Forms
  <2>2. \A e \in Pair : \A i \in DOMAIN At(N3, e) :
          At(N3, e)[i] = Handler(a, e) \/ At(N3, e)[i].script # ScriptOf(e)
    <3> TAKE e \in Pair
    <3> TAKE i \in DOMAIN At(N3, e)
    <3> DEFINE K == H("v3")
    <3>1. At(N3, e) = Fresh(K, e, a, KiroCliWay) /\ IsHooks(K, KiroCliWay) BY <1>3
    <3>2. \A j \in DOMAIN At(K, e) :
            At(K, e)[j].script = ScriptOf(e) => Refers(At(K, e)[j], e, Agents, Forms)
      BY <2>1
    <3> HIDE DEF N3, K
    <3>3. \/ At(N3, e)[i] = Handler(a, e)
          \/ \E j \in DOMAIN At(K, e) :
               At(N3, e)[i] = At(K, e)[j] /\ ~Refers(At(N3, e)[i], e, Agents, Forms)
      BY <2>0, <3>1, FlatKept DEF KiroCliWay
    <3> QED BY <3>2, <3>3
  <2>3. \A e : Handler(a, e).owner = a /\ Handler(a, e).script = ScriptOf(e)
               /\ Handler(a, e).form = "exact"
    BY DEF Handler
  <2>4. \A e \in Pair : \A i \in DOMAIN At(N3, e) :
          At(N3, e)[i].script = ScriptOf(e) => Refers(At(N3, e)[i], e, Agents, {"exact", "moved"})
    <3> HIDE DEF N3
    <3> QED BY <2>2, <2>3 DEF Refers
  <2>5. ~KiroCli!V2Conflict(z["v2"]) BY <1>5 DEF KiroCli!V2Conflict
  <2>6. ~KiroCli!V3Taken(N3)
    <3> HIDE DEF N3
    <3> QED BY <2>4 DEF KiroCli!V3Taken, KiroCli!Some, KiroCli!At, At, KiroCli!Events,
      KiroCli!V3!Events, Pair, KiroCli!V3!ManagedSpecification, KiroCli!V3!ScriptOf,
      KiroCli!OwnedReference, KiroCli!Refers, Refers,
      KiroCli!ScriptOf, ScriptOf, Forms, KiroCli!Forms
  <2>7. KiroCli!OrNew(z["v3"]) = z["v3"] /\ KiroCli!OrNew(z["v2"]) = z["v2"]
    BY <1>3 DEF KiroCli!OrNew
  <2>8. ~KiroCli!Disabled(z) BY <2>5, <2>6, <2>7 DEF KiroCli!Disabled
  <2>9. KiroCli!V2RuntimeContracts(N2) = {a}
    <3>1. \A e \in Pair : /\ Len(At(N2, e)) \in DOMAIN At(N2, e)
                          /\ At(N2, e)[Len(At(N2, e))] = Handler(a, e)
                          /\ \A i \in DOMAIN At(N2, e) : \A ids \in SUBSET Agents : \A g \in SUBSET Forms :
                               Refers(At(N2, e)[i], e, ids, g) => i = Len(At(N2, e))
      <4> TAKE e \in Pair
      <4> DEFINE K == H("v2")
      <4>1. At(N2, e) = Fresh(K, e, a, KiroCliWay) /\ IsHooks(K, KiroCliWay) BY <1>3
      <4> HIDE DEF N2, K
      <4> QED BY <2>0, <4>1, FlatFound DEF KiroCliWay
    <3> HIDE DEF N2
    <3> QED BY <3>1, KiroCliFound
  <2>10. KiroIde!RuntimeContracts(N3) = {a}
    <3>1. OnlyHandlers(z["v3"].hooks, Events("kirocli"), {"exact", "moved"}, a)
      <4>1. {"exact", "moved"} \in SUBSET Forms BY DEF Forms
      <4>2. After("kirocli", ds["v3"], z["v3"], a, FlatWay(Forms)) /\ Fits("kirocli", FlatWay(Forms))
        BY <1>2, KiroCliFits DEF KiroCliWay
      <4> QED BY <2>0, <4>1, <4>2, HandlersTaken
    <3>2. OneIds(N3, Pair, {"exact", "moved"}) = {a} BY <3>1, KiroCliFits DEF OnlyHandlers
    <3> HIDE DEF N3
    <3>3. KiroIde!RuntimeContracts(N3) = OneIds(N3, Pair, {"exact", "moved"}) BY <2>4, KiroFound
    <3> QED BY <3>2, <3>3
  <2>11. KiroCli!Contracts(z) = {a}
    <3>1. KiroCli!One({a}) BY DEF KiroCli!One
    <3>2. KiroCli!V3!OrNew(z["v3"]) = z["v3"] BY <1>3 DEF KiroCli!V3!OrNew
    <3> QED BY <2>7, <2>9, <2>10, <3>1, KiroCliShared DEF KiroCli!Contracts
  <2> QED BY <1>6, <2>8, <2>11, KiroCliFields DEF Takes
<1> QED BY <1>7, <1>8

(* Kiro CLI: every installation takes and is steady, every removal clean.  *)
LEMMA KiroCliSound == Sound("kirocli")
<1>1. Looks("kirocli", KiroCliWay) BY DEF Looks, Recognised, KiroCliWay, FlatWay, Forms
<1>2. Clears("kirocli") BY NothingElse
<1> QED BY <1>1, <1>2, KiroCliFits, KiroCliPerforms, KiroCliRepeats, HostSound

-----------------------------------------------------------------------------
(* Cursor.                                                                 *)
CursorRemoval(H, ids) == FlatRemoval(H, Triple, ids, Three)

(* The operators of the plugin, in the terms used here.                    *)
LEMMA CursorOps ==
  ASSUME NEW ds, NEW a
  PROVE  /\ Cursor!Install(ds, a) =
              [user |-> Cursor!Render(ds["user"],
                 FlatAddition(CursorRemoval(OrNew(ds["user"]).hooks, Agents), Triple, a))]
         /\ Cursor!Uninstall(ds, a) =
              [user |-> Cursor!Render(ds["user"],
                 CursorRemoval(OrNew(ds["user"]).hooks, {a}))]
         /\ Cursor!Contracts(ds) = SomeIds(OrNew(ds["user"]).hooks, Triple, Three)
<1>1. \A d : Cursor!OrNew(d) = OrNew(d)
  BY DEF Cursor!OrNew, OrNew, Cursor!NewDocument, NewDocument, Cursor!Document, Document
<1>2. \A H, ids : Cursor!Remove(H, ids) = CursorRemoval(H, ids)
  BY DEF Cursor!Remove, CursorRemoval, FlatRemoval, Cursor!PutOrDrop, PutOrDrop, Cursor!Drop, Drop,
    Cursor!Over, Over, Cursor!Without, Unmatched, Cursor!Pick, Pick, Cursor!Kept, Kept,
    Cursor!At, At, Cursor!Managed, Cursor!Refers, Refers, Cursor!ScriptOf, ScriptOf,
    Cursor!Recognised, Cursor!Events, Triple, Three
<1>3. \A N : Cursor!Append1(N, Cursor!Events, LAMBDA e : Cursor!Handler(a, e))
               = FlatAddition(N, Triple, a)
  BY DEF Cursor!Append1, FlatAddition, Cursor!Over, Over, Cursor!At, At, Cursor!Handler,
    Handler, Cursor!ScriptOf, ScriptOf, Cursor!Events, Triple
<1>4. Cursor!Contracts(ds) = SomeIds(Cursor!OrNew(ds["user"]).hooks, Triple, Three)
  BY DEF Cursor!Contracts, SomeIds, Cursor!Some, Cursor!At, At, Cursor!Managed,
    Cursor!Refers, Refers, Cursor!ScriptOf, ScriptOf, Cursor!Recognised, Cursor!Events,
    Triple, Three
<1>5. Cursor!Install(ds, a) =
        [user |-> Cursor!Render(ds["user"],
           Cursor!Append1(Cursor!Remove(Cursor!OrNew(ds["user"]).hooks, Agents), Cursor!Events,
                          LAMBDA e : Cursor!Handler(a, e)))]
  BY DEF Cursor!Install
<1>6. Cursor!Uninstall(ds, a) =
        [user |-> Cursor!Render(ds["user"], Cursor!Remove(Cursor!OrNew(ds["user"]).hooks, {a}))]
  BY DEF Cursor!Uninstall
<1>7. Cursor!Install(ds, a) = [user |-> Cursor!Render(ds["user"],
         FlatAddition(CursorRemoval(OrNew(ds["user"]).hooks, Agents), Triple, a))]
  BY <1>1, <1>2, <1>3, <1>5
<1> QED BY <1>1, <1>2, <1>4, <1>6, <1>7

(* What a document is rendered to.                                         *)
LEMMA CursorRender ==
  ASSUME NEW doc, NEW N
  PROVE  LET d == Document(OrNew(doc).root \cup {"version"}, N)
         IN  /\ DOMAIN N # {} => Cursor!Render(doc, N) = d
             /\ \/ Cursor!Render(doc, N) = d
                \/ /\ Cursor!Render(doc, N) = NoFile /\ DOMAIN N = {}
                   /\ OrNew(doc).root \subseteq {"version"}
<1> DEFINE d == Document(OrNew(doc).root \cup {"version"}, N)
<1>1. Cursor!Render(doc, N) =
        IF DOMAIN N = {} /\ (doc = NoFile \/ Cursor!EntirelyManaged(doc)) THEN NoFile ELSE d
  BY DEF Cursor!Render, Cursor!OrNew, OrNew, Cursor!NewDocument, NewDocument,
    Cursor!Document, Document
<1>2. Cursor!EntirelyManaged(doc) => doc.root \subseteq {"version"}
  BY DEF Cursor!EntirelyManaged
<1>3. doc = NoFile => OrNew(doc).root = {} BY DEF OrNew, NewDocument, Document
<1>4. doc # NoFile => OrNew(doc) = doc BY DEF OrNew
<1> HIDE DEF d
<1>5. /\ DOMAIN N # {} => Cursor!Render(doc, N) = d
      /\ \/ Cursor!Render(doc, N) = d
         \/ /\ Cursor!Render(doc, N) = NoFile /\ DOMAIN N = {}
            /\ OrNew(doc).root \subseteq {"version"}
  BY <1>1, <1>2, <1>3, <1>4
<1> QED BY <1>5 DEF d


CursorWay == FlatWay(Three)

(* Which files, events and elements the host has.                          *)
LEMMA CursorFits ==
  /\ Fits("cursor", CursorWay) /\ Alone("cursor") /\ Events("cursor") = Triple
  /\ \A d : Contained("cursor", "user", d)
<1>1. Three \in SUBSET Forms /\ "exact" \in Three
  BY DEF Three, Forms, Shapes
<1>2. IsWay(CursorWay) /\ Kind(CursorWay) = Listed BY <1>1, FlatIsWay DEF CursorWay
<1>4. Elements("cursor") = Listed BY DEF Elements
<1>5. Events("cursor") = Triple BY DEF Events, Triple
<1>6. Events("cursor") \in SUBSET AllEvents /\ Events("cursor") # {} BY <1>5 DEF Triple, AllEvents
<1>7. Alone("cursor") BY DEF Alone, Names, Written
<1>8. \A d : Contained("cursor", "user", d) BY DEF Contained, HasSettings
<1> QED BY <1>2, <1>4, <1>5, <1>6, <1>7, <1>8 DEF Fits

(* What the plugin says of a set of documents, by its operators.           *)
LEMMA CursorFields ==
  \A ds : /\ PluginOf("cursor", ds).parses <=> Cursor!Parses(ds)
          /\ PluginOf("cursor", ds).enabled = TRUE
          /\ PluginOf("cursor", ds).contracts = Cursor!Contracts(ds)
          /\ "whole" \in PluginOf("cursor", ds).files
          /\ \A a \in Agents : /\ PluginOf("cursor", ds).install[a] = Cursor!Install(ds, a)
                               /\ PluginOf("cursor", ds).uninstall[a] = Cursor!Uninstall(ds, a)
<1>1. \A ds : PluginOf("cursor", ds) = Cursor!Plugin(ds) BY DEF PluginOf
<1> QED BY <1>1 DEF Cursor!Plugin, Cursor!RuntimeFiles

(* The plugin's removal and addition are those of its way.                 *)
LEMMA CursorLists ==
  ASSUME NEW H, IsHooks(H, CursorWay)
  PROVE  /\ \A ids : Purged(CursorRemoval(H, ids), H, Triple, ids, CursorWay)
         /\ \A a : FlatAddition(CursorRemoval(H, Agents), Triple, a) = Renewed(H, Triple, a, CursorWay)
<1>1. Three \in SUBSET Forms /\ "exact" \in Three BY DEF Three, Forms
<1>2. Triple \in SUBSET AllEvents BY DEF Triple, AllEvents
<1>3. \A ids : Purged(FlatRemoval(H, Triple, ids, Three), H, Triple, ids, CursorWay)
  BY <1>1, <1>2, FlatPurged DEF CursorWay
<1>4. \A a : FlatAddition(FlatRemoval(H, Triple, Agents, Three), Triple, a) = Renewed(H, Triple, a, CursorWay)
  BY <1>1, <1>2, FlatRenewed DEF CursorWay
<1> QED BY <1>3, <1>4 DEF CursorRemoval

(* Its commands have the form of an installation and of a removal.         *)
LEMMA CursorPerforms == Performs("cursor", CursorWay)
<1> SUFFICES ASSUME NEW ds, WellFormed("cursor", ds), NEW a \in Agents, Cursor!Parses(ds)
             PROVE  /\ InstallForm("cursor", ds, Cursor!Install(ds, a), a, CursorWay)
                    /\ UninstallForm("cursor", ds, Cursor!Uninstall(ds, a), a)
  BY CursorFields DEF Performs
<1> DEFINE old == ds["user"]
           H == OrNew(old).hooks
           r == OrNew(old).root \cup {"version"}
<1>1. IsHooks(H, CursorWay) /\ OrNew(old).root \in SUBSET Fields
  BY CursorFits, OldFile DEF Alone
<1>2. r \in SUBSET Fields /\ OrNew(old).root \ Plain \subseteq r
  BY <1>1 DEF Fields, Plain, OrNew, NewDocument, Document
<1> HIDE DEF H, old, r
<1>3. InstallForm("cursor", ds, Cursor!Install(ds, a), a, CursorWay)
  <2> DEFINE N == Renewed(H, Triple, a, CursorWay)
             d == Cursor!Render(old, N)
  <2>1. Cursor!Install(ds, a) = [user |-> Cursor!Render(old, FlatAddition(CursorRemoval(H, Agents), Triple, a))]
    BY CursorOps DEF old, H
  <2>2. Cursor!Install(ds, a) = [user |-> d] BY <1>1, <2>1, CursorLists
  <2>3. DOMAIN N # {} BY DEF Renewed, Triple
  <2>4. d = Document(r, N) BY <2>3, CursorRender DEF r
  <2>5. d.root = r BY <2>4 DEF Document
  <2>6. Rewrites("cursor", "user", old, d, a, CursorWay)
    BY <1>1, <1>2, <2>4, <2>5, CursorFits DEF Rewrites, H
  <2> HIDE DEF d
  <2> QED BY <2>2, <2>6, CursorFits, OneInstall DEF old
<1>4. UninstallForm("cursor", ds, Cursor!Uninstall(ds, a), a)
  <2> DEFINE N == CursorRemoval(H, {a})
             d == Cursor!Render(old, N)
  <2>1. Cursor!Uninstall(ds, a) = [user |-> d] BY CursorOps DEF old, H
  <2>2. Purged(N, H, Events("cursor"), {a}, CursorWay) BY <1>1, CursorLists, CursorFits
  <2>3. \/ d = Document(r, N) /\ Contained("cursor", "user", d)
        \/ d = NoFile /\ DOMAIN N = {} /\ OrNew(old).root \subseteq Plain
    BY CursorRender, CursorFits DEF r, Plain
  <2> HIDE DEF d, N
  <2>4. FileLeft("cursor", ds, "user", {a}, d, Events("cursor"), User)
    BY <1>1, <1>2, <2>2, <2>3, CursorFits, FileRemoval DEF old, H, Fits, Alone
  <2> QED BY <2>1, <2>4, CursorFits, OneUninstall
<1> QED BY <1>3, <1>4

(* After an installation the host reports it, and another one changes      *)
(* nothing.                                                                *)
LEMMA CursorRepeats == Repeats("cursor", CursorWay)
<1> SUFFICES ASSUME NEW ds, WellFormed("cursor", ds), NEW a \in Agents, Cursor!Parses(ds),
                    NEW z, z = Cursor!Install(ds, a), WellFormed("cursor", z),
                    Outcome("cursor", ds, z, a, CursorWay)
             PROVE  Takes(PluginOf("cursor", z), a) /\ Cursor!Install(z, a) = z
  BY CursorFields DEF Repeats
<1> DEFINE old == ds["user"]
           H == OrNew(old).hooks
           r == OrNew(old).root \cup {"version"}
           new == z["user"]
<1>1. IsHooks(H, CursorWay) BY CursorFits, OldFile DEF Alone
<1>2. After("cursor", old, new, a, CursorWay)
  BY CursorFits, NewFile DEF Alone, Targets
<1>3. z = [user |-> new] /\ new.root = r
  <2>1. z = [user |-> Cursor!Render(old, Renewed(H, Triple, a, CursorWay))]
    <3>1. z = [user |-> Cursor!Render(old, FlatAddition(CursorRemoval(H, Agents), Triple, a))] BY CursorOps
    <3> QED BY <1>1, <3>1, CursorLists
  <2>2. DOMAIN Renewed(H, Triple, a, CursorWay) # {} BY DEF Renewed, Triple
  <2>3. Cursor!Render(old, Renewed(H, Triple, a, CursorWay))
          = Document(r, Renewed(H, Triple, a, CursorWay))
    BY <2>2, CursorRender
  <2> QED BY <2>1, <2>3 DEF Document
<1>4. "malformed" \notin r
  BY DEF Cursor!Parses, OrNew, NewDocument, Document
<1> HIDE DEF H, old, new
<1>5. /\ new # NoFile /\ OrNew(new) = new /\ new = Document(new.root, new.hooks)
      /\ IsHooks(new.hooks, CursorWay) /\ DOMAIN new.hooks # {}
      /\ Renewed(new.hooks, Triple, a, CursorWay) = new.hooks
  BY <1>2, CursorFits DEF After
<1>6. Cursor!Parses(z) BY <1>3, <1>4, <1>5 DEF Cursor!Parses, new
<1>7. Cursor!Contracts(z) = {a}
  <2>1. Cursor!Contracts(z) = SomeIds(new.hooks, Triple, Three) BY <1>5, CursorOps DEF new
  <2>2. OnlyHandlers(new.hooks, Events("cursor"), Three, a)
    <3>1. Three \in SUBSET Three /\ "exact" \in Three /\ Three \in SUBSET Forms
          /\ "exact" \in Three
      BY DEF Three, Forms
    <3> QED BY <1>2, <3>1, CursorFits, HandlersTaken DEF CursorWay
  <2> QED BY <2>1, <2>2, CursorFits DEF OnlyHandlers
<1>8. Cursor!Install(z, a) = z
  <2>1. Cursor!Install(z, a) = [user |-> Cursor!Render(new, FlatAddition(CursorRemoval(new.hooks, Agents), Triple, a))]
    BY <1>5, CursorOps, ZenonT(40) DEF new
  <2>2. Cursor!Install(z, a) = [user |-> Cursor!Render(new, new.hooks)]
    BY <1>5, <2>1, CursorLists
  <2>3. Cursor!Render(new, new.hooks) = new
    <3>1. OrNew(new).root \cup {"version"} = new.root BY <1>3, <1>5 DEF r
    <3>2. Cursor!Render(new, new.hooks) = Document(OrNew(new).root \cup {"version"}, new.hooks)
      BY <1>5, CursorRender
    <3> QED BY <1>5, <3>1, <3>2
  <2> QED BY <1>3, <2>2, <2>3
<1> QED BY <1>6, <1>7, <1>8, CursorFields DEF Takes

(* Cursor: every installation takes and is steady, every removal clean.  *)
LEMMA CursorSound == Sound("cursor")
<1>1. Looks("cursor", CursorWay) BY DEF Looks, Recognised, CursorWay, FlatWay, Three
<1>2. Clears("cursor") BY NothingElse
<1> QED BY <1>1, <1>2, CursorFits, CursorPerforms, CursorRepeats, HostSound

-----------------------------------------------------------------------------
(* Kimi.                                                                   *)
KimiRemoval(H, ids) == FlatRemoval(H, Triple, ids, Three)

KimiAddition(doc, a) ==
  Kimi!Render(doc, FlatAddition(KimiRemoval(OrNew(doc).hooks, Agents), Triple, a))

KimiLess(doc, a) == Kimi!Render(doc, KimiRemoval(OrNew(doc).hooks, {a}))

(* The operators of the plugin, in the terms used here.                    *)
LEMMA KimiOps ==
  ASSUME NEW ds, NEW a
  PROVE  /\ Kimi!Install(ds, a) =
              [n \in DOMAIN ds |->
                 IF n = "homes" THEN Document(Kimi!Detected(ds), <<>>)
                 ELSE IF n \in Kimi!Detected(ds) THEN KimiAddition(ds[n], a) ELSE ds[n]]
         /\ Kimi!Uninstall(ds, a) =
              [n \in DOMAIN ds |->
                 IF n \in Kimi!Detected(ds) THEN KimiLess(ds[n], a) ELSE ds[n]]
         /\ Kimi!Contracts(ds) =
              UNION {OneIds(OrNew(ds[n]).hooks, Triple, Three) : n \in Kimi!Detected(ds)}
<1>1. \A d : Kimi!OrNew(d) = OrNew(d)
  BY DEF Kimi!OrNew, OrNew, Kimi!NewDocument, NewDocument, Kimi!Document, Document
<1>2. \A H, ids : Kimi!RemoveManagedHooks(H, ids) = KimiRemoval(H, ids)
  BY DEF Kimi!RemoveManagedHooks, KimiRemoval, FlatRemoval, Kimi!PutOrDrop, PutOrDrop, Kimi!Drop, Drop,
    Kimi!Over, Over, Kimi!Without, Unmatched, Kimi!Pick, Pick, Kimi!Kept, Kept,
    Kimi!At, At, Kimi!ManagedReference, Kimi!Refers, Refers, Kimi!ScriptOf, ScriptOf,
    Kimi!Events, Triple, Three
<1>3. \A N : Kimi!Append1(N, Kimi!Events, LAMBDA e : Kimi!Handler(a, e))
               = FlatAddition(N, Triple, a)
  BY DEF Kimi!Append1, FlatAddition, Kimi!Over, Over, Kimi!At, At, Kimi!Handler,
    Handler, Kimi!ScriptOf, ScriptOf, Kimi!Events, Triple
<1>4. \A H : Kimi!RuntimeContracts(H) = OneIds(H, Triple, Three)
  BY DEF Kimi!RuntimeContracts, OneIds, Kimi!One, One, Kimi!At, At, Kimi!ManagedReference,
    Kimi!Refers, Refers, Kimi!ScriptOf, ScriptOf, Kimi!Events, Triple, Three
<1>5. Kimi!Contracts(ds) =
        UNION {Kimi!RuntimeContracts(OrNew(ds[n]).hooks) : n \in Kimi!Detected(ds)}
  BY <1>1 DEF Kimi!Contracts
<1>6. \A d : Kimi!Render(d, Kimi!Append1(Kimi!RemoveManagedHooks(Kimi!OrNew(d).hooks, Agents),
                                 Kimi!Events, LAMBDA e : Kimi!Handler(a, e))) = KimiAddition(d, a)
  BY <1>1, <1>2, <1>3 DEF KimiAddition
<1>7. \A d : Kimi!Render(d, Kimi!RemoveManagedHooks(Kimi!OrNew(d).hooks, {a})) = KimiLess(d, a)
  BY <1>1, <1>2 DEF KimiLess
<1>8. Kimi!Install(ds, a) =
        [n \in DOMAIN ds |->
           IF n = "homes" THEN Document(Kimi!Detected(ds), <<>>)
           ELSE IF n \in Kimi!Detected(ds) THEN KimiAddition(ds[n], a) ELSE ds[n]]
  BY <1>6 DEF Kimi!Install, Kimi!Document, Document
<1>9. Kimi!Uninstall(ds, a) =
        [n \in DOMAIN ds |->
           IF n \in Kimi!Detected(ds) THEN KimiLess(ds[n], a) ELSE ds[n]]
  BY <1>7 DEF Kimi!Uninstall
<1> QED BY <1>4, <1>5, <1>8, <1>9

(* What a document is rendered to.                                         *)
LEMMA KimiRender ==
  ASSUME NEW doc, NEW N
  PROVE  LET d == Document(OrNew(doc).root, N)
         IN  /\ DOMAIN N # {} => Kimi!Render(doc, N) = d
             /\ \/ Kimi!Render(doc, N) = d
                \/ /\ Kimi!Render(doc, N) = NoFile /\ DOMAIN N = {}
                   /\ OrNew(doc).root = {}
<1> DEFINE d == Document(OrNew(doc).root, N)
<1>1. Kimi!Render(doc, N) = IF OrNew(doc).root = {} /\ DOMAIN N = {} THEN NoFile ELSE d
  BY DEF Kimi!Render, Kimi!OrNew, OrNew, Kimi!NewDocument, NewDocument,
    Kimi!Document, Document
<1> HIDE DEF d
<1>2. /\ DOMAIN N # {} => Kimi!Render(doc, N) = d
      /\ \/ Kimi!Render(doc, N) = d
         \/ /\ Kimi!Render(doc, N) = NoFile /\ DOMAIN N = {}
            /\ OrNew(doc).root = {}
  BY <1>1
<1> QED BY <1>2 DEF d

KimiWay == FlatWay(Three)

(* Which files, events and elements the host has.                          *)
LEMMA KimiFits ==
  /\ Fits("kimi", KimiWay) /\ Events("kimi") = Triple
  /\ Names("kimi") = {"homes", "stable", "legacy"}
  /\ \A n, d : Contained("kimi", n, d)
  /\ \A ds : Written("kimi", ds) = Kimi!Detected(ds) /\ Targets("kimi", ds) = Kimi!Detected(ds)
<1>1. Three \in SUBSET Forms /\ "exact" \in Three BY DEF Three, Forms
<1>2. IsWay(KimiWay) /\ Kind(KimiWay) = Listed BY <1>1, FlatIsWay DEF KimiWay
<1>3. Elements("kimi") = Listed BY DEF Elements
<1>4. Events("kimi") = Triple BY DEF Events, Triple
<1>5. Events("kimi") \in SUBSET AllEvents /\ Events("kimi") # {} BY <1>4 DEF Triple, AllEvents
<1>6. Names("kimi") = {"homes", "stable", "legacy"} BY DEF Names
<1>7. \A n, d : Contained("kimi", n, d) BY DEF Contained, HasSettings
<1>8. \A ds : Written("kimi", ds) = Kimi!Detected(ds) BY DEF Written
<1>9. \A ds : Targets("kimi", ds) = Written("kimi", ds) BY DEF Targets
<1> QED BY <1>2, <1>3, <1>4, <1>5, <1>6, <1>7, <1>8, <1>9 DEF Fits

(* What the plugin says of a set of documents, by its operators.           *)
LEMMA KimiFields ==
  \A ds : /\ PluginOf("kimi", ds).parses <=> Kimi!Parses(ds)
          /\ PluginOf("kimi", ds).enabled = TRUE
          /\ PluginOf("kimi", ds).contracts = Kimi!Contracts(ds)
          /\ "whole" \in PluginOf("kimi", ds).files
          /\ \A a \in Agents : /\ PluginOf("kimi", ds).install[a] = Kimi!Install(ds, a)
                               /\ PluginOf("kimi", ds).uninstall[a] = Kimi!Uninstall(ds, a)
<1>1. \A ds : PluginOf("kimi", ds) = Kimi!Plugin(ds) BY DEF PluginOf
<1> QED BY <1>1 DEF Kimi!Plugin, Kimi!RuntimeFiles

(* The plugin's removal and addition are those of its way.                 *)
LEMMA KimiLists ==
  ASSUME NEW H, IsHooks(H, KimiWay)
  PROVE  /\ \A ids : Purged(KimiRemoval(H, ids), H, Triple, ids, KimiWay)
         /\ \A a : FlatAddition(KimiRemoval(H, Agents), Triple, a) = Renewed(H, Triple, a, KimiWay)
<1>1. Three \in SUBSET Forms /\ "exact" \in Three BY DEF Three, Forms
<1>2. Triple \in SUBSET AllEvents BY DEF Triple, AllEvents
<1>3. \A ids : Purged(FlatRemoval(H, Triple, ids, Three), H, Triple, ids, KimiWay)
  BY <1>1, <1>2, FlatPurged DEF KimiWay
<1>4. \A a : FlatAddition(FlatRemoval(H, Triple, Agents, Three), Triple, a) = Renewed(H, Triple, a, KimiWay)
  BY <1>1, <1>2, FlatRenewed DEF KimiWay
<1> QED BY <1>3, <1>4 DEF KimiRemoval

(* The homes that are there, or the one assumed.                           *)
LEMMA KimiHomes ==
  ASSUME NEW ds, WellFormed("kimi", ds)
  PROVE  /\ Kimi!Detected(ds) \subseteq {"stable", "legacy"} /\ Kimi!Detected(ds) # {}
         /\ "homes" \notin Kimi!Detected(ds)
         /\ Homes(ds["homes"])
         /\ DOMAIN ds = Names("kimi")
<1>1. Homes(ds["homes"]) /\ DOMAIN ds = Names("kimi") BY DEF WellFormed
<1> QED BY <1>1 DEF Kimi!Detected, Homes

(* A file with the handlers of an agent.                                   *)
LEMMA KimiAdded ==
  ASSUME NEW ds, WellFormed("kimi", ds), NEW n \in Names("kimi"), NEW a \in Agents
  PROVE  /\ KimiAddition(ds[n], a)
              = Document(OrNew(ds[n]).root, Renewed(OrNew(ds[n]).hooks, Triple, a, KimiWay))
         /\ Rewrites("kimi", n, ds[n], KimiAddition(ds[n], a), a, KimiWay)
<1> DEFINE old == ds[n]
           N == Renewed(OrNew(old).hooks, Triple, a, KimiWay)
           d == KimiAddition(old, a)
<1>1. IsHooks(OrNew(old).hooks, KimiWay) /\ OrNew(old).root \in SUBSET Fields
  BY KimiFits, OldFile
<1>2. d = Kimi!Render(old, N) BY <1>1, KimiLists DEF KimiAddition
<1>3. DOMAIN N # {} BY DEF Renewed, Triple
<1> HIDE DEF old
<1>4. d = Document(OrNew(old).root, N) BY <1>2, <1>3, KimiRender
<1>5. d.root = OrNew(old).root BY <1>4 DEF Document
<1>6. Rewrites("kimi", n, old, d, a, KimiWay) BY <1>1, <1>4, <1>5, KimiFits DEF Rewrites
<1> QED BY <1>4, <1>6 DEF old

(* Its commands have the form of an installation and of a removal.         *)
LEMMA KimiPerforms == Performs("kimi", KimiWay)
<1> SUFFICES ASSUME NEW ds, WellFormed("kimi", ds), NEW a \in Agents, Kimi!Parses(ds)
             PROVE  /\ InstallForm("kimi", ds, Kimi!Install(ds, a), a, KimiWay)
                    /\ UninstallForm("kimi", ds, Kimi!Uninstall(ds, a), a)
  BY KimiFields DEF Performs
<1> DEFINE D == Kimi!Detected(ds)
<1>1. /\ D \subseteq {"stable", "legacy"} /\ D # {} /\ "homes" \notin D
      /\ Homes(ds["homes"]) /\ DOMAIN ds = Names("kimi")
  BY KimiHomes
<1>2. "homes" \in Names("kimi") /\ D \subseteq Names("kimi") BY <1>1, KimiFits
<1>3. \A n \in Names("kimi") : \A es, c : FileChanged("kimi", n, ds[n], ds[n], es, c) BY FileSame
<1>4. InstallForm("kimi", ds, Kimi!Install(ds, a), a, KimiWay)
  <2> DEFINE new == Kimi!Install(ds, a)
             home == Document(D, <<>>)
  <2>1. /\ new = [n \in Names("kimi") |-> new[n]]
        /\ new["homes"] = home
        /\ \A n \in D : new[n] = KimiAddition(ds[n], a)
        /\ \A n \in Names("kimi") : n # "homes" /\ n \notin D => new[n] = ds[n]
    BY <1>1, <1>2, KimiOps
  <2>2. \A es, c : FileChanged("kimi", "homes", home, ds["homes"], es, c)
    <3> TAKE es, c
    <3>1. IsHooks(<<>>, KimiWay) BY NewHooks
    <3>2. D \in SUBSET Fields BY <1>1 DEF Fields
    <3>3. IsDocument(home, Kind(KimiWay)) /\ home # NoFile /\ home.root = D /\ home.hooks = <<>>
      BY <3>1, <3>2, DocumentMade
    <3> DEFINE old == ds["homes"]
    <3>4. OrNew(old) = old /\ old.hooks = <<>> /\ old.root \subseteq D
      BY <1>1 DEF OrNew, Homes, Kimi!Detected
    <3>5. OrNew(home) = home BY <3>3 DEF OrNew
    <3>6. IsDocument(home, Elements("kimi")) /\ Contained("kimi", "homes", home)
      BY <3>3, KimiFits DEF Fits
    <3> HIDE DEF old, home
    <3>7. Drawn(OrNew(home).hooks, OrNew(old).hooks, es, c) BY <3>3, <3>4, <3>5, SameDrawn
    <3>8. OrNew(old).root \ Plain \subseteq OrNew(home).root BY <3>3, <3>4, <3>5
    <3> QED BY <3>6, <3>7, <3>8 DEF FileChanged, old
  <2>3. Homes(home)
    <3>1. home.root = D /\ home.hooks = <<>> BY DEF Document
    <3>2. home # NoFile
      <4>1. IsHooks(<<>>, KimiWay) BY NewHooks
      <4>2. D \in SUBSET Fields BY <1>1 DEF Fields
      <4> QED BY <4>1, <4>2, DocumentMade
    <3> QED BY <1>1, <3>1, <3>2 DEF Homes
  <2>4. Kimi!Detected(new) = D
    <3>1. home.root = D BY DEF Document
    <3> QED BY <1>1, <2>1, <3>1 DEF Kimi!Detected
  <2> HIDE DEF new, home
  <2>5. \A n \in Names("kimi") :
          IF n \in Targets("kimi", ds) THEN Rewrites("kimi", n, ds[n], new[n], a, KimiWay)
          ELSE FileChanged("kimi", n, new[n], ds[n], IF n \in Written("kimi", ds) THEN Events("kimi") ELSE {}, a)
    <3> TAKE n \in Names("kimi")
    <3>1. CASE n \in D
      <4>1. Rewrites("kimi", n, ds[n], KimiAddition(ds[n], a), a, KimiWay) BY KimiAdded
      <4> QED BY <2>1, <3>1, <4>1, KimiFits
    <3>2. CASE n = "homes" BY <1>1, <2>1, <2>2, <3>2, KimiFits
    <3>3. CASE n \notin D /\ n # "homes" BY <1>3, <2>1, <3>3, KimiFits
    <3> QED BY <3>1, <3>2, <3>3
  <2>6. Targets("kimi", ds) \subseteq Names("kimi") \cap Written("kimi", ds)
    BY <1>2, KimiFits
  <2>7. Written("kimi", ds) \subseteq Written("kimi", new) BY <2>4, KimiFits
  <2> QED BY <2>1, <2>3, <2>5, <2>6, <2>7 DEF InstallForm, new
<1>5. UninstallForm("kimi", ds, Kimi!Uninstall(ds, a), a)
  <2> DEFINE new == Kimi!Uninstall(ds, a)
  <2>1. /\ new = [n \in Names("kimi") |-> new[n]]
        /\ \A n \in D : new[n] = KimiLess(ds[n], a)
        /\ \A n \in Names("kimi") : n \notin D => new[n] = ds[n]
    BY <1>1, <1>2, KimiOps
  <2> HIDE DEF new
  <2>2. \A n \in D : FileLeft("kimi", ds, n, {a}, new[n], Events("kimi"), User)
    <3> TAKE n \in D
    <3> DEFINE N == KimiRemoval(OrNew(ds[n]).hooks, {a})
               d == new[n]
               r == OrNew(ds[n]).root
    <3>1. n \in Names("kimi") BY <1>2
    <3>2. IsHooks(OrNew(ds[n]).hooks, KimiWay) /\ r \in SUBSET Fields
      BY <3>1, KimiFits, OldFile
    <3>3. Purged(N, OrNew(ds[n]).hooks, Events("kimi"), {a}, KimiWay) BY <3>2, KimiLists, KimiFits
    <3>4. d = Kimi!Render(ds[n], N) BY <2>1 DEF KimiLess
    <3>5. \/ d = Document(r, N) /\ Contained("kimi", n, d)
          \/ d = NoFile /\ DOMAIN N = {} /\ OrNew(ds[n]).root \subseteq Plain
      BY <3>4, KimiRender, KimiFits DEF r
    <3>6. OrNew(ds[n]).root \ Plain \subseteq r OBVIOUS
    <3> HIDE DEF d, N, r
    <3> QED BY <3>1, <3>2, <3>3, <3>5, <3>6, KimiFits, FileRemoval DEF Fits, d
  <2>3. new["homes"] = ds["homes"] BY <1>1, <1>2, <2>1
  <2>4. Kimi!Detected(new) = D BY <2>3 DEF Kimi!Detected
  <2>5. \A n \in Names("kimi") :
          IF n \in Written("kimi", ds) THEN FileLeft("kimi", ds, n, {a}, new[n], Events("kimi"), User)
          ELSE FileChanged("kimi", n, new[n], ds[n], {}, User)
    BY <1>3, <2>1, <2>2, KimiFits
  <2>6. Written("kimi", ds) \subseteq Written("kimi", new) BY <2>4, KimiFits
  <2> QED BY <1>1, <2>1, <2>3, <2>5, <2>6 DEF UninstallForm, new
<1> QED BY <1>4, <1>5

(* After an installation the host reports it, and another one changes      *)
(* nothing.                                                                *)
LEMMA KimiRepeats == Repeats("kimi", KimiWay)
<1> SUFFICES ASSUME NEW ds, WellFormed("kimi", ds), NEW a \in Agents, Kimi!Parses(ds),
                    NEW z, z = Kimi!Install(ds, a), WellFormed("kimi", z),
                    Outcome("kimi", ds, z, a, KimiWay)
             PROVE  Takes(PluginOf("kimi", z), a) /\ Kimi!Install(z, a) = z
  BY KimiFields DEF Repeats
<1> DEFINE D == Kimi!Detected(ds)
<1>1. /\ D \subseteq {"stable", "legacy"} /\ D # {} /\ "homes" \notin D
      /\ DOMAIN ds = Names("kimi") /\ DOMAIN z = Names("kimi")
  BY KimiHomes
<1>2. "homes" \in Names("kimi") /\ D \subseteq Names("kimi") BY <1>1, KimiFits
<1>3. /\ z["homes"] = Document(D, <<>>)
      /\ \A n \in D : z[n] = KimiAddition(ds[n], a)
  BY <1>1, <1>2, KimiOps
<1>4. Kimi!Detected(z) = D
  <2>1. z["homes"].root = D BY <1>3 DEF Document
  <2> QED BY <1>1, <2>1 DEF Kimi!Detected
<1>5. \A n \in D : After("kimi", ds[n], z[n], a, KimiWay) BY KimiFits, NewFile
<1>6. \A n \in D : z[n].root = OrNew(ds[n]).root
  <2> TAKE n \in D
  <2>1. z[n] = Document(OrNew(ds[n]).root, Renewed(OrNew(ds[n]).hooks, Triple, a, KimiWay))
    BY <1>2, <1>3, KimiAdded
  <2> QED BY <2>1 DEF Document
<1>7. Kimi!Parses(z)
  <2>1. \A n \in D : "malformed" \notin OrNew(ds[n]).root
    BY DEF Kimi!Parses, Kimi!ReadHooks, OrNew, NewDocument, Document
  <2> HIDE DEF D
  <2> QED BY <1>4, <1>6, <2>1 DEF Kimi!Parses, Kimi!ReadHooks
<1>8. Kimi!Contracts(z) = {a}
  <2> DEFINE found(n) == OneIds(OrNew(z[n]).hooks, Triple, Three)
  <2>1. \A n \in D : found(n) = {a}
    <3> TAKE n \in D
    <3>1. OrNew(z[n]) = z[n] BY <1>5 DEF After
    <3>2. Three \in SUBSET Forms /\ "exact" \in Three BY DEF Three, Forms
    <3>3. After("kimi", ds[n], z[n], a, FlatWay(Three)) /\ Fits("kimi", FlatWay(Three))
      BY <1>5, KimiFits DEF KimiWay
    <3>4. OnlyHandlers(z[n].hooks, Events("kimi"), Three, a) BY <3>2, <3>3, HandlersTaken
    <3> QED BY <3>1, <3>4, KimiFits DEF OnlyHandlers
  <2>2. Kimi!Contracts(z) = UNION {found(n) : n \in Kimi!Detected(z)} BY KimiOps
  <2>3. Kimi!Contracts(z) = UNION {found(n) : n \in D}
    <3> HIDE DEF found, D
    <3> QED BY <1>4, <2>2
  <2> HIDE DEF found, D
  <2> QED BY <1>1, <2>1, <2>3
<1>9. Kimi!Install(z, a) = z
  <2>1. \A n \in D : KimiAddition(z[n], a) = z[n]
    <3> TAKE n \in D
    <3>1. /\ OrNew(z[n]) = z[n] /\ z[n] = Document(z[n].root, z[n].hooks)
          /\ Renewed(z[n].hooks, Triple, a, KimiWay) = z[n].hooks
      BY <1>5, KimiFits DEF After
    <3>2. n \in Names("kimi") BY <1>2
    <3>3. KimiAddition(z[n], a)
            = Document(OrNew(z[n]).root, Renewed(OrNew(z[n]).hooks, Triple, a, KimiWay))
      BY <3>2, KimiAdded
    <3> QED BY <3>1, <3>3
  <2>2. Kimi!Install(z, a) =
          [n \in Names("kimi") |->
             IF n = "homes" THEN Document(D, <<>>)
             ELSE IF n \in D THEN KimiAddition(z[n], a) ELSE z[n]]
    BY <1>1, <1>4, KimiOps
  <2>3. z = [n \in Names("kimi") |-> z[n]] BY DEF WellFormed
  <2> HIDE DEF D
  <2>4. \A n \in Names("kimi") :
          (IF n = "homes" THEN Document(D, <<>>) ELSE IF n \in D THEN KimiAddition(z[n], a) ELSE z[n])
            = z[n]
    BY <1>3, <2>1
  <2> QED BY <2>2, <2>3, <2>4
<1> QED BY <1>7, <1>8, <1>9, KimiFields DEF Takes

(* An installation leaves the homes as they are detected.                  *)
LEMMA KimiClears == Clears("kimi")
<1> SUFFICES ASSUME NEW ds, WellFormed("kimi", ds), NEW a \in Agents
             PROVE  Kimi!Detected(Kimi!Install(ds, a)) = Kimi!Detected(ds)
  BY KimiFields, KimiFits DEF Clears
<1>1. Kimi!Detected(ds) # {} /\ DOMAIN ds = Names("kimi") /\ "homes" \in Names("kimi")
  BY KimiHomes, KimiFits
<1> DEFINE D == Kimi!Detected(ds)
           new == Kimi!Install(ds, a)
<1>2. new["homes"] = Document(D, <<>>) BY <1>1, KimiOps
<1>3. Document(D, <<>>).root = D BY DEF Document
<1> HIDE DEF D, new
<1>4. Kimi!Detected(new) = D BY <1>1, <1>2, <1>3 DEF Kimi!Detected, D
<1> QED BY <1>4 DEF D, new

(* Kimi: every installation takes and is steady, every removal clean.      *)
LEMMA KimiSound == Sound("kimi")
<1>1. Looks("kimi", KimiWay) BY DEF Looks, Recognised, KimiWay, FlatWay, Three
<1>2. Clears("kimi") BY KimiClears
<1> QED BY <1>1, <1>2, KimiFits, KimiPerforms, KimiRepeats, HostSound

-----------------------------------------------------------------------------
(* Hosts with a file for one agent.                                        *)
WrapperOf(a, es) == Document({}, [e \in es |-> <<Handler(a, e)>>])

(* What a list of one handler is.                                          *)
LEMMA OneHandler ==
  ASSUME NEW a \in Agents, NEW e
  PROVE  LET l == <<Handler(a, e)>>
         IN  /\ l \in Seq(Listed) /\ DOMAIN l = {1} /\ Len(l) = 1 /\ l[1] = Handler(a, e)
             /\ AllUsers(l) = <<>>
             /\ \A y : ListHas(l, y) => y = Handler(a, e)
             /\ \A b : RunsAt(l, b) <=> b = a
<1> DEFINE l == <<Handler(a, e)>>
<1>1. /\ Handler(a, e) \in Listed /\ InElement(Handler(a, e)) = <<Handler(a, e)>>
      /\ \A y : Has(Handler(a, e), y) <=> y = Handler(a, e)
      /\ \A b : Runs(Handler(a, e), b) <=> b = a
  <2>1. Three \in SUBSET Forms /\ "exact" \in Three BY DEF Three, Forms
  <2>2. IsWay(FlatWay(Three)) /\ Item(a, e, FlatWay(Three)) = Handler(a, e) BY <2>1, FlatIsWay
  <2> QED BY <2>2, ItemFacts
<1>2. l \in Seq(Listed) /\ DOMAIN l = {1} /\ Len(l) = 1 /\ l[1] = Handler(a, e) BY <1>1
<1>3. a # User BY HostAssumption
<1>4. Handler(a, e).owner = a BY DEF Handler
<1> HIDE DEF l
<1>5. AllUsers(l) = <<>> BY <1>2, <1>3, <1>4, NoUsers
<1>6. \A y : ListHas(l, y) => y = Handler(a, e) BY <1>1, <1>2 DEF ListHas
<1>7. \A b : RunsAt(l, b) <=> b = a BY <1>1, <1>2 DEF RunsAt
<1> QED BY <1>2, <1>5, <1>6, <1>7 DEF l

(* A file for the handlers of one agent.                                   *)
LEMMA WrapperParts ==
  ASSUME NEW a \in Agents, NEW es \in SUBSET AllEvents
  PROVE  LET d == WrapperOf(a, es)
         IN  /\ IsDocument(d, Listed) /\ d # NoFile /\ OrNew(d) = d /\ d.root = {}
             /\ DOMAIN d.hooks = es
             /\ \A e \in es : d.hooks[e] = <<Handler(a, e)>>
             /\ \A e : At(d.hooks, e) = IF e \in es THEN <<Handler(a, e)>> ELSE <<>>
<1> DEFINE N == [e \in es |-> <<Handler(a, e)>>]
           d == WrapperOf(a, es)
           w == FlatWay(Three)
<1>1. Kind(w) = Listed BY DEF FlatWay, Kind
<1>2. DOMAIN N = es /\ N = [e \in DOMAIN N |-> N[e]] /\ \A e \in es : N[e] = <<Handler(a, e)>>
  OBVIOUS
<1>3. \A e : <<Handler(a, e)>> \in Seq(Listed) BY OneHandler
<1>4. d = Document({}, N) BY DEF WrapperOf
<1> HIDE DEF N, d, w
<1>5. IsHooks(N, w) BY <1>1, <1>2, <1>3 DEF IsHooks
<1>6. {} \in SUBSET Fields OBVIOUS
<1>7. IsDocument(d, Listed) /\ d # NoFile /\ d.root = {} /\ d.hooks = N
  BY <1>1, <1>4, <1>5, <1>6, DocumentMade
<1>8. OrNew(d) = d BY <1>7 DEF OrNew
<1>9. \A e : At(d.hooks, e) = IF e \in es THEN <<Handler(a, e)>> ELSE <<>>
  BY <1>2, <1>7 DEF At
<1> QED BY <1>2, <1>7, <1>8, <1>9 DEF d

(* It has no handler of another agent.                                     *)
LEMMA WrapperKnows ==
  ASSUME NEW a \in Agents, NEW es \in SUBSET AllEvents, NEW h, NEW e, NEW b, b # a
  PROVE  ~Knows(h, At(OrNew(WrapperOf(a, es)).hooks, e), e, b)
<1> DEFINE d == WrapperOf(a, es)
<1>1. OrNew(d) = d /\ \A f : At(d.hooks, f) = IF f \in es THEN <<Handler(a, f)>> ELSE <<>>
  BY WrapperParts
<1> HIDE DEF d
<1>2. CASE e \in es
  <2> DEFINE x == Handler(a, e)
  <2>1. At(OrNew(d).hooks, e) = <<x>> BY <1>1, <1>2
  <2>2. x.owner = a /\ "hooks" \notin DOMAIN x BY DEF Handler
  <2>3. InElement(x) = <<x>> BY <2>2 DEF InElement
  <2> HIDE DEF x
  <2>4. DOMAIN <<x>> = {1} /\ <<x>>[1] = x OBVIOUS
  <2>5. ~Known(h, x, e, b) BY <2>2, <2>3, <2>4 DEF Known, Some, Refers
  <2> QED BY <2>1, <2>4, <2>5 DEF Knows, Some, d
<1>3. CASE e \notin es
  <2>1. At(OrNew(d).hooks, e) = <<>> BY <1>1, <1>3
  <2>2. DOMAIN <<>> = {} OBVIOUS
  <2> QED BY <2>1, <2>2 DEF Knows, Some, d
<1> QED BY <1>2, <1>3

\* A file in which every handler is an agent's.
AgentsOnly(doc) ==
  /\ OrNew(doc).root \subseteq Plain
  /\ \A e \in AllEvents : \A i \in DOMAIN At(OrNew(doc).hooks, e) :
       At(OrNew(doc).hooks, e)[i].owner # User

(* No handler without a file.                                              *)
LEMMA NoFileAgents == AgentsOnly(NoFile)
<1>1. OrNew(NoFile).root = {} /\ OrNew(NoFile).hooks = <<>>
  BY DEF OrNew, NewDocument, Document
<1>2. \A e : At(<<>>, e) = <<>> BY NewHooks
<1>3. DOMAIN <<>> = {} OBVIOUS
<1> QED BY <1>1, <1>2, <1>3 DEF AgentsOnly

(* The agents' file may be written over with a file of theirs.             *)
LEMMA WrapperFile ==
  ASSUME NEW h, NEW n, Elements(h) = Listed, NEW old, old # NoFile => IsDocument(old, Listed),
         AgentsOnly(old), NEW es \in SUBSET AllEvents, NEW fs \in SUBSET es, NEW a \in Agents,
         Contained(h, n, WrapperOf(a, fs))
  PROVE  FileChanged(h, n, WrapperOf(a, fs), old, es, a)
<1> DEFINE H == OrNew(old).hooks
           d == WrapperOf(a, fs)
           w == FlatWay(Three)
<1>1. Kind(w) = Listed BY DEF FlatWay, Kind
<1> HIDE DEF w
<1>2. IsHooks(H, w) BY <1>1, OrNewParts
<1>3. fs \in SUBSET AllEvents OBVIOUS
<1>4. /\ IsDocument(d, Listed) /\ OrNew(d) = d
      /\ \A e : At(d.hooks, e) = IF e \in fs THEN <<Handler(a, e)>> ELSE <<>>
  BY <1>3, WrapperParts
<1> HIDE DEF H, d
<1>5. \A e : At(H, e) \in Seq(Listed) BY <1>1, <1>2, AtType
<1>6. \A e \in AllEvents : AllUsers(At(H, e)) = <<>> BY <1>5, NoUsers DEF H, AgentsOnly
<1>7. \A e : /\ AllUsers(At(d.hooks, e)) = <<>>
             /\ \A y : ListHas(At(d.hooks, e), y) => e \in fs /\ y = Handler(a, e)
             /\ \A b : RunsAt(At(d.hooks, e), b) => b = a
  <2> TAKE e
  <2>1. CASE e \in fs
    <3>1. At(d.hooks, e) = <<Handler(a, e)>> BY <1>4, <2>1
    <3>2. /\ AllUsers(<<Handler(a, e)>>) = <<>>
          /\ \A y : ListHas(<<Handler(a, e)>>, y) => y = Handler(a, e)
          /\ \A b : RunsAt(<<Handler(a, e)>>, b) <=> b = a
      BY OneHandler
    <3> QED BY <2>1, <3>1, <3>2
  <2>2. CASE e \notin fs
    <3>1. At(d.hooks, e) = <<>> BY <1>4, <2>2
    <3>2. DOMAIN <<>> = {} OBVIOUS
    <3>3. (\A y : ~ListHas(<<>>, y)) /\ \A b : ~RunsAt(<<>>, b)
      BY <3>2 DEF ListHas, RunsAt
    <3> QED BY <3>1, <3>3, AllUsersEmpty
  <2> QED BY <2>1, <2>2
<1>8. Drawn(d.hooks, H, es, a) BY <1>6, <1>7 DEF Drawn
<1>9. OrNew(old).root \ Plain \subseteq d.root BY DEF AgentsOnly
<1> QED BY <1>4, <1>8, <1>9 DEF FileChanged, H, d

(* A removed file runs nothing.                                            *)
LEMMA AgentsGone ==
  ASSUME NEW h, NEW n, Elements(h) = Listed, NEW old, old # NoFile => IsDocument(old, Listed),
         AgentsOnly(old), NEW es, NEW c
  PROVE  FileChanged(h, n, NoFile, old, es, c)
BY AgentsFile DEF AgentsOnly

-----------------------------------------------------------------------------
(* OpenCode.                                                               *)
Current == {"exact", "moved"}
Earlier == {"legacy"}

OpenCodeFinds(doc, a, forms) ==
  /\ doc # NoFile /\ DOMAIN doc.hooks = Pair
  /\ \A e \in Pair : DOMAIN doc.hooks[e] = {1} /\ Refers(doc.hooks[e][1], e, {a}, forms)

(* The agent of OpenCode's plugin file.                                    *)
LEMMA OpenCodeContract ==
  ASSUME NEW doc, doc # NoFile => IsDocument(doc, Listed), NEW ids, NEW forms
  PROVE  OpenCode!Contract(doc, ids, forms) = {a \in ids : OpenCodeFinds(doc, a, forms)}
<1>1. \A a : OpenCodeFinds(doc, a, forms) <=>
         /\ doc # NoFile /\ DOMAIN doc.hooks = Pair
         /\ \A e \in Pair : OpenCode!One(DOMAIN doc.hooks[e]) /\ Refers(doc.hooks[e][1], e, {a}, forms)
  <2> SUFFICES ASSUME doc # NoFile, DOMAIN doc.hooks = Pair, NEW e \in Pair
               PROVE  OpenCode!One(DOMAIN doc.hooks[e]) <=> DOMAIN doc.hooks[e] = {1}
    BY DEF OpenCodeFinds
  <2> DEFINE l == doc.hooks[e]
  <2>1. l \in Seq(Listed)
    <3>1. Kind(FlatWay(Three)) = Listed BY DEF FlatWay, Kind
    <3>2. IsHooks(doc.hooks, FlatWay(Three)) BY <3>1, DocumentParts
    <3> QED BY <3>1, <3>2 DEF IsHooks
  <2> HIDE DEF l
  <2>2. DOMAIN l = 1 .. Len(l) /\ Len(l) \in Nat BY <2>1
  <2>3. ASSUME NEW x, DOMAIN l = {x} PROVE DOMAIN l = {1}
    <3>1. Len(l) >= 1
      <4>1. x \in 1 .. Len(l) BY <2>2, <2>3
      <4> QED BY <2>2, <4>1
    <3>2. 1 \in DOMAIN l BY <2>2, <3>1
    <3> QED BY <2>3, <3>2
  <2>4. OpenCode!One(DOMAIN l) <=> \E x \in DOMAIN l : DOMAIN l = {x} BY DEF OpenCode!One
  <2>5. OpenCode!One(DOMAIN l) <=> DOMAIN l = {1} BY <2>3, <2>4
  <2> QED BY <2>5 DEF l
<1>2. OpenCode!Contract(doc, ids, forms) =
        {a \in ids : /\ doc # NoFile /\ DOMAIN doc.hooks = Pair
                     /\ \A e \in Pair : /\ OpenCode!One(DOMAIN doc.hooks[e])
                                        /\ Refers(doc.hooks[e][1], e, {a}, forms)}
  BY DEF OpenCode!Contract, OpenCode!Events, Pair, OpenCode!Refers, Refers,
    OpenCode!ScriptOf, ScriptOf
<1> QED BY <1>1, <1>2

(* The file of an agent is all its own.                                    *)
LEMMA OpenCodeOwner ==
  ASSUME NEW doc, NEW a, NEW forms, OpenCodeFinds(doc, a, forms),
         NEW e, NEW i \in DOMAIN At(doc.hooks, e)
  PROVE  At(doc.hooks, e)[i].owner = a
<1>1. DOMAIN <<>> = {} OBVIOUS
<1>2. e \in Pair BY <1>1 DEF At, OpenCodeFinds
<1>3. At(doc.hooks, e) = doc.hooks[e] BY <1>2 DEF At, OpenCodeFinds
<1>4. i = 1 BY <1>2, <1>3 DEF OpenCodeFinds
<1> QED BY <1>2, <1>3, <1>4 DEF OpenCodeFinds, Refers

(* The files of OpenCode.                                                  *)
LEMMA OpenCodeHost ==
  /\ Names("opencode") = {"current", "legacy"} /\ Elements("opencode") = Listed
  /\ Events("opencode") = Pair
  /\ \A ds : Written("opencode", ds) = {"current"}
  /\ \A n, d : Contained("opencode", n, d) <=> d.root \subseteq {"version", "hooks", "malformed"}
<1>1. Names("opencode") = {"current", "legacy"} BY DEF Names
<1>2. Elements("opencode") = Listed BY DEF Elements
<1>3. Events("opencode") = Pair BY DEF Events, Pair
<1>4. \A ds : Written("opencode", ds) = {"current"} BY DEF Written
<1>5. \A n, d : Contained("opencode", n, d) <=> d.root \subseteq {"version", "hooks", "malformed"}
  BY DEF Contained, HasSettings
<1> QED BY <1>1, <1>2, <1>3, <1>4, <1>5

(* What the plugin says of a set of documents, by its operators.           *)
LEMMA OpenCodeFields ==
  \A ds : /\ PluginOf("opencode", ds).parses <=> OpenCode!Parses(ds)
          /\ PluginOf("opencode", ds).refused <=> OpenCode!Disabled(ds)
          /\ PluginOf("opencode", ds).enabled <=> ~OpenCode!Disabled(ds)
          /\ PluginOf("opencode", ds).contracts = OpenCode!Contracts(ds)
          /\ "whole" \in PluginOf("opencode", ds).files
          /\ \A a \in Agents : /\ PluginOf("opencode", ds).install[a] = OpenCode!Install(ds, a)
                               /\ PluginOf("opencode", ds).uninstall[a] = OpenCode!Uninstall(ds, a)
<1> TAKE ds
<1>1. PluginOf("opencode", ds) = OpenCode!Plugin(ds) BY DEF PluginOf
<1> DEFINE off == OpenCode!Disabled(ds)
           on == ~off
<1>2. OpenCode!Plugin(ds).refused = off /\ OpenCode!Plugin(ds).enabled = on
  BY DEF OpenCode!Plugin
<1>3. on \in BOOLEAN /\ off \in BOOLEAN BY DEF OpenCode!Disabled
<1>4. on <=> ~off OBVIOUS
<1> HIDE DEF on, off
<1>5. /\ OpenCode!Plugin(ds).parses <=> OpenCode!Parses(ds)
      /\ OpenCode!Plugin(ds).contracts = OpenCode!Contracts(ds)
      /\ "whole" \in OpenCode!Plugin(ds).files
      /\ \A a \in Agents : /\ OpenCode!Plugin(ds).install[a] = OpenCode!Install(ds, a)
                           /\ OpenCode!Plugin(ds).uninstall[a] = OpenCode!Uninstall(ds, a)
  BY DEF OpenCode!Plugin, OpenCode!RuntimeFiles
<1>6. (OpenCode!Plugin(ds).refused <=> off) /\ (OpenCode!Plugin(ds).enabled <=> ~off)
  BY <1>2, <1>3, <1>4
<1> QED BY <1>1, <1>5, <1>6 DEF off

\* A file, taken away if it is an agent's.
OpenCodeLeft(doc, ids, forms) ==
  IF \E a \in ids : OpenCodeFinds(doc, a, forms) THEN NoFile ELSE doc

(* The operators of the plugin, in the terms used here.                    *)
LEMMA OpenCodeOps ==
  ASSUME NEW ds, WellFormed("opencode", ds), NEW a
  PROVE  /\ OpenCode!Install(ds, a) = [current |-> WrapperOf(a, Pair),
                                       legacy |-> OpenCodeLeft(ds["legacy"], Agents, Earlier)]
         /\ OpenCode!Uninstall(ds, a) = [current |-> OpenCodeLeft(ds["current"], {a}, Current),
                                         legacy |-> OpenCodeLeft(ds["legacy"], {a}, Earlier)]
         /\ OpenCode!Disabled(ds) <=> /\ ds["current"] # NoFile
                                      /\ ~\E b \in Agents : OpenCodeFinds(ds["current"], b, Current)
         /\ OpenCode!Parses(ds) <=>
              ((\E e \in Pair : \E i \in DOMAIN At(OrNew(ds["current"]).hooks, e) :
                  At(OrNew(ds["current"]).hooks, e)[i].owner \in Agents)
                => \E b \in Agents : OpenCodeFinds(ds["current"], b, Current))
         /\ OpenCode!Contracts(ds) =
              IF \E b \in Agents : OpenCodeFinds(ds["legacy"], b, Earlier) THEN {}
              ELSE {b \in Agents : OpenCodeFinds(ds["current"], b, Current)}
<1>1. \A n \in {"current", "legacy"} : ds[n] # NoFile => IsDocument(ds[n], Listed)
  BY OpenCodeHost DEF WellFormed
<1>2. /\ \A ids : OpenCode!CurrentContract(ds, ids) = {b \in ids : OpenCodeFinds(ds["current"], b, Current)}
      /\ \A ids : OpenCode!LegacyContract(ds, ids) = {b \in ids : OpenCodeFinds(ds["legacy"], b, Earlier)}
  BY <1>1, OpenCodeContract DEF OpenCode!CurrentContract, OpenCode!LegacyContract, Current, Earlier
<1>3. /\ \A ids : OpenCode!CurrentContract(ds, ids) # {} <=> \E b \in ids : OpenCodeFinds(ds["current"], b, Current)
      /\ \A ids : OpenCode!LegacyContract(ds, ids) # {} <=> \E b \in ids : OpenCodeFinds(ds["legacy"], b, Earlier)
  BY <1>2
<1>4. OpenCode!PluginFile(a) = WrapperOf(a, Pair)
  BY DEF OpenCode!PluginFile, WrapperOf, OpenCode!Document, Document, OpenCode!Handler, Handler,
    OpenCode!ScriptOf, ScriptOf, OpenCode!Events, Pair
<1>5. /\ \A ids : OpenCode!Remove(ds, "current", OpenCode!CurrentContract(ds, ids))
                    = OpenCodeLeft(ds["current"], ids, Current)
      /\ \A ids : OpenCode!Remove(ds, "legacy", OpenCode!LegacyContract(ds, ids))
                    = OpenCodeLeft(ds["legacy"], ids, Earlier)
  BY <1>3 DEF OpenCode!Remove, OpenCodeLeft
<1>6. OpenCode!Install(ds, a) = [current |-> WrapperOf(a, Pair),
                                 legacy |-> OpenCodeLeft(ds["legacy"], Agents, Earlier)]
  BY <1>4, <1>5 DEF OpenCode!Install
<1>7. OpenCode!Uninstall(ds, a) = [current |-> OpenCodeLeft(ds["current"], {a}, Current),
                                   legacy |-> OpenCodeLeft(ds["legacy"], {a}, Earlier)]
  BY <1>5 DEF OpenCode!Uninstall
<1>8. OpenCode!Disabled(ds) <=> /\ ds["current"] # NoFile
                                /\ ~\E b \in Agents : OpenCodeFinds(ds["current"], b, Current)
  BY <1>3 DEF OpenCode!Disabled
<1>9. OpenCode!Parses(ds) <=>
              ((\E e \in Pair : \E i \in DOMAIN At(OrNew(ds["current"]).hooks, e) :
                  At(OrNew(ds["current"]).hooks, e)[i].owner \in Agents)
                => \E b \in Agents : OpenCodeFinds(ds["current"], b, Current))
  <2>1. OpenCode!Parses(ds) <=>
              ((\E e \in Pair : \E i \in DOMAIN At(OrNew(ds["current"]).hooks, e) :
                  At(OrNew(ds["current"]).hooks, e)[i].owner \in Agents)
                => OpenCode!CurrentContract(ds, Agents) # {})
    BY DEF OpenCode!Parses, OpenCode!Some, OpenCode!Events, Pair, OpenCode!At, At,
      OpenCode!OrNew, OrNew, OpenCode!NewDocument, NewDocument, OpenCode!Document, Document
  <2> QED BY <1>3, <2>1
<1>10. OpenCode!Contracts(ds) =
              IF \E b \in Agents : OpenCodeFinds(ds["legacy"], b, Earlier) THEN {}
              ELSE {b \in Agents : OpenCodeFinds(ds["current"], b, Current)}
  BY <1>2, <1>3 DEF OpenCode!Contracts
<1> QED BY <1>6, <1>7, <1>8, <1>9, <1>10

(* The agents OpenCode's files have.                                       *)
LEMMA OpenCodeAgents ==
  ASSUME NEW ds, WellFormed("opencode", ds), NEW n \in {"current", "legacy"}, NEW a \in Agents,
         NEW forms, OpenCodeFinds(ds[n], a, forms)
  PROVE  AgentsOnly(ds[n])
<1>1. ds[n] # NoFile BY DEF OpenCodeFinds
<1>2. OrNew(ds[n]) = ds[n] BY <1>1 DEF OrNew
<1>3. Contained("opencode", n, ds[n]) BY <1>1, OpenCodeHost DEF WellFormed
<1>4. ds[n].root \subseteq Plain BY <1>3, OpenCodeHost DEF Plain
<1>5. a # User BY HostAssumption
<1>6. \A e : \A i \in DOMAIN At(ds[n].hooks, e) : At(ds[n].hooks, e)[i].owner = a
  BY OpenCodeOwner
<1> QED BY <1>2, <1>4, <1>5, <1>6 DEF AgentsOnly

(* What a removal leaves of OpenCode's files.                              *)
LEMMA OpenCodeLeftFile ==
  ASSUME NEW ds, WellFormed("opencode", ds), NEW n \in {"current", "legacy"},
         NEW ids \in SUBSET Agents, NEW forms, NEW es, NEW c
  PROVE  /\ FileChanged("opencode", n, OpenCodeLeft(ds[n], ids, forms), ds[n], es, c)
         /\ \A a \in ids : ~OpenCodeFinds(OpenCodeLeft(ds[n], ids, forms), a, forms)
<1>1. n \in Names("opencode") BY OpenCodeHost
<1>2. ds[n] # NoFile => IsDocument(ds[n], Listed) BY <1>1, OpenCodeHost DEF WellFormed
<1>3. CASE \E a \in ids : OpenCodeFinds(ds[n], a, forms)
  <2>1. OpenCodeLeft(ds[n], ids, forms) = NoFile BY <1>3 DEF OpenCodeLeft
  <2>2. AgentsOnly(ds[n]) BY <1>3, OpenCodeAgents
  <2>3. FileChanged("opencode", n, NoFile, ds[n], es, c)
    BY <1>2, <2>2, AgentsGone, OpenCodeHost
  <2> QED BY <2>1, <2>3 DEF OpenCodeFinds
<1>4. CASE ~\E a \in ids : OpenCodeFinds(ds[n], a, forms)
  <2>1. OpenCodeLeft(ds[n], ids, forms) = ds[n] BY <1>4 DEF OpenCodeLeft
  <2> QED BY <1>1, <1>4, <2>1, FileSame
<1> QED BY <1>3, <1>4

(* OpenCode's two files.                                                   *)
LEMMA OpenCodeTwo ==
  ASSUME NEW x, NEW y
  PROVE  LET z == [current |-> x, legacy |-> y]
         IN  z["current"] = x /\ z["legacy"] = y /\ DOMAIN z = {"current", "legacy"}
             /\ z = [n \in {"current", "legacy"} |-> z[n]]
OBVIOUS

(* The plugin file of an agent.                                            *)
LEMMA OpenCodeWrapper ==
  ASSUME NEW a \in Agents
  PROVE  /\ \A b : OpenCodeFinds(WrapperOf(a, Pair), b, Current) <=> b = a
         /\ Contained("opencode", "current", WrapperOf(a, Pair))
         /\ WrapperOf(a, Pair) # NoFile
<1> DEFINE d == WrapperOf(a, Pair)
<1>1. Pair \in SUBSET AllEvents /\ Pair # {} BY DEF Pair, AllEvents
<1>2. /\ d # NoFile /\ d.root = {} /\ DOMAIN d.hooks = Pair
      /\ \A e \in Pair : d.hooks[e] = <<Handler(a, e)>>
  BY <1>1, WrapperParts
<1> HIDE DEF d
<1>3. \A e \in Pair : DOMAIN d.hooks[e] = {1} /\ d.hooks[e][1] = Handler(a, e)
  BY <1>2, OneHandler
<1>4. \A e, b : Refers(Handler(a, e), e, {b}, Current) <=> b = a
  BY OwnRefers DEF Current
<1> QED BY <1>1, <1>2, <1>3, <1>4, OpenCodeHost DEF OpenCodeFinds, d

(* OpenCode's installations.                                               *)
LEMMA OpenCodeInstalls ==
  ASSUME NEW ds, WellFormed("opencode", ds), NEW a \in Agents
  PROVE  LET z == OpenCode!Install(ds, a)
         IN  /\ OpenCode!Parses(ds) /\ ~OpenCode!Disabled(ds) =>
                  /\ Changed("opencode", z, ds, a) /\ Takes(PluginOf("opencode", z), a)
                  /\ Sole("opencode", z, a)
             /\ OpenCode!Install(z, a) = z
<1> DEFINE z == OpenCode!Install(ds, a)
           d == WrapperOf(a, Pair)
           g == OpenCodeLeft(ds["legacy"], Agents, Earlier)
<1>1. z = [current |-> d, legacy |-> g] BY OpenCodeOps
<1>2. \A b : OpenCodeFinds(d, b, Current) <=> b = a BY OpenCodeWrapper
<1>3. /\ \A es, c : FileChanged("opencode", "legacy", g, ds["legacy"], es, c)
      /\ \A b \in Agents : ~OpenCodeFinds(g, b, Earlier)
  BY OpenCodeLeftFile
<1>4. d # NoFile /\ Contained("opencode", "current", d) BY OpenCodeWrapper
<1>5. IsDocument(d, Listed) /\ (g # NoFile => IsDocument(g, Listed) /\ Contained("opencode", "legacy", g))
  <2>1. Pair \in SUBSET AllEvents BY DEF Pair, AllEvents
  <2>2. IsDocument(d, Listed) BY <2>1, WrapperParts
  <2> QED BY <1>3, <2>2, OpenCodeHost DEF FileChanged
<1> HIDE DEF d, g, z
<1>6. z["current"] = d /\ z["legacy"] = g /\ z = [n \in {"current", "legacy"} |-> z[n]]
  BY <1>1, OpenCodeTwo
<1>7. \A n \in {"current", "legacy"} : z[n] # NoFile => IsDocument(z[n], Listed)
  BY <1>5, <1>6
<1>8. /\ \A ids : OpenCode!CurrentContract(z, ids) = {b \in ids : OpenCodeFinds(d, b, Current)}
      /\ \A ids : OpenCode!LegacyContract(z, ids) = {b \in ids : OpenCodeFinds(g, b, Earlier)}
  BY <1>6, <1>7, OpenCodeContract DEF OpenCode!CurrentContract, OpenCode!LegacyContract, Current, Earlier
<1>9. OpenCode!LegacyContract(z, Agents) = {} /\ OpenCode!CurrentContract(z, Agents) = {a}
  BY <1>2, <1>3, <1>8
<1>10. OpenCode!Install(z, a) = z
  <2>1. OpenCode!PluginFile(a) = d
    BY DEF OpenCode!PluginFile, WrapperOf, OpenCode!Document, Document, OpenCode!Handler, Handler,
      OpenCode!ScriptOf, ScriptOf, OpenCode!Events, Pair, d
  <2>2. OpenCode!Remove(z, "legacy", {}) = g BY <1>6 DEF OpenCode!Remove
  <2>3. OpenCode!Install(z, a) = [current |-> OpenCode!PluginFile(a),
                                  legacy |-> OpenCode!Remove(z, "legacy", OpenCode!LegacyContract(z, Agents))]
    BY DEF OpenCode!Install
  <2>4. OpenCode!Install(z, a) = [current |-> d, legacy |-> g] BY <1>9, <2>1, <2>2, <2>3
  <2> QED BY <1>1, <2>4
<1>11. Takes(PluginOf("opencode", z), a)
  <2>1. {a} # {} OBVIOUS
  <2>2. OpenCode!Parses(z) BY <1>9, <2>1 DEF OpenCode!Parses
  <2>3. ~OpenCode!Disabled(z) BY <1>9, <2>1 DEF OpenCode!Disabled
  <2>4. OpenCode!Contracts(z) = {a} BY <1>9 DEF OpenCode!Contracts
  <2> QED BY <2>2, <2>3, <2>4, OpenCodeFields DEF Takes
<1>12. ASSUME OpenCode!Parses(ds), ~OpenCode!Disabled(ds) PROVE Changed("opencode", z, ds, a)
  <2>1. AgentsOnly(ds["current"])
    <3>1. ds["current"] = NoFile \/ \E b \in Agents : OpenCodeFinds(ds["current"], b, Current)
      BY <1>12, OpenCodeOps
    <3> QED BY <3>1, OpenCodeAgents, NoFileAgents
  <2>2. ds["current"] # NoFile => IsDocument(ds["current"], Listed) BY OpenCodeHost DEF WellFormed
  <2>3. Pair \in SUBSET AllEvents /\ Pair \in SUBSET Pair BY DEF Pair, AllEvents
  <2>4. FileChanged("opencode", "current", d, ds["current"], Pair, a)
    BY <1>4, <2>1, <2>2, <2>3, WrapperFile, OpenCodeHost DEF d
  <2>5. FileChanged("opencode", "legacy", g, ds["legacy"], {}, a) BY <1>3
  <2>6. "current" \in {"current"} /\ "legacy" \notin {"current"} OBVIOUS
  <2>7. \A n \in Names("opencode") :
          FileChanged("opencode", n, z[n], ds[n],
                      IF n \in Written("opencode", ds) THEN Events("opencode") ELSE {}, a)
    <3>1. \A n \in {"current", "legacy"} :
            FileChanged("opencode", n, z[n], ds[n], IF n \in {"current"} THEN Pair ELSE {}, a)
      BY <1>6, <2>4, <2>5, <2>6
    <3> QED BY <3>1, OpenCodeHost
  <2> QED BY <1>6, <2>7, OpenCodeHost DEF Changed
<1>13. Sole("opencode", z, a)
  <2>1. Pair \in SUBSET AllEvents BY DEF Pair, AllEvents
  <2>2. \A e : \A b \in Agents \ {a} : ~Knows("opencode", At(OrNew(d).hooks, e), e, b)
    BY <2>1, WrapperKnows DEF d
  <2> QED BY <1>6, <2>2, OpenCodeHost DEF Sole, ListAt
<1> QED BY <1>10, <1>11, <1>12, <1>13 DEF z

(* OpenCode's removals.                                                    *)
LEMMA OpenCodeUninstalls ==
  ASSUME NEW ds, WellFormed("opencode", ds), NEW a \in Agents, OpenCode!Parses(ds)
  PROVE  LET z == OpenCode!Uninstall(ds, a)
         IN  /\ Changed("opencode", z, ds, User)
             /\ \A n \in Names("opencode"), e \in AllEvents : ~RunsAt(ListAt(z, n, e), a)
<1> DEFINE z == OpenCode!Uninstall(ds, a)
           d == OpenCodeLeft(ds["current"], {a}, Current)
           g == OpenCodeLeft(ds["legacy"], {a}, Earlier)
<1>1. z = [current |-> d, legacy |-> g] BY OpenCodeOps
<1>2. {a} \in SUBSET Agents OBVIOUS
<1>3. /\ \A es, c : FileChanged("opencode", "current", d, ds["current"], es, c)
      /\ \A es, c : FileChanged("opencode", "legacy", g, ds["legacy"], es, c)
  BY <1>2, OpenCodeLeftFile
<1>4. /\ d = NoFile \/ (d = ds["current"] /\ ~OpenCodeFinds(ds["current"], a, Current))
      /\ g = NoFile \/ g = ds["legacy"]
  BY DEF OpenCodeLeft
<1> HIDE DEF d, g, z
<1>6. z["current"] = d /\ z["legacy"] = g /\ z = [n \in {"current", "legacy"} |-> z[n]]
  BY <1>1, OpenCodeTwo
<1>7. Changed("opencode", z, ds, User)
  <2>1. \A n \in {"current", "legacy"} : \A es, c : FileChanged("opencode", n, z[n], ds[n], es, c)
    BY <1>3, <1>6
  <2> QED BY <1>6, <2>1, OpenCodeHost DEF Changed
<1>8. \A e, b : ~RunsAt(At(OrNew(NoFile).hooks, e), b) BY NothingRuns
<1>9. \A e \in AllEvents : ~RunsAt(At(OrNew(g).hooks, e), a)
  <2>1. "legacy" \in Names("opencode") /\ "legacy" \notin Written("opencode", ds) BY OpenCodeHost
  <2>2. \A e \in AllEvents : ~RunsAt(ListAt(ds, "legacy", e), a) BY <2>1, ElsewhereRuns
  <2> QED BY <1>4, <1>8, <2>2 DEF ListAt
<1>10. \A e \in AllEvents : ~RunsAt(At(OrNew(d).hooks, e), a)
  <2>1. CASE d = NoFile BY <1>8, <2>1
  <2>2. CASE d = ds["current"] /\ d # NoFile /\ ~OpenCodeFinds(ds["current"], a, Current)
    <3> SUFFICES ASSUME NEW e \in AllEvents, RunsAt(At(d.hooks, e), a) PROVE FALSE
      BY <2>2 DEF OrNew
    <3> DEFINE l == At(d.hooks, e)
    <3>1. PICK i \in DOMAIN l : Runs(l[i], a) BY DEF RunsAt
    <3>2. OrNew(d) = d BY <2>2 DEF OrNew
    <3>3. l \in Seq(Listed)
      <4>1. IsDocument(d, Listed) BY <2>2, OpenCodeHost DEF WellFormed
      <4>2. Kind(FlatWay(Three)) = Listed BY DEF FlatWay, Kind
      <4>3. IsHooks(d.hooks, FlatWay(Three)) BY <4>1, <4>2, DocumentParts
      <4> QED BY <4>2, <4>3, AtType
    <3> HIDE DEF l
    <3>4. l[i] \in Listed BY <3>1, <3>3
    <3>5. l[i].owner = a /\ l[i].form = "exact" BY <3>1, <3>4, ElementKinds DEF Runs, Exact
    <3>6. e \in Pair
      <4>1. InElement(l[i]) = <<l[i]>> BY <3>4, ElementKinds
      <4>2. Has(l[i], l[i]) BY <4>1 DEF Has
      <4>3. ListHas(ListAt(ds, "current", e), l[i]) BY <2>2, <3>1, <3>2, <4>2 DEF ListHas, ListAt, l
      <4>4. InPlaceHas("opencode", ds) BY InPlaceIff DEF WellFormed
      <4>5. e \in Events("opencode") BY <3>5, <4>3, <4>4, OpenCodeHost DEF InPlaceHas
      <4> QED BY <4>5, OpenCodeHost
    <3>7. PICK b \in Agents : OpenCodeFinds(ds["current"], b, Current)
      BY <2>2, <3>1, <3>2, <3>5, <3>6, OpenCodeOps DEF l
    <3>8. l[i].owner = b BY <2>2, <3>1, <3>7, OpenCodeOwner DEF l
    <3> QED BY <2>2, <3>5, <3>7, <3>8
  <2> QED BY <1>4, <2>1, <2>2
<1>11. \A n \in Names("opencode"), e \in AllEvents : ~RunsAt(ListAt(z, n, e), a)
  BY <1>6, <1>9, <1>10, OpenCodeHost DEF ListAt
<1> QED BY <1>7, <1>11 DEF z

(* OpenCode: every installation takes and is steady, every removal clean.  *)
LEMMA OpenCodeSound == Sound("opencode")
<1> SUFFICES ASSUME NEW ds, WellFormed("opencode", ds), NEW a \in Agents
             PROVE  /\ OpenCode!Parses(ds) /\ ~OpenCode!Disabled(ds) => Installs("opencode", ds, a)
                    /\ OpenCode!Parses(ds) => Steady("opencode", ds, a)
                    /\ OpenCode!Parses(ds) => Uninstalls("opencode", ds, a)
  BY OpenCodeFields DEF Sound
<1>1. PluginOf("opencode", ds).install[a] = OpenCode!Install(ds, a)
      /\ PluginOf("opencode", ds).uninstall[a] = OpenCode!Uninstall(ds, a)
  BY OpenCodeFields
<1>2. OpenCode!Parses(ds) /\ ~OpenCode!Disabled(ds) => Installs("opencode", ds, a)
  BY <1>1, OpenCodeInstalls DEF Installs
<1>3. Steady("opencode", ds, a) BY <1>1, OpenCodeInstalls, OpenCodeFields DEF Steady
<1>4. OpenCode!Parses(ds) => Uninstalls("opencode", ds, a)
  BY <1>1, OpenCodeUninstalls DEF Uninstalls
<1> QED BY <1>2, <1>3, <1>4

-----------------------------------------------------------------------------
(* Cline.                                                                  *)
Readable == {"exact", "edited"}

ClineFinds(doc, n, ids) ==
  /\ doc # NoFile
  /\ \E i \in DOMAIN At(doc.hooks, Cline!EventOf(n)) :
       Refers(At(doc.hooks, Cline!EventOf(n))[i], Cline!EventOf(n), ids, Readable)

(* The files of Cline.                                                     *)
LEMMA ClineHost ==
  /\ Names("cline") = Cline!Files /\ Elements("cline") = Listed
  /\ Events("cline") = Pair
  /\ \A ds : Written("cline", ds) = Cline!Files
  /\ \A n, d : Contained("cline", n, d) <=>
       /\ d.root \subseteq {"version", "hooks", "malformed"}
       /\ DOMAIN d.hooks \subseteq {Cline!EventOf(n)}
       /\ \A e \in DOMAIN d.hooks : Len(d.hooks[e]) <= 1
  /\ \A n : Cline!EventOf(n) \in Pair
<1>1. Names("cline") = Cline!Files BY DEF Names
<1>2. Elements("cline") = Listed BY DEF Elements
<1>3. Events("cline") = Pair BY DEF Events, Pair
<1>4. \A ds : Written("cline", ds) = Cline!Files BY DEF Written
<1>5. \A n, d : Contained("cline", n, d) <=>
       /\ d.root \subseteq {"version", "hooks", "malformed"}
       /\ DOMAIN d.hooks \subseteq {Cline!EventOf(n)}
       /\ \A e \in DOMAIN d.hooks : Len(d.hooks[e]) <= 1
  BY DEF Contained, HasSettings
<1>6. \A n : Cline!EventOf(n) \in Pair BY DEF Cline!EventOf, Pair
<1> QED BY <1>1, <1>2, <1>3, <1>4, <1>5, <1>6

(* The agent that a wrapper of Cline names.                                *)
LEMMA ClineMetadata ==
  \A doc, n, ids : Cline!Metadata(doc, n, ids) <=> ClineFinds(doc, n, ids)
BY DEF Cline!Metadata, ClineFinds, Readable, Cline!Some, Cline!Refers, Refers,
  Cline!ScriptOf, ScriptOf, Cline!At, At

(* What the plugin says of a set of documents, by its operators.           *)
LEMMA ClineFields ==
  \A ds : /\ PluginOf("cline", ds).refused <=>
               \E n \in Cline!Files : ds[n] # NoFile /\ ~ClineFinds(ds[n], n, Agents)
          /\ PluginOf("cline", ds).parses <=>
               \A n \in Cline!Files : ds[n] # NoFile => "malformed" \notin ds[n].root
          /\ PluginOf("cline", ds).enabled = TRUE
          /\ PluginOf("cline", ds).contracts =
               {a \in Agents : \A n \in Cline!Files :
                  ClineFinds(ds[n], n, {a}) /\ Cline!Intact(ds[n], n)}
          /\ "whole" \in PluginOf("cline", ds).files
          /\ \A a \in Agents : PluginOf("cline", ds).install[a]
               = [n \in Cline!Files |-> WrapperOf(a, {Cline!EventOf(n)})]
<1> TAKE ds
<1>1. PluginOf("cline", ds) = Cline!Plugin(ds) BY DEF PluginOf
<1>2. /\ Cline!Plugin(ds).refused <=> Cline!Refused(ds)
      /\ Cline!Plugin(ds).parses <=> Cline!Parses(ds)
      /\ Cline!Plugin(ds).enabled = TRUE
      /\ Cline!Plugin(ds).contracts = Cline!Contracts(ds)
      /\ "whole" \in Cline!Plugin(ds).files
      /\ \A a \in Agents : Cline!Plugin(ds).install[a] = Cline!Install(ds, a)
  BY DEF Cline!Plugin, Cline!RuntimeFiles
<1>3. Cline!Refused(ds) <=> \E n \in Cline!Files : ds[n] # NoFile /\ ~ClineFinds(ds[n], n, Agents)
  BY ClineMetadata DEF Cline!Refused
<1>4. Cline!Parses(ds) <=> \A n \in Cline!Files : ds[n] # NoFile => "malformed" \notin ds[n].root
  BY DEF Cline!Parses
<1>5. Cline!Contracts(ds) = {a \in Agents : \A n \in Cline!Files :
                               ClineFinds(ds[n], n, {a}) /\ Cline!Intact(ds[n], n)}
  BY ClineMetadata DEF Cline!Contracts
<1>6. \A a : Cline!Install(ds, a) = [n \in Cline!Files |-> WrapperOf(a, {Cline!EventOf(n)})]
  <2>1. \A a, n : Cline!Wrapper(a, n) = WrapperOf(a, {Cline!EventOf(n)})
    BY DEF Cline!Wrapper, WrapperOf, Cline!Document, Document, Cline!Handler, Handler,
      Cline!ScriptOf, ScriptOf
  <2> QED BY <2>1 DEF Cline!Install
<1> QED BY <1>1, <1>2, <1>3, <1>4, <1>5, <1>6

(* Cline's removal, file by file.                                          *)
LEMMA ClineUninstall ==
  \A ds : \A a \in Agents : PluginOf("cline", ds).uninstall[a]
    = [n \in Cline!Files |-> IF ClineFinds(ds[n], n, {a}) THEN NoFile ELSE ds[n]]
<1> TAKE ds
<1> TAKE a \in Agents
<1>1. PluginOf("cline", ds) = Cline!Plugin(ds) BY DEF PluginOf
<1>2. Cline!Plugin(ds).uninstall[a] = Cline!Uninstall(ds, a) BY DEF Cline!Plugin
<1>3. Cline!Uninstall(ds, a)
        = [n \in Cline!Files |-> IF ClineFinds(ds[n], n, {a}) THEN NoFile ELSE ds[n]]
  BY ClineMetadata DEF Cline!Uninstall
<1> QED BY <1>1, <1>2, <1>3

(* The plugin's removal and addition are those of its way.                 *)
LEMMA ClineLists ==
  ASSUME NEW ds, WellFormed("cline", ds), NEW n \in Cline!Files, ds[n] # NoFile
  PROVE  /\ IsDocument(ds[n], Listed) /\ OrNew(ds[n]) = ds[n]
         /\ ds[n].root \subseteq Plain
         /\ \A e : At(ds[n].hooks, e) \in Seq(Listed)
         /\ \A e : \A i \in DOMAIN At(ds[n].hooks, e) : e = Cline!EventOf(n) /\ i = 1
<1>1. IsDocument(ds[n], Listed) /\ Contained("cline", n, ds[n]) BY ClineHost DEF WellFormed
<1>2. OrNew(ds[n]) = ds[n] BY DEF OrNew
<1>3. ds[n].root \subseteq Plain BY <1>1, ClineHost DEF Plain
<1>4. \A e : At(ds[n].hooks, e) \in Seq(Listed)
  <2>1. Kind(FlatWay(Three)) = Listed BY DEF FlatWay, Kind
  <2>2. IsHooks(ds[n].hooks, FlatWay(Three)) BY <1>1, <2>1, DocumentParts
  <2> QED BY <2>1, <2>2, AtType
<1>5. ASSUME NEW e, NEW i \in DOMAIN At(ds[n].hooks, e) PROVE e = Cline!EventOf(n) /\ i = 1
  <2> DEFINE H == ds[n].hooks
             l == At(H, e)
  <2>1. DOMAIN <<>> = {} OBVIOUS
  <2>2. e \in DOMAIN H /\ l = H[e] BY <1>5, <2>1 DEF At
  <2>3. e = Cline!EventOf(n) /\ Len(l) <= 1 BY <1>1, <2>2, ClineHost
  <2>4. l \in Seq(Listed) BY <1>4
  <2>5. i \in DOMAIN l BY <1>5
  <2> HIDE DEF l, H
  <2>6. i = 1
    <3>1. DOMAIN l = 1 .. Len(l) /\ Len(l) \in Nat BY <2>4
    <3> QED BY <2>3, <2>5, <3>1
  <2> QED BY <2>3, <2>6
<1> QED BY <1>1, <1>2, <1>3, <1>4, <1>5

(* The agents Cline's files have.                                          *)
LEMMA ClineAgents ==
  ASSUME NEW ds, WellFormed("cline", ds), NEW n \in Cline!Files, NEW ids \in SUBSET Agents,
         ClineFinds(ds[n], n, ids)
  PROVE  AgentsOnly(ds[n])
<1>1. ds[n] # NoFile BY DEF ClineFinds
<1>2. /\ OrNew(ds[n]) = ds[n] /\ ds[n].root \subseteq Plain
      /\ \A e : \A i \in DOMAIN At(ds[n].hooks, e) : e = Cline!EventOf(n) /\ i = 1
  BY <1>1, ClineLists
<1>3. PICK j \in DOMAIN At(ds[n].hooks, Cline!EventOf(n)) :
        Refers(At(ds[n].hooks, Cline!EventOf(n))[j], Cline!EventOf(n), ids, Readable)
  BY DEF ClineFinds
<1>4. At(ds[n].hooks, Cline!EventOf(n))[j].owner \in ids /\ j = 1 BY <1>2, <1>3 DEF Refers
<1>5. User \notin ids BY HostAssumption
<1>6. \A e : \A i \in DOMAIN At(ds[n].hooks, e) : At(ds[n].hooks, e)[i].owner # User
  BY <1>2, <1>4, <1>5
<1> QED BY <1>2, <1>6 DEF AgentsOnly

(* The wrapper of an agent.                                                *)
LEMMA ClineWrapper ==
  ASSUME NEW a \in Agents, NEW n
  PROVE  LET d == WrapperOf(a, {Cline!EventOf(n)})
         IN  /\ d # NoFile /\ d.root = {} /\ IsDocument(d, Listed)
             /\ Contained("cline", n, d)
             /\ \A b : ClineFinds(d, n, {b}) <=> b = a
             /\ Cline!Intact(d, n)
<1> DEFINE v == Cline!EventOf(n)
           d == WrapperOf(a, {v})
<1>1. v \in Pair BY ClineHost
<1>2. {v} \in SUBSET AllEvents BY <1>1 DEF Pair, AllEvents
<1>3. /\ IsDocument(d, Listed) /\ d # NoFile /\ d.root = {}
      /\ DOMAIN d.hooks = {v} /\ \A e \in {v} : d.hooks[e] = <<Handler(a, e)>>
      /\ \A e : At(d.hooks, e) = IF e \in {v} THEN <<Handler(a, e)>> ELSE <<>>
  BY <1>2, WrapperParts
<1>4. Len(<<Handler(a, v)>>) = 1 /\ DOMAIN <<Handler(a, v)>> = {1}
      /\ <<Handler(a, v)>>[1] = Handler(a, v)
  BY OneHandler
<1>5. \A b : Refers(Handler(a, v), v, {b}, Readable) <=> b = a BY OwnRefers DEF Readable
<1>6. Handler(a, v).form = "exact" BY DEF Handler
<1> DEFINE l == <<Handler(a, v)>>
<1>7. At(d.hooks, v) = l /\ DOMAIN l = {1} /\ l[1] = Handler(a, v) BY <1>3, <1>4
<1>8. Cline!Intact(d, n) <=> \A i \in DOMAIN At(d.hooks, v) : At(d.hooks, v)[i].form = "exact"
  BY DEF Cline!Intact, Cline!Every, Cline!At, At
<1>9. \A b : ClineFinds(d, n, {b}) <=> /\ d # NoFile
         /\ \E i \in DOMAIN At(d.hooks, v) : Refers(At(d.hooks, v)[i], v, {b}, Readable)
  BY DEF ClineFinds
<1>10. Contained("cline", n, d)
  <2> HIDE DEF d, l, v
  <2>1. \A e \in DOMAIN d.hooks : Len(d.hooks[e]) <= 1
    <3>1. d.hooks[v] = l BY <1>3 DEF l
    <3>2. Len(l) <= 1
      <4>1. Len(l) = 1 BY <1>4 DEF l
      <4> QED BY <4>1
    <3> QED BY <1>3, <3>1, <3>2
  <2>2. DOMAIN d.hooks = {v} /\ d.root = {} BY <1>3
  <2> QED BY <2>1, <2>2, ClineHost DEF v
<1> HIDE DEF d, l, v
<1>11. Cline!Intact(d, n) BY <1>6, <1>7, <1>8
<1>12. \A b : ClineFinds(d, n, {b}) <=> b = a
  <2> TAKE b
  <2>1. ClineFinds(d, n, {b}) <=> \E i \in DOMAIN At(d.hooks, v) :
                                   Refers(At(d.hooks, v)[i], v, {b}, Readable)
    <3>1. d # NoFile BY <1>3
    <3> QED BY <1>9, <3>1
  <2>2. ClineFinds(d, n, {b}) <=> Refers(Handler(a, v), v, {b}, Readable) BY <1>7, <2>1
  <2> QED BY <1>5, <2>2
<1> QED BY <1>3, <1>10, <1>11, <1>12 DEF d, v

(* Cline's installations.                                                  *)
LEMMA ClineInstalls ==
  ASSUME NEW ds, WellFormed("cline", ds), NEW a \in Agents
  PROVE  LET z == PluginOf("cline", ds).install[a]
         IN  /\ ~PluginOf("cline", ds).refused =>
                  /\ Changed("cline", z, ds, a) /\ Takes(PluginOf("cline", z), a)
                  /\ Sole("cline", z, a)
             /\ PluginOf("cline", z).install[a] = z
<1> DEFINE z == PluginOf("cline", ds).install[a]
           d(n) == WrapperOf(a, {Cline!EventOf(n)})
<1>1. z = [n \in Cline!Files |-> d(n)] BY ClineFields
<1>2. PluginOf("cline", z).install[a] = z
  <2>1. \A x : PluginOf("cline", x).install[a] = [n \in Cline!Files |-> d(n)] BY ClineFields
  <2> HIDE DEF z
  <2> QED BY <1>1, <2>1
<1>3. \A n : /\ d(n) # NoFile /\ d(n).root = {} /\ IsDocument(d(n), Listed)
             /\ Contained("cline", n, d(n))
             /\ \A b : ClineFinds(d(n), n, {b}) <=> b = a
             /\ Cline!Intact(d(n), n)
  BY ClineWrapper
<1> HIDE DEF z
<1>4. ASSUME ~PluginOf("cline", ds).refused PROVE Changed("cline", z, ds, a)
  <2>1. \A n \in Cline!Files : ds[n] = NoFile \/ ClineFinds(ds[n], n, Agents) BY <1>4, ClineFields
  <2>2. \A n \in Cline!Files : AgentsOnly(ds[n]) BY <2>1, ClineAgents, NoFileAgents
  <2>3. \A n \in Cline!Files : ds[n] # NoFile => IsDocument(ds[n], Listed) BY ClineLists
  <2>4. \A n \in Cline!Files : FileChanged("cline", n, z[n], ds[n], Pair, a)
    <3> TAKE n \in Cline!Files
    <3>1. Pair \in SUBSET AllEvents BY DEF Pair, AllEvents
    <3>2. {Cline!EventOf(n)} \in SUBSET Pair BY ClineHost
    <3>3. z[n] = d(n) BY <1>1
    <3> DEFINE fs == {Cline!EventOf(n)}
    <3>4. Contained("cline", n, WrapperOf(a, fs)) BY <1>3
    <3> HIDE DEF fs
    <3>5. FileChanged("cline", n, WrapperOf(a, fs), ds[n], Pair, a)
      BY <2>2, <2>3, <3>1, <3>2, <3>4, WrapperFile, ClineHost DEF fs
    <3> QED BY <3>3, <3>5 DEF fs
  <2> HIDE DEF d
  <2>5. z = [n \in Cline!Files |-> z[n]] BY <1>1
  <2> QED BY <2>4, <2>5, ClineHost DEF Changed
<1>5. Takes(PluginOf("cline", z), a)
  <2>1. \A n \in Cline!Files : z[n] = d(n) BY <1>1
  <2>2. PluginOf("cline", z).parses
    <3>1. \A n \in Cline!Files : z[n].root = {} BY <1>3, <2>1
    <3>2. \A n \in Cline!Files : z[n] # NoFile => "malformed" \notin z[n].root BY <3>1
    <3> QED BY <3>2, ClineFields
  <2>3. PluginOf("cline", z).contracts =
          {b \in Agents : \A n \in Cline!Files : ClineFinds(z[n], n, {b}) /\ Cline!Intact(z[n], n)}
    BY ClineFields
  <2>4. \A b : (\A n \in Cline!Files : ClineFinds(z[n], n, {b}) /\ Cline!Intact(z[n], n)) <=> b = a
    <3>1. "guard" \in Cline!Files BY DEF Cline!Files
    <3>2. \A n \in Cline!Files : Cline!Intact(z[n], n) /\ \A b : ClineFinds(z[n], n, {b}) <=> b = a
      <4> TAKE n \in Cline!Files
      <4>1. z[n] = d(n) BY <2>1
      <4>2. Cline!Intact(d(n), n) BY <1>3
      <4>3. \A b : ClineFinds(d(n), n, {b}) <=> b = a BY <1>3
      <4> HIDE DEF d
      <4> QED BY <4>1, <4>2, <4>3
    <3> QED BY <3>1, <3>2
  <2>5. PluginOf("cline", z).contracts = {a} BY <2>3, <2>4
  <2> QED BY <2>2, <2>5, ClineFields DEF Takes
<1>6. Sole("cline", z, a)
  <2>0. Written("cline", z) = Cline!Files BY DEF Written
  <2> SUFFICES ASSUME NEW n \in Cline!Files, NEW e, NEW b \in Agents \ {a}
               PROVE  ~Knows("cline", ListAt(z, n, e), e, b)
    BY <2>0 DEF Sole
  <2> DEFINE es == {Cline!EventOf(n)}
  <2>1. z[n] = WrapperOf(a, es) BY <1>1
  <2>2. es \in SUBSET AllEvents BY ClineHost DEF Pair, AllEvents
  <2> HIDE DEF es
  <2>3. ~Knows("cline", At(OrNew(WrapperOf(a, es)).hooks, e), e, b) BY <2>2, WrapperKnows
  <2> QED BY <2>1, <2>3 DEF ListAt
<1> QED BY <1>2, <1>4, <1>5, <1>6 DEF z

(* Cline's removals.                                                       *)
LEMMA ClineUninstalls ==
  ASSUME NEW ds, WellFormed("cline", ds), NEW a \in Agents
  PROVE  LET z == PluginOf("cline", ds).uninstall[a]
         IN  /\ Changed("cline", z, ds, User)
             /\ \A n \in Names("cline"), e \in AllEvents : ~RunsAt(ListAt(z, n, e), a)
<1> DEFINE z == PluginOf("cline", ds).uninstall[a]
<1>1. z = [n \in Cline!Files |-> IF ClineFinds(ds[n], n, {a}) THEN NoFile ELSE ds[n]]
  BY ClineUninstall
<1> HIDE DEF z
<1>2. \A n \in Cline!Files : z[n] = IF ClineFinds(ds[n], n, {a}) THEN NoFile ELSE ds[n]
  BY <1>1
<1>3. z = [n \in Cline!Files |-> z[n]] BY <1>1
<1>4. Changed("cline", z, ds, User)
  <2>1. \A n \in Cline!Files : FileChanged("cline", n, z[n], ds[n], Pair, User)
    <3> TAKE n \in Cline!Files
    <3>1. CASE ClineFinds(ds[n], n, {a})
      <4>1. {a} \in SUBSET Agents OBVIOUS
      <4>2. AgentsOnly(ds[n]) BY <3>1, <4>1, ClineAgents
      <4>3. ds[n] # NoFile => IsDocument(ds[n], Listed) BY ClineLists
      <4>4. FileChanged("cline", n, NoFile, ds[n], Pair, User)
        BY <4>2, <4>3, AgentsGone, ClineHost
      <4> QED BY <1>2, <3>1, <4>4
    <3>2. CASE ~ClineFinds(ds[n], n, {a})
      <4>1. z[n] = ds[n] BY <1>2, <3>2
      <4> QED BY <4>1, FileSame, ClineHost
    <3> QED BY <3>1, <3>2
  <2> QED BY <1>3, <2>1, ClineHost DEF Changed
<1>5. ASSUME NEW n \in Cline!Files, NEW e \in AllEvents, RunsAt(ListAt(z, n, e), a)
      PROVE  FALSE
  <2>1. z[n] # NoFile BY <1>5, NothingRuns DEF ListAt
  <2>2. z[n] = ds[n] /\ ~ClineFinds(ds[n], n, {a}) BY <1>2, <2>1
  <2>3. /\ OrNew(ds[n]) = ds[n]
        /\ \A v : At(ds[n].hooks, v) \in Seq(Listed)
        /\ \A v : \A i \in DOMAIN At(ds[n].hooks, v) : v = Cline!EventOf(n) /\ i = 1
    BY <2>1, <2>2, ClineLists
  <2> DEFINE l == At(ds[n].hooks, e)
  <2>4. ListAt(z, n, e) = l /\ ListAt(ds, n, e) = l BY <2>2, <2>3 DEF ListAt
  <2>5. PICK i \in DOMAIN l : Runs(l[i], a) BY <1>5, <2>4 DEF RunsAt
  <2>6. e = Cline!EventOf(n) BY <2>3, <2>5
  <2>7. l[i] \in Listed
    <3>1. l \in Seq(Listed) BY <2>3
    <3> QED BY <2>5, <3>1
  <2>8. l[i].owner = a /\ l[i].form = "exact" BY <2>5, <2>7, ElementKinds DEF Runs, Exact
  <2> HIDE DEF l
  <2>9. ListHas(l, l[i])
    <3>1. InElement(l[i]) = <<l[i]>> BY <2>7, ElementKinds
    <3>2. Has(l[i], l[i]) BY <3>1 DEF Has
    <3> QED BY <2>5, <3>2 DEF ListHas
  <2>10. InPlaceHas("cline", ds) BY InPlaceIff DEF WellFormed
  <2>11. l[i].script = ScriptOf(e)
    BY <2>4, <2>8, <2>9, <2>10, ClineHost DEF InPlaceHas
  <2>12. Refers(l[i], e, {a}, Readable) BY <2>8, <2>11 DEF Refers, Readable
  <2>13. ClineFinds(ds[n], n, {a}) BY <2>1, <2>2, <2>5, <2>6, <2>12 DEF ClineFinds, l
  <2> QED BY <2>2, <2>13
<1> QED BY <1>4, <1>5, ClineHost DEF z

(* Cline: every installation takes and is steady, every removal clean.     *)
LEMMA ClineSound == Sound("cline")
<1> SUFFICES ASSUME NEW ds, WellFormed("cline", ds), NEW a \in Agents
             PROVE  /\ ~PluginOf("cline", ds).refused => Installs("cline", ds, a)
                    /\ Steady("cline", ds, a)
                    /\ Uninstalls("cline", ds, a)
  BY DEF Sound
<1>1. ~PluginOf("cline", ds).refused => Installs("cline", ds, a) BY ClineInstalls DEF Installs
<1>2. Steady("cline", ds, a) BY ClineInstalls DEF Steady
<1>3. Uninstalls("cline", ds, a) BY ClineUninstalls DEF Uninstalls
<1> QED BY <1>1, <1>2, <1>3
=============================================================================

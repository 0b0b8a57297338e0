----------------------------- MODULE StringProofs -----------------------------
(***************************************************************************)
(* What holds of the Lua shell's strings: of its patterns for every        *)
(* subject and every pattern, and of packed data for every format, every   *)
(* value and any number of values of a byte.                               *)
(***************************************************************************)
EXTENDS ShellParts, SequenceTheorems, WellFoundedInduction, TLAPS

-----------------------------------------------------------------------------
(* A set of numbers has a least one. *)
LEMMA Least ==
    ASSUME NEW S, S \subseteq Nat, S # {}
    PROVE  \E n \in S : \A k \in S : n <= k
<1> DEFINE Less == {p \in Nat \X Nat : p[1] < p[2]}
<1>1. IsWellFoundedOn(Less, Nat)
  BY NatLessThanWellFounded DEF OpToRel
<1>2. PICK n \in S : \A k \in S : ~(<<k, n>> \in Less)
  <2> HIDE DEF Less
  <2> QED  BY <1>1, WFMin
<1>3. ASSUME NEW k \in S PROVE n <= k
  <2>1. <<k, n>> \in Nat \X Nat /\ <<k, n>>[1] = k /\ <<k, n>>[2] = n
    BY <1>2, <1>3
  <2>2. ~(k < n)
    BY <1>2, <2>1
  <2> QED  BY <1>2, <1>3, <2>2
<1> QED  BY <1>2, <1>3

(* Induction, for a set of numbers that each step does not leave. *)
LEMMA Up ==
    ASSUME NEW n \in Nat, NEW G, 0 \in G, \A k \in 1 .. n : k - 1 \in G => k \in G
    PROVE  \A k \in 0 .. n : k \in G
<1> DEFINE Bad == {k \in 0 .. n : k \notin G}
<1> SUFFICES ASSUME Bad # {} PROVE FALSE
  OBVIOUS
<1>1. PICK m \in Bad : \A l \in Bad : m <= l
  <2>1. Bad \subseteq Nat
    OBVIOUS
  <2> HIDE DEF Bad
  <2> QED  BY <2>1, Least
<1>2. m \in 1 .. n /\ m - 1 \in 0 .. n /\ ~(m <= m - 1) /\ m \notin G
  <2>1. m \in 0 .. n /\ m # 0 /\ m \notin G
    OBVIOUS
  <2> QED  BY <2>1
<1>3. m - 1 \notin Bad
  <2> HIDE DEF Bad
  <2> QED  BY <1>1, <1>2
<1> QED  BY <1>2, <1>3

LEMMA Down ==
    ASSUME NEW n \in Nat, NEW G, n + 1 \in G, \A k \in 1 .. n : k + 1 \in G => k \in G
    PROVE  \A k \in 1 .. n + 1 : k \in G
<1> DEFINE H == {m \in 0 .. n : n + 1 - m \in G}
<1>1. 0 \in H
  OBVIOUS
<1>2. ASSUME NEW m \in 1 .. n, m - 1 \in H PROVE m \in H
  <2>1. n + 1 - m \in 1 .. n /\ n + 1 - (m - 1) = (n + 1 - m) + 1 /\ m \in 0 .. n
    OBVIOUS
  <2>2. (n + 1 - m) + 1 \in G
    BY <1>2, <2>1
  <2> QED  BY <2>1, <2>2
<1> HIDE DEF H
<1>3. \A m \in 0 .. n : m \in H
  BY <1>1, <1>2, Up
<1>4. ASSUME NEW k \in 1 .. n + 1 PROVE k \in G
  <2>1. n + 1 - k \in 0 .. n /\ n + 1 - (n + 1 - k) = k
    OBVIOUS
  <2> QED  BY <1>3, <2>1 DEF H
<1> QED  BY <1>4

\* What each step makes of the one before it, from 0 up and from the end down.
StepsOf(n, D) == [1 .. n -> [D -> D]]
GoesUp(f, n, D, b, step) == f \in [0 .. n -> D] /\ f[0] = b /\ \A k \in 1 .. n : f[k] = step[k][f[k - 1]]
GoesDown(f, n, D, b, step) == f \in [1 .. n + 1 -> D] /\ f[n + 1] = b /\ \A k \in 1 .. n : f[k] = step[k][f[k + 1]]

(* There is a function that does. *)
LEMMA StepsUp ==
    ASSUME NEW n \in Nat, NEW D, NEW b \in D, NEW step \in StepsOf(n, D)
    PROVE  \E f : GoesUp(f, n, D, b, step)
<1> USE DEF StepsOf, GoesUp
<1> DEFINE Steps(f, m) == f \in [0 .. m -> D] /\ f[0] = b /\ \A k \in 1 .. m : f[k] = step[k][f[k - 1]]
           G == {m \in 0 .. n : \E f : Steps(f, m)}
<1>1. 0 \in G
  <2> DEFINE f == [k \in 0 .. 0 |-> b]
  <2>1. Steps(f, 0)
    OBVIOUS
  <2> HIDE DEF f
  <2>2. \E g : Steps(g, 0)
    BY <2>1
  <2> QED  BY <2>2
<1>2. ASSUME NEW m \in 1 .. n, m - 1 \in G PROVE m \in G
  <2>1. PICK g : Steps(g, m - 1)
    BY <1>2
  <2> DEFINE f == [k \in 0 .. m |-> IF k = m THEN step[m][g[m - 1]] ELSE g[k]]
  <2>2. step[m][g[m - 1]] \in D
    <3>1. g[m - 1] \in D
      BY <2>1
    <3> QED  BY <3>1
  <2>3. \A k \in 0 .. m - 1 : f[k] = g[k] /\ g[k] \in D
    BY <2>1
  <2>4. f \in [0 .. m -> D] /\ f[0] = b /\ f[m] = step[m][f[m - 1]]
    <3>1. 0 \in 0 .. m - 1 /\ m - 1 \in 0 .. m - 1 /\ m \in 0 .. m
      OBVIOUS
    <3>2. f[0] = b /\ f[m] = step[m][f[m - 1]]
      BY <2>1, <2>3, <3>1
    <3>3. \A k \in 0 .. m : k = m \/ k \in 0 .. m - 1
      OBVIOUS
    <3> QED  BY <2>2, <2>3, <3>2, <3>3
  <2>5. ASSUME NEW k \in 1 .. m PROVE f[k] = step[k][f[k - 1]]
    <3>1. CASE k = m
      BY <2>4, <3>1
    <3>2. CASE k # m
      <4>1. k \in 1 .. m - 1 /\ k \in 0 .. m - 1 /\ k - 1 \in 0 .. m - 1
        BY <3>2
      <4>2. g[k] = step[k][g[k - 1]]
        BY <2>1, <4>1
      <4> HIDE DEF f
      <4> QED  BY <2>3, <4>1, <4>2
    <3> QED  BY <3>1, <3>2
  <2> HIDE DEF f
  <2>6. Steps(f, m) /\ m \in 0 .. n
    BY <2>4, <2>5
  <2> QED  BY <2>6
<1> HIDE DEF G
<1>3. \A m \in 0 .. n : m \in G
  BY <1>1, <1>2, Up
<1>4. PICK f : Steps(f, n)
  <2>1. n \in 0 .. n
    OBVIOUS
  <2> QED  BY <1>3, <2>1 DEF G
<1> QED  BY <1>4

(* The same from the end down. *)
LEMMA StepsDown ==
    ASSUME NEW n \in Nat, NEW D, NEW b \in D, NEW step \in StepsOf(n, D)
    PROVE  \E f : GoesDown(f, n, D, b, step)
<1> DEFINE turned == [k \in 1 .. n |-> step[n + 1 - k]]
<1>1. \A k \in 1 .. n : n + 1 - k \in 1 .. n
  OBVIOUS
<1>2. turned \in StepsOf(n, D)
  BY <1>1 DEF StepsOf
<1>3. \A k \in 1 .. n : turned[k] = step[n + 1 - k]
  OBVIOUS
<1> HIDE DEF turned
<1>4. PICK g : GoesUp(g, n, D, b, turned)
  BY <1>2, StepsUp
<1> DEFINE f == [k \in 1 .. n + 1 |-> g[n + 1 - k]]
<1>5. \A k \in 1 .. n + 1 : n + 1 - k \in 0 .. n
  OBVIOUS
<1>6. f \in [1 .. n + 1 -> D]
  BY <1>4, <1>5 DEF GoesUp
<1>7. f[n + 1] = b
  <2>1. n + 1 \in 1 .. n + 1 /\ n + 1 - (n + 1) = 0
    OBVIOUS
  <2> QED  BY <1>4, <2>1 DEF GoesUp
<1>8. ASSUME NEW k \in 1 .. n PROVE f[k] = step[k][f[k + 1]]
  <2>1. /\ n + 1 - k \in 1 .. n /\ (n + 1 - k) - 1 = n + 1 - (k + 1)
        /\ k + 1 \in 1 .. n + 1 /\ k \in 1 .. n + 1 /\ n + 1 - (n + 1 - k) = k
    OBVIOUS
  <2>2. g[n + 1 - k] = turned[n + 1 - k][g[(n + 1 - k) - 1]]
    BY <1>4, <2>1 DEF GoesUp
  <2>3. turned[n + 1 - k] = step[k]
    BY <1>3, <2>1
  <2>4. f[k] = g[n + 1 - k] /\ f[k + 1] = g[n + 1 - (k + 1)]
    BY <2>1
  <2> QED  BY <2>1, <2>2, <2>3, <2>4
<1> HIDE DEF f
<1> QED  BY <1>6, <1>7, <1>8 DEF GoesDown

-----------------------------------------------------------------------------
(* One item *)

(* First is the first place with an end, if there is one. *)
LEMMA FirstIs ==
    ASSUME NEW lo \in Nat, NEW hi \in Int, NEW ends, DOMAIN ends = lo .. hi
    PROVE  \/ /\ Pattern!First(ends) = Pattern!NoMatch
              /\ \A n \in lo .. hi : ends[n] = Pattern!NoMatch
           \/ /\ Pattern!First(ends) \in lo .. hi
              /\ ends[Pattern!First(ends)] # Pattern!NoMatch
              /\ \A n \in lo .. hi : ends[n] # Pattern!NoMatch => Pattern!First(ends) <= n
<1> DEFINE ok == {n \in DOMAIN ends : ends[n] # Pattern!NoMatch}
<1>1. CASE ok = {}
  BY <1>1 DEF Pattern!First
<1>2. CASE ok # {}
  <2>1. ok \subseteq Nat
    OBVIOUS
  <2>2. \E n \in ok : \A m \in ok : n <= m
    <3> HIDE DEF ok
    <3> QED  BY <1>2, <2>1, Least
  <2>3. Pattern!First(ends) = CHOOSE n \in ok : \A m \in ok : n <= m
    BY <1>2 DEF Pattern!First
  <2>4. Pattern!First(ends) \in ok /\ \A m \in ok : Pattern!First(ends) <= m
    <3> HIDE DEF ok
    <3> QED  BY <2>2, <2>3
  <2> QED  BY <2>4
<1> QED  BY <1>1, <1>2

(* Run is how many characters in a row the item matches. *)
LEMMA RunIs ==
    ASSUME NEW s \in Seq(Char), NEW a \in 0 .. Len(s), NEW e
    PROVE  LET run == Pattern!Run(s, a, e) IN
           /\ run \in 0 .. Len(s) - a
           /\ \A n \in a + 1 .. a + run : s[n] \in e.set
           /\ run < Len(s) - a => s[a + run + 1] \notin e.set
<1> DEFINE Stops == {n \in 0 .. Len(s) - a : ~Pattern!MatchItem(s, a + n, e)}
           Is(n) == /\ \A k \in 0 .. n - 1 : Pattern!MatchItem(s, a + k, e)
                    /\ ~Pattern!MatchItem(s, a + n, e)
           run == Pattern!Run(s, a, e)
<1>1. Len(s) \in Nat /\ a \in Nat /\ a <= Len(s)
  OBVIOUS
<1>2. PICK m \in Stops : \A k \in Stops : m <= k
  <2>1. Len(s) - a \in Stops
    BY <1>1 DEF Pattern!MatchItem
  <2>2. Stops \subseteq Nat
    OBVIOUS
  <2> HIDE DEF Stops
  <2> QED  BY <2>1, <2>2, Least
<1>3. m \in 0 .. Len(s) - a /\ Is(m)
  <2>1. ASSUME NEW k \in 0 .. m - 1 PROVE Pattern!MatchItem(s, a + k, e)
    <3>1. k \in 0 .. Len(s) - a /\ ~(m <= k)
      BY <1>1, <1>2
    <3> QED  BY <1>2, <3>1
  <2> QED  BY <1>2, <2>1
<1>4. run \in 0 .. Len(s) - a /\ Is(run)
  <2>1. run = CHOOSE n \in 0 .. Len(s) : Is(n)
    BY DEF Pattern!Run
  <2>2. m \in 0 .. Len(s)
    BY <1>1, <1>3
  <2>3. run \in 0 .. Len(s) /\ Is(run)
    <3> HIDE DEF run, Is
    <3> QED  BY <1>3, <2>1, <2>2
  <2> HIDE DEF run
  <2>4. run <= Len(s) - a
    <3> SUFFICES ASSUME ~(run <= Len(s) - a) PROVE FALSE
      OBVIOUS
    <3>1. Len(s) - a \in 0 .. run - 1 /\ a + (Len(s) - a) = Len(s)
      BY <1>1, <2>3
    <3>2. Pattern!MatchItem(s, a + (Len(s) - a), e)
      BY <2>3, <3>1
    <3> QED  BY <3>1, <3>2 DEF Pattern!MatchItem
  <2> QED  BY <1>1, <2>3, <2>4
<1> HIDE DEF run
<1>5. ASSUME NEW n \in a + 1 .. a + run PROVE s[n] \in e.set
  <2>1. n - a - 1 \in 0 .. run - 1 /\ a + (n - a - 1) + 1 = n
    BY <1>1, <1>4
  <2>2. Pattern!MatchItem(s, a + (n - a - 1), e)
    BY <1>4, <2>1
  <2> QED  BY <2>1, <2>2 DEF Pattern!MatchItem
<1>6. run < Len(s) - a => s[a + run + 1] \notin e.set
  BY <1>1, <1>4 DEF Pattern!MatchItem
<1> QED  BY <1>4, <1>5, <1>6 DEF run

Quantifier == {"", "*", "+", "-", "?"}

(* An item takes as many of the run as it may. *)
LEMMA TakesIs ==
    ASSUME NEW s \in Seq(Char), NEW a \in 0 .. Len(s), NEW e, e.k \notin {"end", "group"}, NEW b \in 0 .. Len(s)
    PROVE  Pattern!Takes(s, e, a, b) <=>
              b \in a .. a + Pattern!Run(s, a, e) /\ Pattern!Allowed(e, b - a)
<1> DEFINE run == Pattern!Run(s, a, e)
<1>1. Len(s) \in Nat /\ a \in Nat /\ a <= Len(s) /\ b \in Nat /\ b <= Len(s)
  OBVIOUS
<1>2. /\ run \in 0 .. Len(s) - a
      /\ \A n \in a + 1 .. a + run : s[n] \in e.set
      /\ run < Len(s) - a => s[a + run + 1] \notin e.set
  BY RunIs
<1> HIDE DEF run
<1>3. Pattern!Takes(s, e, a, b) <=> a <= b /\ Pattern!Allowed(e, b - a) /\ \A n \in a + 1 .. b : s[n] \in e.set
  BY DEF Pattern!Takes
<1>4. ASSUME a <= b, \A n \in a + 1 .. b : s[n] \in e.set PROVE b <= a + run
  <2> SUFFICES ASSUME ~(b <= a + run) PROVE FALSE
    OBVIOUS
  <2>1. a + run + 1 \in a + 1 .. b /\ run < Len(s) - a
    BY <1>1, <1>2
  <2> QED  BY <1>2, <1>4, <2>1
<1>5. ASSUME b \in a .. a + run, NEW n \in a + 1 .. b PROVE s[n] \in e.set
  <2>1. n \in a + 1 .. a + run
    BY <1>1, <1>2, <1>5
  <2> QED  BY <1>2, <2>1
<1>6. b \in a .. a + run <=> a <= b /\ b <= a + run
  BY <1>1, <1>2
<1> QED  BY <1>3, <1>4, <1>5, <1>6 DEF run

\* Of two places an item can end at, the one it prefers.
Better(e, x, y) == IF e.q = "-" THEN x < y ELSE x > y

\* The places an element can end at, from a on, in order of preference.
Tries(s, e, a, t) ==
    /\ t \in Seq(0 .. Len(s))
    /\ \A i \in 1 .. Len(t) : Pattern!Takes(s, e, a, t[i])
    /\ \A b \in 0 .. Len(s) : Pattern!Takes(s, e, a, b) => \E i \in 1 .. Len(t) : t[i] = b
    /\ \A i, j \in 1 .. Len(t) : i < j => Better(e, t[i], t[j])

(* Two places the same way on from two counts are in the order of the counts. *)
LEMMA ShiftedInOrder ==
    ASSUME NEW a \in Int, NEW x \in Nat, NEW y \in Nat
    PROVE  (x < y => a + x < a + y) /\ (x > y => a + x > a + y)
  OBVIOUS

(* The counts of an item are tried in the order of its preference. *)
LEMMA CountsAre ==
    ASSUME NEW s \in Seq(Char), NEW a \in 0 .. Len(s), NEW e, e.k \notin {"end", "group"}, e.q \in Quantifier
    PROVE  LET c == Pattern!Counts(s, a, e) IN
           /\ c \in Seq(Nat)
           /\ \A i \in 1 .. Len(c) : a + c[i] \in a .. Len(s)
           /\ Tries(s, e, a, [i \in 1 .. Len(c) |-> a + c[i]])
<1> DEFINE run == Pattern!Run(s, a, e)
           c == Pattern!Counts(s, a, e)
           t == [i \in 1 .. Len(c) |-> a + c[i]]
<1>1. Len(s) \in Nat /\ a \in Nat /\ a <= Len(s)
  OBVIOUS
<1>2. run \in Nat /\ a + run <= Len(s)
  BY <1>1, RunIs
<1>3. \A b \in 0 .. Len(s) : Pattern!Takes(s, e, a, b) <=> b \in a .. a + run /\ Pattern!Allowed(e, b - a)
  BY TakesIs
<1> HIDE DEF run
<1> SUFFICES /\ c \in Seq(Nat)
             /\ \A i \in 1 .. Len(c) : c[i] <= run /\ Pattern!Allowed(e, c[i])
             /\ \A n \in 0 .. run : Pattern!Allowed(e, n) => \E i \in 1 .. Len(c) : c[i] = n
             /\ \A i, j \in 1 .. Len(c) : i < j => Better(e, c[i], c[j])
  <2> HIDE DEF c
  <2>1. Len(c) \in Nat /\ \A i \in 1 .. Len(c) : c[i] \in Nat /\ c[i] <= run
    OBVIOUS
  <2>2. \A i \in 1 .. Len(c) : t[i] = a + c[i] /\ t[i] \in 0 .. Len(s) /\ t[i] \in a .. a + run /\ t[i] - a = c[i]
    BY <1>1, <1>2, <2>1
  <2>3. t \in Seq(0 .. Len(s)) /\ Len(t) = Len(c)
    BY <2>1, <2>2
  <2>4. \A i \in 1 .. Len(c) : Pattern!Takes(s, e, a, t[i])
    <3> HIDE DEF t
    <3> QED  BY <1>3, <2>2
  <2>5. ASSUME NEW b \in 0 .. Len(s), Pattern!Takes(s, e, a, b) PROVE \E i \in 1 .. Len(c) : t[i] = b
    <3>1. b - a \in 0 .. run /\ Pattern!Allowed(e, b - a) /\ a + (b - a) = b
      BY <1>1, <1>2, <1>3, <2>5
    <3>2. PICK i \in 1 .. Len(c) : c[i] = b - a
      BY <3>1
    <3> QED  BY <2>2, <3>1, <3>2
  <2>6. ASSUME NEW i \in 1 .. Len(c), NEW j \in 1 .. Len(c), i < j PROVE Better(e, t[i], t[j])
    <3>1. Better(e, c[i], c[j]) /\ c[i] \in Nat /\ c[j] \in Nat
      BY <2>1, <2>6
    <3>2. t[i] = a + c[i] /\ t[j] = a + c[j]
      BY <2>2
    <3>3. a \in Int
      BY <1>1
    <3> HIDE DEF t, c
    <3>4. (c[i] < c[j] => a + c[i] < a + c[j]) /\ (c[i] > c[j] => a + c[i] > a + c[j])
      BY <3>1, <3>3, ShiftedInOrder
    <3> QED  BY <3>1, <3>2, <3>4, Zenon DEF Better
  <2>7. \A i \in 1 .. Len(c) : a + c[i] \in a .. Len(s)
    BY <1>1, <1>2, <2>1
  <2> HIDE DEF t
  <2>8. Tries(s, e, a, t)
    BY <2>3, <2>4, <2>5, <2>6 DEF Tries
  <2> QED  BY <2>7, <2>8 DEF t, c
<1>4. CASE e.q = "?"
  <2>1. c = IF run > 0 THEN <<1, 0>> ELSE <<0>>
    BY <1>4 DEF Pattern!Counts, run
  <2>2. \A n : Pattern!Allowed(e, n) <=> n <= 1
    BY <1>4 DEF Pattern!Allowed
  <2> HIDE DEF c
  <2>3. \A x, y : Better(e, x, y) <=> x > y
    BY <1>4 DEF Better
  <2>4. CASE run > 0
    <3>1. c = <<1, 0>> /\ c \in Seq(Nat) /\ Len(c) = 2 /\ c[1] = 1 /\ c[2] = 0
      BY <2>1, <2>4
    <3>2. 1 .. 2 = {1, 2}
      OBVIOUS
    <3> QED  BY <1>2, <2>2, <2>3, <2>4, <3>1, <3>2
  <2>5. CASE ~(run > 0)
    <3>1. c = <<0>> /\ c \in Seq(Nat) /\ Len(c) = 1 /\ c[1] = 0 /\ run = 0
      BY <1>2, <2>1, <2>5
    <3>2. 1 .. 1 = {1} /\ 0 .. 0 = {0}
      OBVIOUS
    <3> QED  BY <2>2, <2>3, <3>1, <3>2
  <2> QED  BY <2>4, <2>5
<1>5. CASE e.q = "*"
  <2>1. c = [k \in 1 .. run + 1 |-> run + 1 - k]
    BY <1>5 DEF Pattern!Counts, run
  <2>2. \A n : Pattern!Allowed(e, n)
    BY <1>5 DEF Pattern!Allowed
  <2>3. \A x, y : Better(e, x, y) <=> x > y
    BY <1>5 DEF Better
  <2>4. c \in Seq(Nat) /\ Len(c) = run + 1 /\ \A k \in 1 .. run + 1 : c[k] = run + 1 - k
    <3> HIDE DEF c
    <3>1. \A k \in 1 .. run + 1 : run + 1 - k \in Nat
      BY <1>2
    <3> QED  BY <1>2, <2>1, <3>1
  <2> HIDE DEF c
  <2>5. \A n \in 0 .. run : run + 1 - n \in 1 .. run + 1 /\ run + 1 - (run + 1 - n) = n
    BY <1>2
  <2>6. \A n \in 0 .. run : \E i \in 1 .. Len(c) : c[i] = n
    BY <2>4, <2>5
  <2>7. \A k \in 1 .. run + 1 : run + 1 - k <= run
    BY <1>2
  <2>8. \A i, j \in 1 .. run + 1 : i < j => run + 1 - i > run + 1 - j
    BY <1>2
  <2> QED  BY <2>2, <2>3, <2>4, <2>6, <2>7, <2>8
<1>6. CASE e.q = "+"
  <2>1. c = [k \in 1 .. run |-> run + 1 - k]
    BY <1>6 DEF Pattern!Counts, run
  <2>2. \A n : Pattern!Allowed(e, n) <=> n >= 1
    BY <1>6 DEF Pattern!Allowed
  <2>3. \A x, y : Better(e, x, y) <=> x > y
    BY <1>6 DEF Better
  <2>4. c \in Seq(Nat) /\ Len(c) = run /\ \A k \in 1 .. run : c[k] = run + 1 - k
    <3> HIDE DEF c
    <3>1. \A k \in 1 .. run : run + 1 - k \in Nat
      BY <1>2
    <3> QED  BY <1>2, <2>1, <3>1
  <2> HIDE DEF c
  <2>5. \A n \in 1 .. run : run + 1 - n \in 1 .. run /\ run + 1 - (run + 1 - n) = n
    BY <1>2
  <2>6. \A n \in 1 .. run : \E i \in 1 .. Len(c) : c[i] = n
    BY <2>4, <2>5
  <2>7. \A k \in 1 .. run : run + 1 - k <= run /\ run + 1 - k >= 1
    BY <1>2
  <2>8. \A n \in 0 .. run : n >= 1 => n \in 1 .. run
    BY <1>2
  <2>9. \A i, j \in 1 .. run : i < j => run + 1 - i > run + 1 - j
    BY <1>2
  <2> QED  BY <2>2, <2>3, <2>4, <2>6, <2>7, <2>8, <2>9
<1>7. CASE e.q = "-"
  <2>1. c = [k \in 1 .. run + 1 |-> k - 1]
    BY <1>7 DEF Pattern!Counts, run
  <2>2. \A n : Pattern!Allowed(e, n)
    BY <1>7 DEF Pattern!Allowed
  <2>3. \A x, y : Better(e, x, y) <=> x < y
    BY <1>7 DEF Better
  <2>4. c \in Seq(Nat) /\ Len(c) = run + 1 /\ \A k \in 1 .. run + 1 : c[k] = k - 1
    <3> HIDE DEF c
    <3>1. \A k \in 1 .. run + 1 : k - 1 \in Nat
      BY <1>2
    <3> QED  BY <1>2, <2>1, <3>1
  <2> HIDE DEF c
  <2>5. \A n \in 0 .. run : n + 1 \in 1 .. run + 1 /\ (n + 1) - 1 = n
    BY <1>2
  <2>6. \A n \in 0 .. run : \E i \in 1 .. Len(c) : c[i] = n
    BY <2>4, <2>5
  <2>7. \A k \in 1 .. run + 1 : k - 1 <= run
    BY <1>2
  <2>8. \A i, j \in 1 .. run + 1 : i < j => i - 1 < j - 1
    BY <1>2
  <2> QED  BY <2>2, <2>3, <2>4, <2>6, <2>7, <2>8
<1>8. CASE e.q = ""
  <2>1. c = IF run > 0 THEN <<1>> ELSE <<>>
    BY <1>8 DEF Pattern!Counts, run
  <2>2. \A n : Pattern!Allowed(e, n) <=> n = 1
    BY <1>8 DEF Pattern!Allowed
  <2> HIDE DEF c
  <2>3. CASE run > 0
    <3>1. c = <<1>> /\ c \in Seq(Nat) /\ Len(c) = 1 /\ c[1] = 1
      BY <2>1, <2>3
    <3>2. 1 .. 1 = {1}
      OBVIOUS
    <3> QED  BY <1>2, <2>2, <2>3, <3>1, <3>2
  <2>4. CASE ~(run > 0)
    <3>1. c = <<>> /\ c \in Seq(Nat) /\ Len(c) = 0 /\ run = 0
      BY <1>2, <2>1, <2>4
    <3>2. 1 .. 0 = {} /\ 0 .. 0 = {0}
      OBVIOUS
    <3> QED  BY <2>2, <3>1, <3>2
  <2> QED  BY <2>3, <2>4
<1> QED  BY <1>4, <1>5, <1>6, <1>7, <1>8 DEF Quantifier

-----------------------------------------------------------------------------
(* All the elements: what a matcher finds is the reading it prefers *)

\* Readings of the elements from the k-th on, from offset a on, and which is preferred.
From(s, els, k, a) ==
    {at \in [k - 1 .. Len(els) -> 0 .. Len(s)] :
        at[k - 1] = a /\ \A j \in k .. Len(els) : Pattern!Takes(s, els[j], at[j - 1], at[j])}
PrefersFrom(els, k, v, w) ==
    v = w \/ \E j \in k .. Len(els) : (\A m \in k - 1 .. j - 1 : v[m] = w[m]) /\ Better(els[j], v[j], w[j])

\* An end, or that there is none, is right.
Right(s, els, k, a, end) ==
    IF end = Pattern!NoMatch THEN From(s, els, k, a) = {}
    ELSE \E r \in From(s, els, k, a) :
            r[Len(els)] = end /\ \A w \in From(s, els, k, a) : PrefersFrom(els, k, r, w)

\* Ends for every offset; one is never before it.
EndRow(s) ==
    {r \in [0 .. Len(s) -> {Pattern!NoMatch} \cup 0 .. Len(s)] :
        \A a \in 0 .. Len(s) : r[a] = Pattern!NoMatch \/ a <= r[a]}

\* Of the ends behind the tries, the first that there is.
FirstOf(t, rest) == Pattern!FirstEnd([i \in 1 .. Len(t) |-> rest[t[i]]])

\* The matcher tries the places where each element can end.
Solved(s, els, E) ==
    /\ E \in [1 .. Len(els) + 1 -> EndRow(s)]
    /\ \A a \in 0 .. Len(s) : E[Len(els) + 1][a] = a
    /\ \A k \in 1 .. Len(els) : \A a \in 0 .. Len(s) : \E t :
          Tries(s, els[k], a, t) /\ E[k][a] = FirstOf(t, E[k + 1])

(* A reading is what its first element takes and a reading behind it. *)
LEMMA Behind ==
    ASSUME NEW s \in Seq(Char), NEW els, Len(els) \in Nat, NEW k \in 1 .. Len(els), NEW a \in 0 .. Len(s),
           NEW w \in From(s, els, k, a)
    PROVE  /\ w[k] \in 0 .. Len(s) /\ Pattern!Takes(s, els[k], a, w[k])
           /\ [j \in k .. Len(els) |-> w[j]] \in From(s, els, k + 1, w[k])
<1> DEFINE n == Len(els)
           u == [j \in k .. n |-> w[j]]
<1>1. /\ w \in [k - 1 .. n -> 0 .. Len(s)] /\ w[k - 1] = a
      /\ \A j \in k .. n : Pattern!Takes(s, els[j], w[j - 1], w[j])
  BY DEF From
<1>2. k \in k - 1 .. n /\ k \in k .. n /\ (k + 1) - 1 = k /\ \A j \in k .. n : j \in k - 1 .. n
  OBVIOUS
<1>3. w[k] \in 0 .. Len(s) /\ Pattern!Takes(s, els[k], a, w[k])
  BY <1>1, <1>2
<1>4. u \in [k .. n -> 0 .. Len(s)] /\ u[k] = w[k]
  BY <1>1, <1>2
<1>5. ASSUME NEW j \in k + 1 .. n PROVE Pattern!Takes(s, els[j], u[j - 1], u[j])
  <2>1. j \in k .. n /\ j - 1 \in k .. n
    OBVIOUS
  <2>2. u[j - 1] = w[j - 1] /\ u[j] = w[j]
    BY <2>1
  <2> HIDE DEF u
  <2> QED  BY <1>1, <2>1, <2>2
<1> HIDE DEF u
<1>6. u \in From(s, els, k + 1, w[k])
  BY <1>2, <1>4, <1>5 DEF From
<1> QED  BY <1>3, <1>6 DEF u

LEMMA InFront ==
    ASSUME NEW s \in Seq(Char), NEW els, Len(els) \in Nat, NEW k \in 1 .. Len(els), NEW a \in 0 .. Len(s),
           NEW b \in 0 .. Len(s), Pattern!Takes(s, els[k], a, b), NEW u \in From(s, els, k + 1, b)
    PROVE  [j \in k - 1 .. Len(els) |-> IF j = k - 1 THEN a ELSE u[j]] \in From(s, els, k, a)
<1> DEFINE n == Len(els)
           r == [j \in k - 1 .. n |-> IF j = k - 1 THEN a ELSE u[j]]
<1>1. /\ u \in [k .. n -> 0 .. Len(s)] /\ u[k] = b
      /\ \A j \in k + 1 .. n : Pattern!Takes(s, els[j], u[j - 1], u[j])
  BY DEF From
<1>2. k - 1 \in k - 1 .. n /\ \A j \in k .. n : j \in k - 1 .. n /\ j # k - 1
  OBVIOUS
<1>3. r[k - 1] = a /\ \A j \in k .. n : r[j] = u[j]
  BY <1>2
<1>4. r \in [k - 1 .. n -> 0 .. Len(s)]
  <2>1. \A j \in k - 1 .. n : j = k - 1 \/ j \in k .. n
    OBVIOUS
  <2> QED  BY <1>1, <2>1
<1> HIDE DEF r
<1>5. ASSUME NEW j \in k .. n PROVE Pattern!Takes(s, els[j], r[j - 1], r[j])
  <2>1. CASE j = k
    BY <1>1, <1>3, <2>1
  <2>2. CASE j # k
    <3>1. j \in k + 1 .. n /\ j - 1 \in k .. n
      BY <2>2
    <3> QED  BY <1>1, <1>3, <3>1
  <2> QED  BY <2>1, <2>2
<1>6. r \in From(s, els, k, a)
  BY <1>3, <1>4, <1>5 DEF From
<1> QED  BY <1>6 DEF r

(* The first try that the rest matches gives the preferred reading. *)
LEMMA RightStep ==
    ASSUME NEW s \in Seq(Char), NEW els, Len(els) \in Nat, NEW E, Solved(s, els, E),
           NEW k \in 1 .. Len(els), \A b \in 0 .. Len(s) : Right(s, els, k + 1, b, E[k + 1][b]),
           NEW a \in 0 .. Len(s)
    PROVE  Right(s, els, k, a, E[k][a])
<1> DEFINE n == Len(els)
<1>1. PICK t : Tries(s, els[k], a, t) /\ E[k][a] = FirstOf(t, E[k + 1])
  BY DEF Solved
<1> DEFINE ends == [i \in 1 .. Len(t) |-> E[k + 1][t[i]]]
           f == Pattern!First(ends)
<1>2. /\ t \in Seq(0 .. Len(s)) /\ Len(t) \in Nat
      /\ \A i \in 1 .. Len(t) : t[i] \in 0 .. Len(s) /\ Pattern!Takes(s, els[k], a, t[i])
  BY <1>1 DEF Tries
<1>3. \A i \in 1 .. Len(t) : ends[i] = E[k + 1][t[i]]
  OBVIOUS
<1>4. \/ f = Pattern!NoMatch /\ \A i \in 1 .. Len(t) : ends[i] = Pattern!NoMatch
      \/ f \in 1 .. Len(t) /\ ends[f] # Pattern!NoMatch /\ \A i \in 1 .. Len(t) : ends[i] # Pattern!NoMatch => f <= i
  <2>1. DOMAIN ends = 1 .. Len(t) /\ 1 \in Nat /\ Len(t) \in Int
    BY <1>2
  <2> HIDE DEF ends
  <2> QED  BY <2>1, FirstIs
<1>5. E[k][a] = IF f = Pattern!NoMatch THEN Pattern!NoMatch ELSE ends[f]
  BY <1>1 DEF FirstOf, Pattern!FirstEnd
<1>6. ASSUME NEW w \in From(s, els, k, a)
      PROVE  \E i \in 1 .. Len(t) :
                /\ t[i] = w[k] /\ ends[i] # Pattern!NoMatch
                /\ [j \in k .. n |-> w[j]] \in From(s, els, k + 1, t[i])
  <2>1. /\ w[k] \in 0 .. Len(s) /\ Pattern!Takes(s, els[k], a, w[k])
        /\ [j \in k .. n |-> w[j]] \in From(s, els, k + 1, w[k])
    BY Behind
  <2>2. PICK i \in 1 .. Len(t) : t[i] = w[k]
    BY <1>1, <2>1 DEF Tries
  <2>3. Right(s, els, k + 1, w[k], E[k + 1][w[k]])
    BY <2>1
  <2>4. E[k + 1][w[k]] # Pattern!NoMatch
    BY <2>1, <2>3, Zenon DEF Right
  <2> HIDE DEF ends
  <2> QED  BY <1>3, <2>1, <2>2, <2>4
<1> HIDE DEF ends, f
<1>7. CASE f = Pattern!NoMatch /\ \A i \in 1 .. Len(t) : ends[i] = Pattern!NoMatch
  <2>1. E[k][a] = Pattern!NoMatch
    BY <1>5, <1>7
  <2>2. From(s, els, k, a) = {}
    BY <1>6, <1>7
  <2> QED  BY <2>1, <2>2 DEF Right
<1>8. CASE f \in 1 .. Len(t) /\ ends[f] # Pattern!NoMatch /\ \A i \in 1 .. Len(t) : ends[i] # Pattern!NoMatch => f <= i
  <2>1. f # Pattern!NoMatch
    BY <1>8 DEF Pattern!NoMatch
  <2>2. E[k][a] = E[k + 1][t[f]] /\ E[k][a] # Pattern!NoMatch
    BY <1>3, <1>5, <1>8, <2>1
  <2>3. t[f] \in 0 .. Len(s) /\ Pattern!Takes(s, els[k], a, t[f])
    BY <1>2, <1>8
  <2>4. Right(s, els, k + 1, t[f], E[k][a])
    BY <2>2, <2>3
  <2>5. PICK u \in From(s, els, k + 1, t[f]) :
            u[n] = E[k][a] /\ \A w \in From(s, els, k + 1, t[f]) : PrefersFrom(els, k + 1, u, w)
    BY <2>2, <2>4 DEF Right
  <2> DEFINE r == [j \in k - 1 .. n |-> IF j = k - 1 THEN a ELSE u[j]]
  <2>6. r \in From(s, els, k, a)
    BY <2>3, InFront
  <2>7. r[k - 1] = a /\ \A j \in k .. n : r[j] = u[j]
    <3>1. k - 1 \in k - 1 .. n /\ \A j \in k .. n : j \in k - 1 .. n /\ j # k - 1
      OBVIOUS
    <3> QED  BY <3>1
  <2> HIDE DEF r
  <2>8. r[n] = E[k][a]
    <3>1. n \in k .. n
      OBVIOUS
    <3> QED  BY <2>5, <2>7, <3>1
  <2>9. ASSUME NEW w \in From(s, els, k, a) PROVE PrefersFrom(els, k, r, w)
    <3> DEFINE v == [j \in k .. n |-> w[j]]
    <3>1. PICK i \in 1 .. Len(t) : t[i] = w[k] /\ ends[i] # Pattern!NoMatch /\ v \in From(s, els, k + 1, t[i])
      BY <1>6
    <3>2. f <= i /\ w[k - 1] = a
      BY <1>8, <3>1 DEF From
    <3>3. u[k] = t[f]
      BY DEF From
    <3>4. k \in k .. n
      OBVIOUS
    <3>5. \A j \in k .. n : v[j] = w[j]
      OBVIOUS
    <3> HIDE DEF v
    <3>6. CASE f = i
      <4>1. PrefersFrom(els, k + 1, u, v)
        BY <2>5, <3>1, <3>6
      <4>2. CASE u = v
        <5>1. r \in [k - 1 .. n -> 0 .. Len(s)] /\ w \in [k - 1 .. n -> 0 .. Len(s)]
          BY <2>6 DEF From
        <5>2. ASSUME NEW j \in k - 1 .. n PROVE r[j] = w[j]
          <6>1. j = k - 1 \/ j \in k .. n
            OBVIOUS
          <6> QED  BY <2>7, <3>2, <3>5, <4>2, <6>1
        <5>3. r = w
          BY <5>1, <5>2
        <5> QED  BY <5>3 DEF PrefersFrom
      <4>3. CASE u # v
        <5>1. PICK j \in k + 1 .. n : (\A m \in (k + 1) - 1 .. j - 1 : u[m] = v[m]) /\ Better(els[j], u[j], v[j])
          BY <4>1, <4>3 DEF PrefersFrom
        <5>2. j \in k .. n
          OBVIOUS
        <5>3. ASSUME NEW m \in k - 1 .. j - 1 PROVE r[m] = w[m]
          <6>1. m = k - 1 \/ (m \in k .. n /\ m \in (k + 1) - 1 .. j - 1)
            OBVIOUS
          <6> QED  BY <2>7, <3>2, <3>5, <5>1, <6>1
        <5>4. Better(els[j], r[j], w[j])
          BY <2>7, <3>5, <5>1, <5>2
        <5> QED  BY <5>2, <5>3, <5>4 DEF PrefersFrom
      <4> QED  BY <4>2, <4>3
    <3>7. CASE f # i
      <4>1. f < i
        BY <1>2, <1>8, <3>2, <3>7
      <4>2. Better(els[k], t[f], t[i])
        BY <1>1, <1>8, <4>1 DEF Tries
      <4>3. \A m \in k - 1 .. k - 1 : m = k - 1
        OBVIOUS
      <4>4. r[k] = t[f] /\ w[k] = t[i] /\ \A m \in k - 1 .. k - 1 : r[m] = w[m]
        BY <2>7, <3>1, <3>2, <3>3, <3>4, <4>3
      <4> QED  BY <3>4, <4>2, <4>4 DEF PrefersFrom
    <3> QED  BY <3>6, <3>7
  <2> QED  BY <2>2, <2>6, <2>8, <2>9 DEF Right
<1> QED  BY <1>4, <1>7, <1>8

(* So do all the elements. *)
LEMMA SolvedIsRight ==
    ASSUME NEW s \in Seq(Char), NEW els, Len(els) \in Nat, NEW E, Solved(s, els, E)
    PROVE  \A k \in 1 .. Len(els) + 1 : \A a \in 0 .. Len(s) : Right(s, els, k, a, E[k][a])
<1> DEFINE n == Len(els)
           G == {k \in 1 .. n + 1 : \A a \in 0 .. Len(s) : Right(s, els, k, a, E[k][a])}
<1>1. Len(s) \in Nat
  OBVIOUS
<1>2. ASSUME NEW a \in 0 .. Len(s) PROVE Right(s, els, n + 1, a, E[n + 1][a])
  <2>1. E[n + 1][a] = a /\ a # Pattern!NoMatch
    BY DEF Solved, Pattern!NoMatch
  <2> DEFINE r == [j \in n .. n |-> a]
  <2>2. (n + 1) - 1 = n /\ n \in n .. n /\ n + 1 .. n = {} /\ n .. n = {n}
    OBVIOUS
  <2>3. r \in From(s, els, n + 1, a) /\ r[n] = a
    BY <2>2 DEF From
  <2>4. ASSUME NEW w \in From(s, els, n + 1, a) PROVE w = r
    BY <2>2 DEF From
  <2> HIDE DEF r
  <2> QED  BY <2>1, <2>3, <2>4 DEF Right, PrefersFrom
<1>3. n + 1 \in G
  BY <1>2
<1>4. ASSUME NEW k \in 1 .. n, k + 1 \in G PROVE k \in G
  <2>1. \A b \in 0 .. Len(s) : Right(s, els, k + 1, b, E[k + 1][b])
    BY <1>4
  <2>2. \A a \in 0 .. Len(s) : Right(s, els, k, a, E[k][a])
    BY <2>1, RightStep
  <2> QED  BY <2>2
<1> HIDE DEF G
<1>5. \A k \in 1 .. n + 1 : k \in G
  BY <1>3, <1>4, Down
<1> QED  BY <1>5 DEF G

(* The reading that is meant is the one that a right end is the end of. *)
LEMMA BestIs ==
    ASSUME NEW s \in Seq(Char), NEW els, Len(els) \in Nat, NEW a \in 0 .. Len(s), NEW end, Right(s, els, 1, a, end)
    PROVE  /\ (end = Pattern!NoMatch) <=> (Pattern!Readings(s, a, els) = {})
           /\ end # Pattern!NoMatch =>
                 /\ Pattern!Best(s, a, els) \in Pattern!Readings(s, a, els)
                 /\ Pattern!Best(s, a, els)[Len(els)] = end
<1> DEFINE n == Len(els)
           R == Pattern!Readings(s, a, els)
<1>1. R = From(s, els, 1, a)
  BY DEF Pattern!Readings, From
<1>2. \A v, w : PrefersFrom(els, 1, v, w) <=> Pattern!Prefers(els, v, w)
  BY DEF PrefersFrom, Better, Pattern!Prefers
<1>3. CASE end = Pattern!NoMatch
  BY <1>1, <1>3 DEF Right
<1>4. CASE end # Pattern!NoMatch
  <2>1. PICK r \in R : r[n] = end /\ \A w \in R : Pattern!Prefers(els, r, w)
    BY <1>1, <1>2, <1>4 DEF Right
  <2> DEFINE b == Pattern!Best(s, a, els)
  <2>2. b = CHOOSE v \in R : \A w \in R : Pattern!Prefers(els, v, w)
    BY DEF Pattern!Best
  <2>3. b \in R /\ \A w \in R : Pattern!Prefers(els, b, w)
    <3> HIDE DEF b, R
    <3> QED  BY <2>1, <2>2
  <2> HIDE DEF b
  <2>4. b = r
    <3> SUFFICES ASSUME b # r PROVE FALSE
      OBVIOUS
    <3>1. PrefersFrom(els, 1, b, r) /\ PrefersFrom(els, 1, r, b)
      BY <1>2, <2>1, <2>3
    <3>2. PICK i \in 1 .. n : (\A m \in 1 - 1 .. i - 1 : b[m] = r[m]) /\ Better(els[i], b[i], r[i])
      BY <3>1 DEF PrefersFrom
    <3>3. PICK j \in 1 .. n : (\A m \in 1 - 1 .. j - 1 : r[m] = b[m]) /\ Better(els[j], r[j], b[j])
      BY <3>1 DEF PrefersFrom
    <3>4. \A m \in 1 .. n : b[m] \in Int /\ r[m] \in Int
      <4>1. b \in [0 .. n -> 0 .. Len(s)] /\ r \in [0 .. n -> 0 .. Len(s)] /\ Len(s) \in Nat
        BY <2>1, <2>3 DEF Pattern!Readings
      <4>2. \A m \in 1 .. n : b[m] \in 0 .. Len(s) /\ r[m] \in 0 .. Len(s)
        <5>1. \A m \in 1 .. n : m \in 0 .. n
          OBVIOUS
        <5> HIDE DEF R
        <5> QED  BY <4>1, <5>1
      <4> QED  BY <4>2
    <3>5. i = j
      <4>1. CASE i < j
        <5>1. i \in 1 - 1 .. j - 1
          BY <4>1
        <5>2. r[i] = b[i]
          BY <3>3, <5>1
        <5> QED  BY <3>2, <3>4, <5>2 DEF Better
      <4>2. CASE j < i
        <5>1. j \in 1 - 1 .. i - 1
          BY <4>2
        <5>2. r[j] = b[j]
          BY <3>2, <5>1
        <5> QED  BY <3>3, <3>4, <5>2 DEF Better
      <4> QED  BY <4>1, <4>2
    <3> QED  BY <3>2, <3>3, <3>4, <3>5 DEF Better
  <2>5. R # {}
    <3> HIDE DEF R
    <3> QED  BY <2>1
  <2> QED  BY <1>4, <2>1, <2>3, <2>4, <2>5 DEF b
<1> QED  BY <1>3, <1>4

-----------------------------------------------------------------------------
(* The matcher of string.find *)

Here(s, e, rest) ==
    [a \in 0 .. Len(s) |->
        IF e.k = "end" THEN IF a = Len(s) THEN a ELSE Pattern!NoMatch
        ELSE LET counts == Pattern!Counts(s, a, e) IN
             Pattern!FirstEnd([n \in DOMAIN counts |-> rest[a + counts[n]]])]

\* Elements that string.find has: no groups, and nothing behind the end anchor.
Findable(els) ==
    /\ Len(els) \in Nat
    /\ \A k \in 1 .. Len(els) : /\ els[k].k # "group" /\ els[k].q \in Quantifier
                                /\ els[k].k = "end" => k = Len(els)

(* The first end of some tries is the end of one of them, or none. *)
LEMMA FirstEndIs ==
    ASSUME NEW n \in Nat, NEW ends, DOMAIN ends = 1 .. n
    PROVE  \/ Pattern!FirstEnd(ends) = Pattern!NoMatch
           \/ \E i \in 1 .. n : Pattern!FirstEnd(ends) = ends[i]
<1>1. \/ Pattern!First(ends) = Pattern!NoMatch
      \/ Pattern!First(ends) \in 1 .. n
  BY FirstIs
<1> QED  BY <1>1 DEF Pattern!FirstEnd

(* An element that ends at one place, or at none. *)
EndsAt(s, e, a, b) ==
    b \in {Pattern!NoMatch} \cup 0 .. Len(s) /\ \A x \in 0 .. Len(s) : Pattern!Takes(s, e, a, x) <=> x = b

LEMMA OneTry ==
    ASSUME NEW s \in Seq(Char), NEW e, NEW a, NEW b, EndsAt(s, e, a, b), NEW rest
    PROVE  \E t : /\ Tries(s, e, a, t)
                  /\ FirstOf(t, rest) = IF b = Pattern!NoMatch THEN Pattern!NoMatch ELSE rest[b]
<1> USE DEF EndsAt
<1>1. b = Pattern!NoMatch => b \notin 0 .. Len(s)
  BY DEF Pattern!NoMatch
<1>2. CASE b # Pattern!NoMatch
  <2> DEFINE t == <<b>>
             ends == [i \in 1 .. Len(t) |-> rest[t[i]]]
  <2>1. t \in Seq(0 .. Len(s)) /\ Len(t) = 1 /\ t[1] = b /\ 1 .. 1 = {1}
    BY <1>2
  <2> HIDE DEF t
  <2>2. Tries(s, e, a, t)
    BY <1>2, <2>1 DEF Tries
  <2>3. DOMAIN ends = 1 .. 1 /\ ends[1] = rest[b]
    BY <2>1
  <2> HIDE DEF ends
  <2>4. Pattern!FirstEnd(ends) = ends[1]
    <3>1. \/ Pattern!First(ends) = Pattern!NoMatch /\ ends[1] = Pattern!NoMatch
          \/ Pattern!First(ends) = 1 /\ Pattern!First(ends) # Pattern!NoMatch
      <4>1. \/ Pattern!First(ends) = Pattern!NoMatch /\ \A n \in 1 .. 1 : ends[n] = Pattern!NoMatch
            \/ Pattern!First(ends) \in 1 .. 1
        BY <2>3, FirstIs
      <4>2. 1 # Pattern!NoMatch
        BY DEF Pattern!NoMatch
      <4> QED  BY <2>1, <4>1, <4>2
    <3> QED  BY <3>1 DEF Pattern!FirstEnd
  <2> QED  BY <1>2, <2>2, <2>3, <2>4 DEF ends, FirstOf
<1>3. CASE b = Pattern!NoMatch
  <2> DEFINE t == <<>>
             ends == [i \in 1 .. Len(t) |-> rest[t[i]]]
  <2>1. t \in Seq(0 .. Len(s)) /\ Len(t) = 0 /\ 1 .. 0 = {}
    OBVIOUS
  <2> HIDE DEF t
  <2>2. Tries(s, e, a, t)
    BY <1>1, <1>3, <2>1 DEF Tries
  <2>3. DOMAIN ends = {}
    BY <2>1
  <2> HIDE DEF ends
  <2>4. Pattern!FirstEnd(ends) = Pattern!NoMatch
    BY <2>3 DEF Pattern!FirstEnd, Pattern!First
  <2> QED  BY <1>3, <2>2, <2>4 DEF ends, FirstOf
<1> QED  BY <1>2, <1>3

LEMMA HereIs ==
    ASSUME NEW s \in Seq(Char), NEW e, e.k # "group", e.q \in Quantifier, NEW rest \in EndRow(s)
    PROVE  Here(s, e, rest) \in EndRow(s)
<1>1. Len(s) \in Nat
  OBVIOUS
<1>2. ASSUME NEW a \in 0 .. Len(s)
      PROVE  /\ Here(s, e, rest)[a] \in {Pattern!NoMatch} \cup 0 .. Len(s)
             /\ Here(s, e, rest)[a] = Pattern!NoMatch \/ a <= Here(s, e, rest)[a]
  <2>1. CASE e.k = "end"
    <3>1. Here(s, e, rest)[a] = IF a = Len(s) THEN a ELSE Pattern!NoMatch
      BY <2>1 DEF Here
    <3> QED  BY <3>1
  <2>2. CASE e.k # "end"
    <3> DEFINE c == Pattern!Counts(s, a, e)
               ends == [n \in DOMAIN c |-> rest[a + c[n]]]
    <3>1. c \in Seq(Nat) /\ \A i \in 1 .. Len(c) : a + c[i] \in a .. Len(s)
      BY <2>2, CountsAre
    <3>2. Here(s, e, rest)[a] = Pattern!FirstEnd(ends)
      BY <2>2 DEF Here
    <3> HIDE DEF c
    <3>3. DOMAIN ends = 1 .. Len(c) /\ Len(c) \in Nat
      BY <3>1
    <3>4. ASSUME NEW i \in 1 .. Len(c)
          PROVE  ends[i] \in {Pattern!NoMatch} \cup 0 .. Len(s) /\ (ends[i] = Pattern!NoMatch \/ a <= ends[i])
      <4>1. ends[i] = rest[a + c[i]] /\ a + c[i] \in 0 .. Len(s) /\ a <= a + c[i] /\ a \in Int /\ a + c[i] \in Int
        BY <1>1, <3>1, <3>3
      <4> DEFINE b == a + c[i]
      <4> HIDE DEF b, ends
      <4>2. ends[i] = rest[b] /\ b \in 0 .. Len(s) /\ a <= b /\ b \in Int
        BY <4>1 DEF b
      <4>3. rest[b] \in {Pattern!NoMatch} \cup 0 .. Len(s) /\ (rest[b] = Pattern!NoMatch \/ b <= rest[b])
        BY <4>2 DEF EndRow
      <4> QED  BY <1>1, <4>1, <4>2, <4>3
    <3> HIDE DEF ends
    <3> QED  BY <3>2, <3>3, <3>4, FirstEndIs
  <2> QED  BY <2>1, <2>2
<1>3. DOMAIN Here(s, e, rest) = 0 .. Len(s)
  BY DEF Here
<1>4. Here(s, e, rest) = [a \in 0 .. Len(s) |-> Here(s, e, rest)[a]]
  BY <1>3 DEF Here
<1>5. Here(s, e, rest) \in [0 .. Len(s) -> {Pattern!NoMatch} \cup 0 .. Len(s)]
  BY <1>2, <1>4
<1> QED  BY <1>2, <1>5 DEF EndRow

(* match_here tries what each element can take. *)
LEMMA MatchHereIs ==
    ASSUME NEW s \in Seq(Char), NEW els, Findable(els)
    PROVE  \E E : Solved(s, els, E) /\ \A a \in 0 .. Len(s) : Pattern!MatchHere(s, a, els) = E[1][a]
<1> DEFINE n == Len(els)
           D == EndRow(s)
           b == [a \in 0 .. Len(s) |-> a]
           Line(E, k) == IF k > n THEN b ELSE Here(s, els[k], E[k + 1])
           Is(E) == E = [k \in 1 .. n + 1 |-> Line(E, k)]
           M == CHOOSE E : Is(E)
<1>1. n \in Nat /\ Len(s) \in Nat
  BY DEF Findable
<1>2. b \in D /\ \A a \in 0 .. Len(s) : b[a] = a
  BY <1>1 DEF EndRow
<1>3. ASSUME NEW a \in 0 .. Len(s) PROVE Pattern!MatchHere(s, a, els) = M[1][a]
  <2> DEFINE F(E) == E = [k \in 1 .. Len(els) + 1 |-> [x \in Pattern!Offsets(s, a) |->
            IF k > Len(els) THEN x
            ELSE IF els[k].k = "end" THEN IF x = Len(s) THEN x ELSE Pattern!NoMatch
            ELSE LET counts == Pattern!Counts(s, x, els[k]) IN
                 Pattern!FirstEnd([i \in DOMAIN counts |-> E[k + 1][x + counts[i]]])]]
  <2>0. Pattern!Offsets(s, a) = 0 .. Len(s)
    BY <1>1 DEF Pattern!Offsets
  <2>1. Pattern!MatchHere(s, a, els) = (CHOOSE E : F(E))[1][a]
    BY Zenon DEF Pattern!MatchHere
  <2>2. ASSUME NEW E, NEW k \in 1 .. n + 1
        PROVE  [x \in Pattern!Offsets(s, a) |->
            IF k > Len(els) THEN x
            ELSE IF els[k].k = "end" THEN IF x = Len(s) THEN x ELSE Pattern!NoMatch
            ELSE LET counts == Pattern!Counts(s, x, els[k]) IN
                 Pattern!FirstEnd([i \in DOMAIN counts |-> E[k + 1][x + counts[i]]])] = Line(E, k)
    <3>1. CASE k > n
      BY <2>0, <3>1
    <3>2. CASE ~(k > n)
      BY <2>0, <3>2 DEF Here
    <3> QED  BY <3>1, <3>2
  <2>3. \A E : F(E) <=> Is(E)
    <3> HIDE DEF Line
    <3> QED  BY <2>2, Zenon
  <2> HIDE DEF F, Is
  <2>4. (CHOOSE E : F(E)) = (CHOOSE E : Is(E))
    BY <2>3
  <2> QED  BY <2>1, <2>4
<1> DEFINE steps == [k \in 1 .. n |-> [rest \in D |-> Here(s, els[k], rest)]]
<1>4. \A k \in 1 .. n : \A rest \in D : Here(s, els[k], rest) \in D
  BY HereIs DEF Findable
<1> HIDE DEF D, b
<1>5. \E E : Is(E)
  <2>1. steps \in StepsOf(n, D)
    BY <1>4 DEF StepsOf
  <2>2. \A k \in 1 .. n : \A rest \in D : steps[k][rest] = Here(s, els[k], rest)
    OBVIOUS
  <2>3. \E f : GoesDown(f, n, D, b, steps)
    <3>1. n \in Nat /\ b \in D
      BY <1>1, <1>2
    <3> HIDE DEF n, steps
    <3> QED  BY <2>1, <3>1, StepsDown
  <2> HIDE DEF steps
  <2>4. PICK f : f \in [1 .. n + 1 -> D] /\ f[n + 1] = b /\ \A k \in 1 .. n : f[k] = steps[k][f[k + 1]]
    BY <2>3 DEF GoesDown
  <2>5. ASSUME NEW k \in 1 .. n + 1 PROVE f[k] = Line(f, k)
    <3>1. CASE k = n + 1
      BY <1>1, <2>4, <3>1
    <3>2. CASE k # n + 1
      <4>1. k \in 1 .. n /\ k + 1 \in 1 .. n + 1 /\ ~(k > n)
        BY <1>1, <3>2
      <4>2. f[k + 1] \in D
        BY <2>4, <4>1
      <4> QED  BY <2>2, <2>4, <4>1, <4>2
    <3> QED  BY <3>1, <3>2
  <2> HIDE DEF Line
  <2>6. Is(f)
    BY <2>4, <2>5
  <2> QED  BY <2>6
<1>6. Is(M)
  <2> HIDE DEF Is
  <2> QED  BY <1>5
<1> HIDE DEF M
<1>7. M[n + 1] = b /\ \A k \in 1 .. n : M[k] = Here(s, els[k], M[k + 1])
  <2>1. n + 1 \in 1 .. n + 1 /\ n + 1 > n /\ \A k \in 1 .. n : k \in 1 .. n + 1 /\ ~(k > n)
    BY <1>1
  <2>2. \A k \in 1 .. n + 1 : M[k] = Line(M, k)
    BY <1>6
  <2> QED  BY <2>1, <2>2
<1>8. M \in [1 .. n + 1 -> D]
  <2> DEFINE G == {k \in 1 .. n + 1 : M[k] \in D}
  <2>1. n + 1 \in G
    BY <1>1, <1>2, <1>7
  <2>2. ASSUME NEW k \in 1 .. n, k + 1 \in G PROVE k \in G
    BY <1>1, <1>4, <1>7, <2>2
  <2> HIDE DEF G
  <2>3. \A k \in 1 .. n + 1 : k \in G
    BY <1>1, <2>1, <2>2, Down
  <2>4. \A k \in 1 .. n + 1 : M[k] \in D
    BY <2>3 DEF G
  <2>5. M = [k \in 1 .. n + 1 |-> M[k]]
    <3> HIDE DEF Line
    <3> QED  BY <1>6
  <2> QED  BY <2>4, <2>5
<1>9. ASSUME NEW k \in 1 .. n, NEW a \in 0 .. Len(s)
      PROVE  \E t : Tries(s, els[k], a, t) /\ M[k][a] = FirstOf(t, M[k + 1])
  <2>1. els[k].k # "group" /\ els[k].q \in Quantifier /\ (els[k].k = "end" => k = n) /\ k + 1 \in 1 .. n + 1
    BY <1>1 DEF Findable
  <2>2. M[k + 1] \in EndRow(s)
    BY <1>8, <2>1 DEF D
  <2>3. CASE els[k].k = "end"
    <3> DEFINE y == IF a = Len(s) THEN a ELSE Pattern!NoMatch
    <3>1. M[k + 1] = b /\ b[a] = a /\ M[k][a] = y
      BY <1>2, <1>7, <2>1, <2>3 DEF Here
    <3>2. EndsAt(s, els[k], a, y)
      BY <2>3 DEF EndsAt, Pattern!Takes, Pattern!NoMatch
    <3>3. M[k][a] = IF y = Pattern!NoMatch THEN Pattern!NoMatch ELSE M[k + 1][y]
      BY <3>1
    <3> HIDE DEF y
    <3>9. \E t : /\ Tries(s, els[k], a, t)
                 /\ FirstOf(t, M[k + 1]) = IF y = Pattern!NoMatch THEN Pattern!NoMatch ELSE M[k + 1][y]
      BY <3>2, OneTry
    <3> QED  BY <3>3, <3>9
  <2>4. CASE els[k].k # "end"
    <3> DEFINE c == Pattern!Counts(s, a, els[k])
               t == [i \in 1 .. Len(c) |-> a + c[i]]
    <3>1. c \in Seq(Nat) /\ Tries(s, els[k], a, t)
      BY <2>1, <2>4, CountsAre
    <3>2. M[k][a] = Pattern!FirstEnd([i \in DOMAIN c |-> M[k + 1][a + c[i]]])
      BY <1>7, <2>4 DEF Here
    <3> HIDE DEF c
    <3>3. DOMAIN c = 1 .. Len(c) /\ Len(t) = Len(c) /\ \A i \in 1 .. Len(c) : t[i] = a + c[i]
      BY <3>1
    <3> HIDE DEF t
    <3>4. [i \in DOMAIN c |-> M[k + 1][a + c[i]]] = [i \in 1 .. Len(t) |-> M[k + 1][t[i]]]
      BY <3>3
    <3> QED  BY <3>1, <3>2, <3>4 DEF FirstOf
  <2> QED  BY <2>3, <2>4
<1>10. Solved(s, els, M)
  BY <1>2, <1>7, <1>8, <1>9 DEF Solved, D
<1> QED  BY <1>3, <1>10

(* What it finds is right, and not before the offset. *)
LEMMA MatchHereRight ==
    ASSUME NEW s \in Seq(Char), NEW els, Findable(els), NEW a \in 0 .. Len(s)
    PROVE  /\ Right(s, els, 1, a, Pattern!MatchHere(s, a, els))
           /\ Pattern!MatchHere(s, a, els) \in {Pattern!NoMatch} \cup a .. Len(s)
<1>1. PICK E : Solved(s, els, E) /\ \A x \in 0 .. Len(s) : Pattern!MatchHere(s, x, els) = E[1][x]
  BY MatchHereIs
<1>2. Len(els) \in Nat /\ 1 \in 1 .. Len(els) + 1 /\ Len(s) \in Nat
  BY DEF Findable
<1>3. Right(s, els, 1, a, E[1][a])
  BY <1>1, <1>2, SolvedIsRight
<1>4. E[1] \in EndRow(s)
  BY <1>1, <1>2 DEF Solved
<1>5. E[1][a] \in {Pattern!NoMatch} \cup a .. Len(s)
  BY <1>2, <1>4 DEF EndRow
<1> QED  BY <1>1, <1>3, <1>5

-----------------------------------------------------------------------------
(* The matcher with captures *)

SpansIn(s) == (0 .. Len(s)) \X (0 .. Len(s))

(* What tries captured is a sequence, empty if none captured anything. *)
LEMMA GatheredIs ==
    ASSUME NEW n \in Nat, NEW S, NEW rs, \A m \in 1 .. n : rs[m].caps \in Seq(S)
    PROVE  /\ Pattern!Gathered(rs, n) \in Seq(S)
           /\ (\A m \in 1 .. n : rs[m].caps = <<>>) => Pattern!Gathered(rs, n) = <<>>
           /\ n = 1 => Pattern!Gathered(rs, n) = rs[1].caps
<1> DEFINE Line(f, m) == IF m = 0 THEN <<>> ELSE f[m - 1] \o rs[m].caps
           Is(f) == f = [m \in 0 .. n |-> Line(f, m)]
           C == CHOOSE f : Is(f)
           D == Seq(S)
           steps == [m \in 1 .. n |-> [c \in D |-> c \o rs[m].caps]]
<1>1. Pattern!Gathered(rs, n) = C[n]
  BY Zenon DEF Pattern!Gathered
<1>2. \A m \in 1 .. n : \A c \in D : c \o rs[m].caps \in D
  OBVIOUS
<1>3. <<>> \in D
  OBVIOUS
<1>4. \A m \in 1 .. n : \A c \in D : steps[m][c] = c \o rs[m].caps
  OBVIOUS
<1>5. steps \in StepsOf(n, D)
  BY <1>2 DEF StepsOf
<1> HIDE DEF D, steps, C
<1>6. \E f : Is(f)
  <2>1. \E f : GoesUp(f, n, D, <<>>, steps)
    <3> DEFINE b == <<>>
    <3>1. b \in D
      BY <1>3
    <3> HIDE DEF b
    <3>2. \E f : GoesUp(f, n, D, b, steps)
      BY <1>5, <3>1, StepsUp
    <3> QED  BY <3>2 DEF b
  <2>2. PICK f : f \in [0 .. n -> D] /\ f[0] = <<>> /\ \A k \in 1 .. n : f[k] = steps[k][f[k - 1]]
    BY <2>1 DEF GoesUp
  <2>3. ASSUME NEW m \in 0 .. n PROVE f[m] = Line(f, m)
    <3>1. CASE m = 0
      BY <2>2, <3>1
    <3>2. CASE m # 0
      <4>1. m \in 1 .. n /\ m - 1 \in 0 .. n
        BY <3>2
      <4>2. f[m - 1] \in D
        BY <2>2, <4>1
      <4> QED  BY <1>4, <2>2, <3>2, <4>1, <4>2
    <3> QED  BY <3>1, <3>2
  <2> HIDE DEF Line
  <2>4. Is(f)
    BY <2>2, <2>3
  <2> QED  BY <2>4
<1>7. \A m \in 0 .. n : C[m] = Line(C, m)
  <2>1. Is(C)
    <3> HIDE DEF Is
    <3> QED  BY <1>6 DEF C
  <2> HIDE DEF Line
  <2> QED  BY <2>1
<1>8. C[0] = <<>> /\ \A m \in 1 .. n : C[m] = C[m - 1] \o rs[m].caps
  <2>1. 0 \in 0 .. n /\ \A m \in 1 .. n : m \in 0 .. n /\ m # 0
    OBVIOUS
  <2> QED  BY <1>7, <2>1
<1>9. C[n] \in D
  <2> DEFINE G == {m \in 0 .. n : C[m] \in D}
  <2>1. 0 \in G
    BY <1>3, <1>8
  <2>2. ASSUME NEW m \in 1 .. n, m - 1 \in G PROVE m \in G
    <3>1. C[m - 1] \in D /\ m \in 0 .. n
      BY <2>2
    <3>2. C[m] \in D
      BY <1>2, <1>8, <3>1
    <3> QED  BY <3>1, <3>2
  <2> HIDE DEF G
  <2>3. \A m \in 0 .. n : m \in G
    BY <2>1, <2>2, Up
  <2>4. n \in 0 .. n
    OBVIOUS
  <2> QED  BY <2>3, <2>4 DEF G
<1>10. ASSUME \A m \in 1 .. n : rs[m].caps = <<>> PROVE C[n] = <<>>
  <2> DEFINE G == {m \in 0 .. n : C[m] = <<>>}
  <2>1. 0 \in G
    BY <1>8
  <2>2. ASSUME NEW m \in 1 .. n, m - 1 \in G PROVE m \in G
    <3>1. C[m - 1] = <<>> /\ m \in 0 .. n
      BY <2>2
    <3>2. C[m] = <<>> \o <<>> /\ m \in 0 .. n
      BY <1>8, <1>10, <3>1
    <3> QED  BY <3>2
  <2> HIDE DEF G
  <2>3. \A m \in 0 .. n : m \in G
    BY <2>1, <2>2, Up
  <2>4. n \in 0 .. n
    OBVIOUS
  <2> QED  BY <2>3, <2>4 DEF G
<1>11. ASSUME n = 1 PROVE C[n] = rs[1].caps
  <2>1. 1 \in 1 .. n /\ 1 - 1 = 0
    BY <1>11
  <2>2. C[1] = <<>> \o rs[1].caps /\ rs[1].caps \in Seq(S)
    BY <1>8, <2>1
  <2> QED  BY <1>11, <2>2
<1> QED  BY <1>1, <1>9, <1>10, <1>11 DEF D

GmRow(s) ==
    {r \in [0 .. Len(s) -> [end : {Pattern!NoMatch} \cup 0 .. Len(s), caps : Seq(SpansIn(s))]] :
        \A a \in 0 .. Len(s) : r[a].end = Pattern!NoMatch \/ a <= r[a].end}

GmHere(s, e, rest) ==
    [a \in 0 .. Len(s) |->
        IF e.k = "end" THEN [end |-> IF a = Len(s) THEN a ELSE Pattern!NoMatch, caps |-> <<>>]
        ELSE IF e.k = "group" THEN
            LET end == Pattern!MatchHere(s, a, e.inner) IN
            IF end = Pattern!NoMatch THEN [end |-> Pattern!NoMatch, caps |-> <<>>]
            ELSE [end |-> rest[end].end, caps |-> <<<<a, end>>>> \o rest[end].caps]
        ELSE LET counts == Pattern!Counts(s, a, e) IN
             Pattern!Tried([n \in DOMAIN counts |-> rest[a + counts[n]]])]

GmSolved(s, els, M) ==
    /\ M \in [1 .. Len(els) + 1 -> GmRow(s)]
    /\ \A a \in 0 .. Len(s) : M[Len(els) + 1][a] = [end |-> a, caps |-> <<>>]
    /\ \A k \in 1 .. Len(els) : M[k] = GmHere(s, els[k], M[k + 1])

\* Elements that the matcher with captures has.
Matchable(els) ==
    /\ Len(els) \in Nat
    /\ \A k \in 1 .. Len(els) : /\ els[k].q \in Quantifier /\ Findable(els[k].inner)
                                /\ els[k].k = "end" => k = Len(els)

(* What is tried gives one of the ends, and none only if all give none. *)
LEMMA TriedIs ==
    ASSUME NEW n \in Nat, NEW S, NEW rs, DOMAIN rs = 1 .. n, \A m \in 1 .. n : rs[m].caps \in Seq(S)
    PROVE  /\ Pattern!Tried(rs).end = Pattern!FirstEnd([m \in 1 .. n |-> rs[m].end])
           /\ Pattern!Tried(rs).caps \in Seq(S)
           /\ Pattern!Tried(rs) = [end |-> Pattern!Tried(rs).end, caps |-> Pattern!Tried(rs).caps]
           /\ (\A m \in 1 .. n : rs[m].caps = <<>>) => Pattern!Tried(rs).caps = <<>>
           /\ n = 1 /\ Pattern!Tried(rs).end # Pattern!NoMatch => Pattern!Tried(rs).caps = rs[1].caps
<1> DEFINE ends == [m \in 1 .. n |-> rs[m].end]
           f == Pattern!First(ends)
           t == Pattern!Tried(rs)
<1>1. Len(rs) = n
  BY DEF Len
<1>2. t = IF f = Pattern!NoMatch THEN [end |-> Pattern!NoMatch, caps |-> Pattern!Gathered(rs, n)]
          ELSE [end |-> ends[f], caps |-> Pattern!Gathered(rs, f)]
  <2>1. DOMAIN rs = 1 .. n
    OBVIOUS
  <2>2. f # Pattern!NoMatch => ends[f] = rs[f].end
    <3>1. DOMAIN ends = 1 .. n /\ n \in Int
      OBVIOUS
    <3>2. f = Pattern!NoMatch \/ f \in 1 .. n
      <4> HIDE DEF ends
      <4> QED  BY <3>1, FirstIs
    <3> QED  BY <3>2
  <2>3. t = IF f = Pattern!NoMatch THEN [end |-> Pattern!NoMatch, caps |-> Pattern!Gathered(rs, Len(rs))]
            ELSE [end |-> rs[f].end, caps |-> Pattern!Gathered(rs, f)]
    BY <2>1 DEF Pattern!Tried
  <2> HIDE DEF f, ends, t
  <2> QED  BY <1>1, <2>2, <2>3
<1>3. f = Pattern!NoMatch \/ f \in 1 .. n
  <2>1. DOMAIN ends = 1 .. n /\ n \in Int
    OBVIOUS
  <2> HIDE DEF ends
  <2> QED  BY <2>1, FirstIs
<1> HIDE DEF f, t
<1>4. t.end = IF f = Pattern!NoMatch THEN Pattern!NoMatch ELSE ends[f]
  BY <1>2
<1>5. t.end = Pattern!FirstEnd(ends)
  BY <1>4 DEF Pattern!FirstEnd, f
<1>6. PICK m \in 0 .. n : t.caps = Pattern!Gathered(rs, m) /\ (f # Pattern!NoMatch => m \in 1 .. n)
  <2>1. CASE f = Pattern!NoMatch
    <3>1. n \in 0 .. n
      OBVIOUS
    <3> QED  BY <1>2, <2>1, <3>1
  <2>2. CASE f # Pattern!NoMatch
    <3>1. f \in 1 .. n /\ f \in 0 .. n
      BY <1>3, <2>2
    <3> QED  BY <1>2, <2>2, <3>1
  <2> QED  BY <2>1, <2>2
<1>7. m \in Nat /\ \A i \in 1 .. m : i \in 1 .. n
  OBVIOUS
<1>8. /\ t.caps \in Seq(S)
      /\ (\A i \in 1 .. m : rs[i].caps = <<>>) => t.caps = <<>>
      /\ m = 1 => t.caps = rs[1].caps
  <2>1. \A i \in 1 .. m : rs[i].caps \in Seq(S)
    BY <1>7
  <2> QED  BY <1>6, <1>7, <2>1, GatheredIs
<1>9. ASSUME n = 1, t.end # Pattern!NoMatch PROVE t.caps = rs[1].caps
  <2>1. m = 1
    BY <1>4, <1>6, <1>9
  <2> QED  BY <1>8, <2>1
<1>10. t = [end |-> t.end, caps |-> t.caps]
  BY <1>2
<1> QED  BY <1>5, <1>7, <1>8, <1>9, <1>10 DEF t

\* A single try.
LEMMA OnlyTry ==
    ASSUME NEW S, NEW rs, DOMAIN rs = 1 .. 1, rs[1].caps \in Seq(S), Pattern!Tried(rs).end # Pattern!NoMatch
    PROVE  Pattern!Tried(rs).caps = rs[1].caps
<1>1. 1 \in Nat /\ \A m \in 1 .. 1 : rs[m].caps \in Seq(S)
  <2>1. \A m \in 1 .. 1 : m = 1
    OBVIOUS
  <2> QED  BY <2>1, Zenon
<1> QED  BY <1>1, TriedIs, ZenonT(40)

LEMMA GmHereIs ==
    ASSUME NEW s \in Seq(Char), NEW e, e.q \in Quantifier, Findable(e.inner), NEW rest \in GmRow(s)
    PROVE  GmHere(s, e, rest) \in GmRow(s)
<1> DEFINE g == GmHere(s, e, rest)
           Is(a, r) == /\ r = [end |-> r.end, caps |-> r.caps]
                       /\ r.end \in {Pattern!NoMatch} \cup a .. Len(s) /\ r.caps \in Seq(SpansIn(s))
<1>1. Len(s) \in Nat
  OBVIOUS
<1>2. \A b \in 0 .. Len(s) : rest[b].end \in {Pattern!NoMatch} \cup b .. Len(s) /\ rest[b].caps \in Seq(SpansIn(s))
  BY <1>1 DEF GmRow
<1>3. ASSUME NEW a \in 0 .. Len(s) PROVE Is(a, g[a])
  <2>1. CASE e.k = "end"
    <3>1. g[a] = [end |-> IF a = Len(s) THEN a ELSE Pattern!NoMatch, caps |-> <<>>]
      BY <2>1 DEF GmHere
    <3>2. (IF a = Len(s) THEN a ELSE Pattern!NoMatch) \in {Pattern!NoMatch} \cup a .. Len(s)
      BY <1>1
    <3> QED  BY <3>1, <3>2
  <2>2. CASE e.k = "group"
    <3> DEFINE end == Pattern!MatchHere(s, a, e.inner)
    <3>1. end \in {Pattern!NoMatch} \cup a .. Len(s)
      BY MatchHereRight
    <3>2. g[a] = IF end = Pattern!NoMatch THEN [end |-> Pattern!NoMatch, caps |-> <<>>]
                 ELSE [end |-> rest[end].end, caps |-> <<<<a, end>>>> \o rest[end].caps]
      BY <2>2 DEF GmHere
    <3> HIDE DEF end, g
    <3>3. CASE end = Pattern!NoMatch
      BY <3>2, <3>3
    <3>4. CASE end # Pattern!NoMatch
      <4>1. end \in 0 .. Len(s) /\ a <= end /\ end \in a .. Len(s)
        BY <1>1, <3>1, <3>4
      <4>2. rest[end].end \in {Pattern!NoMatch} \cup a .. Len(s) /\ rest[end].caps \in Seq(SpansIn(s))
        BY <1>1, <1>2, <4>1
      <4>3. <<<<a, end>>>> \in Seq(SpansIn(s))
        BY <4>1 DEF SpansIn
      <4>4. <<<<a, end>>>> \o rest[end].caps \in Seq(SpansIn(s))
        BY <4>2, <4>3
      <4> QED  BY <3>2, <3>4, <4>2, <4>4
    <3> QED  BY <3>3, <3>4
  <2>3. CASE e.k \notin {"end", "group"}
    <3> DEFINE c == Pattern!Counts(s, a, e)
               rs == [n \in DOMAIN c |-> rest[a + c[n]]]
    <3>1. c \in Seq(Nat) /\ \A i \in 1 .. Len(c) : a + c[i] \in a .. Len(s)
      BY <2>3, CountsAre
    <3>2. g[a] = Pattern!Tried(rs)
      BY <2>3 DEF GmHere
    <3> HIDE DEF c, g
    <3>3. DOMAIN rs = 1 .. Len(c) /\ Len(c) \in Nat /\ \A i \in 1 .. Len(c) : rs[i] = rest[a + c[i]]
      BY <3>1
    <3> HIDE DEF rs
    <3>4. ASSUME NEW i \in 1 .. Len(c)
          PROVE  rs[i].caps \in Seq(SpansIn(s)) /\ rs[i].end \in {Pattern!NoMatch} \cup a .. Len(s)
      <4> DEFINE b == a + c[i]
      <4>1. b \in 0 .. Len(s) /\ a <= b /\ a \in Int /\ b \in Int
        BY <1>1, <3>1
      <4>2. rs[i] = rest[b]
        BY <3>3
      <4> HIDE DEF b
      <4>3. rest[b].end \in {Pattern!NoMatch} \cup b .. Len(s) /\ rest[b].caps \in Seq(SpansIn(s))
        BY <1>2, <4>1
      <4> QED  BY <1>1, <4>1, <4>2, <4>3
    <3> DEFINE ends == [m \in 1 .. Len(c) |-> rs[m].end]
               r == Pattern!Tried(rs)
    <3>5. r.end = Pattern!FirstEnd(ends) /\ r.caps \in Seq(SpansIn(s)) /\ r = [end |-> r.end, caps |-> r.caps]
      BY <3>3, <3>4, TriedIs
    <3>6. \A m \in 1 .. Len(c) : ends[m] \in {Pattern!NoMatch} \cup a .. Len(s)
      BY <3>4
    <3>7. DOMAIN ends = 1 .. Len(c)
      OBVIOUS
    <3> HIDE DEF ends, r
    <3>8. Pattern!FirstEnd(ends) \in {Pattern!NoMatch} \cup a .. Len(s)
      BY <3>3, <3>6, <3>7, FirstEndIs
    <3> QED  BY <3>2, <3>5, <3>8 DEF r
  <2> QED  BY <2>1, <2>2, <2>3
<1>4. DOMAIN g = 0 .. Len(s) /\ g = [a \in 0 .. Len(s) |-> g[a]]
  BY DEF GmHere
<1> HIDE DEF g
<1>5. ASSUME NEW a \in 0 .. Len(s)
      PROVE  /\ g[a] \in [end : {Pattern!NoMatch} \cup 0 .. Len(s), caps : Seq(SpansIn(s))]
             /\ g[a].end = Pattern!NoMatch \/ a <= g[a].end
  <2> DEFINE r == g[a]
  <2>1. /\ r = [end |-> r.end, caps |-> r.caps] /\ r.caps \in Seq(SpansIn(s))
        /\ r.end \in {Pattern!NoMatch} \cup a .. Len(s)
    BY <1>3
  <2> HIDE DEF r
  <2>2. r.end \in {Pattern!NoMatch} \cup 0 .. Len(s) /\ (r.end = Pattern!NoMatch \/ a <= r.end)
    BY <1>1, <2>1
  <2>3. r \in [end : {Pattern!NoMatch} \cup 0 .. Len(s), caps : Seq(SpansIn(s))]
    BY <2>1, <2>2
  <2> QED  BY <2>2, <2>3 DEF r
<1>6. g \in [0 .. Len(s) -> [end : {Pattern!NoMatch} \cup 0 .. Len(s), caps : Seq(SpansIn(s))]]
  BY <1>4, <1>5
<1> QED  BY <1>5, <1>6 DEF GmRow, g

(* gm_match goes through the elements from the last to the first. *)
LEMMA GmMatchIs ==
    ASSUME NEW s \in Seq(Char), NEW els, Matchable(els)
    PROVE  \E M : GmSolved(s, els, M) /\ \A a \in 0 .. Len(s) : Pattern!GmMatch(s, a, els) = M[1][a]
<1> DEFINE n == Len(els)
           D == GmRow(s)
           b == [a \in 0 .. Len(s) |-> [end |-> a, caps |-> <<>>]]
           Line(E, k) == IF k > n THEN b ELSE GmHere(s, els[k], E[k + 1])
           Is(E) == E = [k \in 1 .. n + 1 |-> Line(E, k)]
           M == CHOOSE E : Is(E)
<1>1. n \in Nat /\ Len(s) \in Nat
  BY DEF Matchable
<1>2. b \in D /\ \A a \in 0 .. Len(s) : b[a] = [end |-> a, caps |-> <<>>]
  BY <1>1 DEF GmRow
<1>3. ASSUME NEW a \in 0 .. Len(s) PROVE Pattern!GmMatch(s, a, els) = M[1][a]
  <2> DEFINE L(E, k, x) ==
                IF k > Len(els) THEN [end |-> x, caps |-> <<>>]
                ELSE IF els[k].k = "end"
                     THEN [end |-> IF x = Len(s) THEN x ELSE Pattern!NoMatch, caps |-> <<>>]
                ELSE IF els[k].k = "group" THEN
                    LET end == Pattern!MatchHere(s, x, els[k].inner) IN
                    IF end = Pattern!NoMatch THEN [end |-> Pattern!NoMatch, caps |-> <<>>]
                    ELSE [end |-> E[k + 1][end].end, caps |-> <<<<x, end>>>> \o E[k + 1][end].caps]
                ELSE LET counts == Pattern!Counts(s, x, els[k]) IN
                     Pattern!Tried([i \in DOMAIN counts |-> E[k + 1][x + counts[i]]])
             F(E) == E = [k \in 1 .. Len(els) + 1 |-> [x \in Pattern!Offsets(s, a) |-> L(E, k, x)]]
  <2>0. Pattern!Offsets(s, a) = 0 .. Len(s)
    BY <1>1 DEF Pattern!Offsets
  <2>1. Pattern!GmMatch(s, a, els) = (CHOOSE E : F(E))[1][a]
    BY Zenon DEF Pattern!GmMatch
  <2>2. ASSUME NEW E, NEW k \in 1 .. n + 1 PROVE [x \in Pattern!Offsets(s, a) |-> L(E, k, x)] = Line(E, k)
    <3>1. CASE k > n
      BY <2>0, <3>1
    <3>2. CASE ~(k > n)
      BY <2>0, <3>2 DEF GmHere
    <3> QED  BY <3>1, <3>2
  <2>3. \A E : F(E) <=> Is(E)
    <3> HIDE DEF Line, L
    <3> QED  BY <2>2, Zenon
  <2> HIDE DEF F, Is
  <2>4. (CHOOSE E : F(E)) = (CHOOSE E : Is(E))
    BY <2>3
  <2> QED  BY <2>1, <2>4
<1> DEFINE steps == [k \in 1 .. n |-> [rest \in D |-> GmHere(s, els[k], rest)]]
<1>4. \A k \in 1 .. n : \A rest \in D : GmHere(s, els[k], rest) \in D
  BY GmHereIs DEF Matchable
<1> HIDE DEF D, b
<1>5. \E E : Is(E)
  <2>1. steps \in StepsOf(n, D)
    BY <1>4 DEF StepsOf
  <2>2. \A k \in 1 .. n : \A rest \in D : steps[k][rest] = GmHere(s, els[k], rest)
    OBVIOUS
  <2>3. \E f : GoesDown(f, n, D, b, steps)
    <3>1. n \in Nat /\ b \in D
      BY <1>1, <1>2
    <3> HIDE DEF n, steps
    <3> QED  BY <2>1, <3>1, StepsDown
  <2> HIDE DEF steps
  <2>4. PICK f : f \in [1 .. n + 1 -> D] /\ f[n + 1] = b /\ \A k \in 1 .. n : f[k] = steps[k][f[k + 1]]
    BY <2>3 DEF GoesDown
  <2>5. ASSUME NEW k \in 1 .. n + 1 PROVE f[k] = Line(f, k)
    <3>1. CASE k = n + 1
      BY <1>1, <2>4, <3>1
    <3>2. CASE k # n + 1
      <4>1. k \in 1 .. n /\ k + 1 \in 1 .. n + 1 /\ ~(k > n)
        BY <1>1, <3>2
      <4>2. f[k + 1] \in D
        BY <2>4, <4>1
      <4> QED  BY <2>2, <2>4, <4>1, <4>2
    <3> QED  BY <3>1, <3>2
  <2> HIDE DEF Line
  <2>6. Is(f)
    BY <2>4, <2>5
  <2> QED  BY <2>6
<1>6. Is(M)
  <2> HIDE DEF Is
  <2> QED  BY <1>5
<1> HIDE DEF M
<1>7. M[n + 1] = b /\ \A k \in 1 .. n : M[k] = GmHere(s, els[k], M[k + 1])
  <2>1. n + 1 \in 1 .. n + 1 /\ n + 1 > n /\ \A k \in 1 .. n : k \in 1 .. n + 1 /\ ~(k > n)
    BY <1>1
  <2>2. \A k \in 1 .. n + 1 : M[k] = Line(M, k)
    BY <1>6
  <2> QED  BY <2>1, <2>2
<1>8. M \in [1 .. n + 1 -> D]
  <2> DEFINE G == {k \in 1 .. n + 1 : M[k] \in D}
  <2>1. n + 1 \in G
    BY <1>1, <1>2, <1>7
  <2>2. ASSUME NEW k \in 1 .. n, k + 1 \in G PROVE k \in G
    BY <1>1, <1>4, <1>7, <2>2
  <2> HIDE DEF G
  <2>3. \A k \in 1 .. n + 1 : k \in G
    BY <1>1, <2>1, <2>2, Down
  <2>4. \A k \in 1 .. n + 1 : M[k] \in D
    BY <2>3 DEF G
  <2>5. M = [k \in 1 .. n + 1 |-> M[k]]
    <3> HIDE DEF Line
    <3> QED  BY <1>6
  <2> QED  BY <2>4, <2>5
<1>9. GmSolved(s, els, M)
  BY <1>2, <1>7, <1>8 DEF GmSolved, D
<1> QED  BY <1>3, <1>9

(* What it finds is not before the offset. *)
LEMMA GmMatchEnd ==
    ASSUME NEW s \in Seq(Char), NEW els, Matchable(els), NEW a \in 0 .. Len(s)
    PROVE  /\ Pattern!GmMatch(s, a, els).end \in {Pattern!NoMatch} \cup a .. Len(s)
           /\ Pattern!GmMatch(s, a, els).caps \in Seq(SpansIn(s))
<1>1. PICK M : GmSolved(s, els, M) /\ \A x \in 0 .. Len(s) : Pattern!GmMatch(s, x, els) = M[1][x]
  BY GmMatchIs
<1>2. Len(els) \in Nat /\ 1 \in 1 .. Len(els) + 1 /\ Len(s) \in Nat
  BY DEF Matchable
<1>3. M[1] \in GmRow(s)
  BY <1>1, <1>2 DEF GmSolved
<1>4. M[1][a].end \in {Pattern!NoMatch} \cup a .. Len(s) /\ M[1][a].caps \in Seq(SpansIn(s))
  BY <1>2, <1>3 DEF GmRow
<1> QED  BY <1>1, <1>4

\* Plain characters, one after the other.
Fixed(els) == Len(els) \in Nat /\ \A j \in 1 .. Len(els) : els[j].k = "item" /\ els[j].q = ""

(* They match in one way only. *)
LEMMA FixedIs ==
    ASSUME NEW s \in Seq(Char), NEW els, Fixed(els), NEW a \in 0 .. Len(s), NEW b \in 0 .. Len(s)
    PROVE  (\A n \in 1 .. Len(els) : s[a + n] \in els[n].set) /\ b = a + Len(els)
              <=> Pattern!MatchHere(s, a, els) = b
<1> DEFINE n == Len(els)
           end == Pattern!MatchHere(s, a, els)
           R == From(s, els, 1, a)
<1>1. n \in Nat /\ Findable(els) /\ Len(s) \in Nat
  <2>1. \A k \in 1 .. Len(els) : els[k].k # "group" /\ els[k].q \in Quantifier /\ els[k].k # "end"
    BY DEF Fixed, Quantifier
  <2>2. n \in Nat
    BY Zenon DEF Fixed
  <2>3. Len(s) \in Nat
    OBVIOUS
  <2> QED  BY <2>1, <2>2, <2>3 DEF Findable
<1>2. Right(s, els, 1, a, end)
  BY <1>1, MatchHereRight
<1>3. \A j \in 1 .. n : \A x, y \in 0 .. Len(s) :
         Pattern!Takes(s, els[j], x, y) <=> y = x + 1 /\ s[y] \in els[j].set
  <2>1. ASSUME NEW j \in 1 .. n, NEW x \in 0 .. Len(s), NEW y \in 0 .. Len(s)
        PROVE  Pattern!Takes(s, els[j], x, y) <=> y = x + 1 /\ s[y] \in els[j].set
    <3>1. els[j].k = "item" /\ els[j].q = ""
      BY DEF Fixed
    <3>2. Pattern!Takes(s, els[j], x, y) <=> x <= y /\ y - x = 1 /\ \A m \in x + 1 .. y : s[m] \in els[j].set
      BY <3>1 DEF Pattern!Takes, Pattern!Allowed
    <3>3. x <= y /\ y - x = 1 <=> y = x + 1
      BY <1>1
    <3>4. ASSUME y = x + 1 PROVE x + 1 .. y = {y}
      BY <1>1, <3>4
    <3> QED  BY <3>2, <3>3, <3>4
  <2> QED  BY <2>1
<1> HIDE DEF end
<1>4. ASSUME NEW r \in R
      PROVE  r[n] = a + n /\ \A j \in 1 .. n : s[a + j] \in els[j].set
  <2>1. /\ r \in [0 .. n -> 0 .. Len(s)] /\ r[0] = a
        /\ \A j \in 1 .. n : Pattern!Takes(s, els[j], r[j - 1], r[j])
    BY DEF From
  <2> HIDE DEF R
  <2>2. ASSUME NEW j \in 1 .. n PROVE r[j] = r[j - 1] + 1 /\ s[r[j]] \in els[j].set
    <3>1. r[j - 1] \in 0 .. Len(s) /\ r[j] \in 0 .. Len(s)
      <4>1. j \in 0 .. n /\ j - 1 \in 0 .. n
        BY <1>1
      <4> QED  BY <2>1, <4>1
    <3> QED  BY <1>3, <2>1, <3>1
  <2> DEFINE G == {j \in 0 .. n : r[j] = a + j}
  <2>3. 0 \in G
    BY <1>1, <2>1
  <2>4. ASSUME NEW j \in 1 .. n, j - 1 \in G PROVE j \in G
    <3>1. r[j - 1] = a + (j - 1) /\ j \in 0 .. n
      BY <1>1, <2>4
    <3> QED  BY <1>1, <2>2, <3>1
  <2> HIDE DEF G
  <2>5. \A j \in 0 .. n : j \in G
    BY <1>1, <2>3, <2>4, Up
  <2>6. \A j \in 0 .. n : r[j] = a + j
    BY <2>5 DEF G
  <2>7. n \in 0 .. n /\ \A j \in 1 .. n : j \in 0 .. n
    BY <1>1
  <2> QED  BY <2>2, <2>6, <2>7
<1>5. ASSUME \A j \in 1 .. n : s[a + j] \in els[j].set, b = a + n PROVE R # {}
  <2> DEFINE r == [j \in 0 .. n |-> a + j]
  <2>1. r \in [0 .. n -> 0 .. Len(s)] /\ r[0] = a
    BY <1>1, <1>5
  <2>2. ASSUME NEW j \in 1 .. n PROVE Pattern!Takes(s, els[j], r[j - 1], r[j])
    <3>1. j \in 0 .. n /\ j - 1 \in 0 .. n
      BY <1>1
    <3>2. r[j - 1] = a + (j - 1) /\ r[j] = a + j /\ r[j - 1] \in 0 .. Len(s) /\ r[j] \in 0 .. Len(s)
      BY <2>1, <3>1
    <3> HIDE DEF r
    <3>3. r[j] = r[j - 1] + 1 /\ s[r[j]] \in els[j].set
      BY <1>1, <1>5, <3>2
    <3> QED  BY <1>3, <3>2, <3>3
  <2> HIDE DEF r
  <2>3. r \in From(s, els, 1, a)
    BY <2>1, <2>2 DEF From
  <2> QED  BY <2>3
<1>6. CASE end = Pattern!NoMatch
  <2>1. R = {}
    BY <1>2, <1>6 DEF Right
  <2>2. end # b
    BY <1>6 DEF Pattern!NoMatch
  <2> QED  BY <1>5, <2>1, <2>2 DEF end
<1>7. CASE end # Pattern!NoMatch
  <2>1. PICK r \in R : r[n] = end
    BY <1>2, <1>7 DEF Right
  <2>2. end = a + n /\ \A j \in 1 .. n : s[a + j] \in els[j].set
    BY <1>4, <2>1
  <2> QED  BY <2>2 DEF end
<1> QED  BY <1>6, <1>7

(* So a group takes what its pattern matches. *)
LEMMA GroupTakes ==
    ASSUME NEW s \in Seq(Char), NEW e, e.k = "group", Fixed(e.inner), DOMAIN e.inner = 1 .. Len(e.inner),
           NEW a \in 0 .. Len(s), NEW b \in 0 .. Len(s)
    PROVE  Pattern!Takes(s, e, a, b) <=> Pattern!MatchHere(s, a, e.inner) = b
<1> DEFINE f == e.inner
<1>1. Pattern!Takes(s, e, a, b) <=> b = a + Len(f) /\ \A n \in 1 .. Len(f) : s[a + n] \in f[n].set
  BY DEF Pattern!Takes
<1> HIDE DEF f
<1>2. (\A n \in 1 .. Len(f) : s[a + n] \in f[n].set) /\ b = a + Len(f) <=> Pattern!MatchHere(s, a, f) = b
  BY FixedIs DEF f
<1> QED  BY <1>1, <1>2 DEF f

(* Where groups match in one way only, gm_match tries what each element    *)
(* can take, as match_here does.                                           *)
LEMMA GmEndsAre ==
    ASSUME NEW s \in Seq(Char), NEW els, Matchable(els), NEW M, GmSolved(s, els, M),
           \A k \in 1 .. Len(els) : els[k].k = "group" => Fixed(els[k].inner)
    PROVE  Solved(s, els, [k \in 1 .. Len(els) + 1 |-> [a \in 0 .. Len(s) |-> M[k][a].end]])
<1> DEFINE n == Len(els)
           E == [k \in 1 .. n + 1 |-> [a \in 0 .. Len(s) |-> M[k][a].end]]
<1>1. n \in Nat /\ Len(s) \in Nat
  BY DEF Matchable
<1>2. \A k \in 1 .. n + 1 : \A a \in 0 .. Len(s) :
         E[k][a] = M[k][a].end /\ M[k] \in GmRow(s)
  BY DEF GmSolved
<1>3. E \in [1 .. n + 1 -> EndRow(s)]
  <2>1. ASSUME NEW k \in 1 .. n + 1 PROVE [a \in 0 .. Len(s) |-> M[k][a].end] \in EndRow(s)
    <3>1. M[k] \in GmRow(s)
      BY DEF GmSolved
    <3> QED  BY <3>1 DEF EndRow, GmRow
  <2> QED  BY <2>1
<1> HIDE DEF E
<1>4. ASSUME NEW a \in 0 .. Len(s) PROVE E[n + 1][a] = a
  <2>1. n + 1 \in 1 .. n + 1
    BY <1>1
  <2>2. M[n + 1][a] = [end |-> a, caps |-> <<>>]
    BY DEF GmSolved
  <2> QED  BY <1>2, <2>1, <2>2
<1>5. ASSUME NEW k \in 1 .. n, NEW a \in 0 .. Len(s)
      PROVE  \E t : Tries(s, els[k], a, t) /\ E[k][a] = FirstOf(t, E[k + 1])
  <2>1. /\ k \in 1 .. n + 1 /\ k + 1 \in 1 .. n + 1 /\ (els[k].k = "end" => k = n) /\ els[k].q \in Quantifier
        /\ Findable(els[k].inner)
    BY <1>1 DEF Matchable
  <2>2. E[k][a] = M[k][a].end /\ M[k][a] = GmHere(s, els[k], M[k + 1])[a]
    BY <1>2, <2>1 DEF GmSolved
  <2>3. CASE els[k].k = "end"
    <3> DEFINE y == IF a = Len(s) THEN a ELSE Pattern!NoMatch
    <3>1. E[k][a] = y
      BY <2>2, <2>3 DEF GmHere
    <3>2. EndsAt(s, els[k], a, y)
      BY <2>3 DEF EndsAt, Pattern!Takes, Pattern!NoMatch
    <3>3. E[k][a] = IF y = Pattern!NoMatch THEN Pattern!NoMatch ELSE E[k + 1][y]
      BY <1>4, <2>1, <2>3, <3>1
    <3> HIDE DEF y
    <3>9. \E t : /\ Tries(s, els[k], a, t)
                 /\ FirstOf(t, E[k + 1]) = IF y = Pattern!NoMatch THEN Pattern!NoMatch ELSE E[k + 1][y]
      BY <3>2, OneTry
    <3> QED  BY <3>3, <3>9
  <2>4. CASE els[k].k = "group"
    <3> DEFINE y == Pattern!MatchHere(s, a, els[k].inner)
    <3>1. y \in {Pattern!NoMatch} \cup a .. Len(s) /\ Fixed(els[k].inner)
      BY <2>1, <2>4, MatchHereRight
    <3>2. \A x \in 0 .. Len(s) : Pattern!Takes(s, els[k], a, x) <=> x = y
      <4>1. DOMAIN els[k].inner = 1 .. Len(els[k].inner)
        BY <2>1 DEF Findable
      <4> QED  BY <2>4, <3>1, <4>1, GroupTakes, SMTT(30)
    <3>3. M[k][a] = IF y = Pattern!NoMatch THEN [end |-> Pattern!NoMatch, caps |-> <<>>]
                    ELSE [end |-> M[k + 1][y].end, caps |-> <<<<a, y>>>> \o M[k + 1][y].caps]
      BY <2>2, <2>4 DEF GmHere
    <3> HIDE DEF y
    <3>4. y \in {Pattern!NoMatch} \cup 0 .. Len(s)
      BY <1>1, <3>1
    <3>5. E[k][a] = IF y = Pattern!NoMatch THEN Pattern!NoMatch ELSE E[k + 1][y]
      BY <1>2, <2>1, <2>2, <3>3, <3>4
    <3>9. \E t : /\ Tries(s, els[k], a, t)
                 /\ FirstOf(t, E[k + 1]) = IF y = Pattern!NoMatch THEN Pattern!NoMatch ELSE E[k + 1][y]
      <4>1. EndsAt(s, els[k], a, y)
        BY <3>2, <3>4 DEF EndsAt
      <4> QED  BY <4>1, OneTry
    <3> QED  BY <3>5, <3>9
  <2>5. CASE els[k].k \notin {"end", "group"}
    <3> DEFINE c == Pattern!Counts(s, a, els[k])
               t == [i \in 1 .. Len(c) |-> a + c[i]]
               rs == [i \in DOMAIN c |-> M[k + 1][a + c[i]]]
    <3>1. c \in Seq(Nat) /\ Tries(s, els[k], a, t) /\ \A i \in 1 .. Len(c) : a + c[i] \in a .. Len(s)
      BY <2>1, <2>5, CountsAre
    <3>2. M[k][a] = Pattern!Tried(rs)
      BY <2>2, <2>5 DEF GmHere
    <3> HIDE DEF c
    <3>3. DOMAIN c = 1 .. Len(c) /\ Len(t) = Len(c) /\ Len(c) \in Nat /\ \A i \in 1 .. Len(c) : t[i] = a + c[i]
      BY <3>1
    <3>4. DOMAIN rs = 1 .. Len(c) /\ \A i \in 1 .. Len(c) : rs[i] = M[k + 1][t[i]] /\ t[i] \in 0 .. Len(s)
      BY <1>1, <3>1, <3>3
    <3> HIDE DEF t, rs
    <3>5. \A i \in 1 .. Len(c) : rs[i].caps \in Seq(SpansIn(s)) /\ E[k + 1][t[i]] = rs[i].end
      <4>1. M[k + 1] \in GmRow(s)
        BY <2>1 DEF GmSolved
      <4>2. \A x \in 0 .. Len(s) : M[k + 1][x].caps \in Seq(SpansIn(s))
        BY <4>1 DEF GmRow
      <4>3. ASSUME NEW i \in 1 .. Len(c)
            PROVE  rs[i].caps \in Seq(SpansIn(s)) /\ E[k + 1][t[i]] = rs[i].end
        <5>1. rs[i] = M[k + 1][t[i]] /\ t[i] \in 0 .. Len(s)
          BY <3>4
        <5> QED  BY <1>2, <2>1, <4>2, <5>1
      <4> QED  BY <4>3
    <3>6. Pattern!Tried(rs).end = Pattern!FirstEnd([m \in 1 .. Len(c) |-> rs[m].end])
      BY <3>3, <3>4, <3>5, TriedIs, ZenonT(40)
    <3>7. [m \in 1 .. Len(c) |-> rs[m].end] = [i \in 1 .. Len(t) |-> E[k + 1][t[i]]]
      BY <3>3, <3>5
    <3> QED  BY <2>2, <3>1, <3>2, <3>6, <3>7 DEF FirstOf
  <2> QED  BY <2>3, <2>4, <2>5
<1>6. Solved(s, els, E)
  BY <1>3, <1>4, <1>5 DEF Solved
<1> QED  BY <1>6 DEF E

\* The spans from each element on.
SpansFrom(els, v, C) ==
    /\ C[Len(els) + 1] = <<>>
    /\ \A k \in 1 .. Len(els) :
          C[k] = IF els[k].k = "group" THEN <<<<v[k - 1], v[k]>>>> \o C[k + 1] ELSE C[k + 1]

LEMMA CapturedIs ==
    ASSUME NEW s, NEW els, Len(els) \in Nat, NEW v \in [0 .. Len(els) -> 0 .. Len(s)]
    PROVE  \E C : SpansFrom(els, v, C) /\ Pattern!Captured(els, v) = C[1]
<1> DEFINE n == Len(els)
           D == Seq(SpansIn(s))
           More(k, c) == IF els[k].k = "group" THEN <<<<v[k - 1], v[k]>>>> \o c ELSE c
           Line(f, k) == IF k > n THEN <<>> ELSE More(k, f[k + 1])
           Is(f) == f = [k \in 1 .. n + 1 |-> Line(f, k)]
           C == CHOOSE f : Is(f)
           steps == [k \in 1 .. n |-> [c \in D |-> More(k, c)]]
           b == <<>>
<1>1. Pattern!Captured(els, v) = C[1]
  <2> DEFINE F(f) == f = [k \in 1 .. Len(els) + 1 |->
                        IF k > Len(els) THEN <<>>
                        ELSE IF els[k].k = "group" THEN <<<<v[k - 1], v[k]>>>> \o f[k + 1] ELSE f[k + 1]]
  <2>1. Pattern!Captured(els, v) = (CHOOSE f : F(f))[1]
    BY Zenon DEF Pattern!Captured
  <2> QED  BY <2>1, Zenon
<1>2. ASSUME NEW k \in 1 .. n, NEW c \in D PROVE More(k, c) \in D
  <2>1. v[k - 1] \in 0 .. Len(s) /\ v[k] \in 0 .. Len(s)
    <3>1. k - 1 \in 0 .. n /\ k \in 0 .. n
      OBVIOUS
    <3> QED  BY <3>1
  <2>2. <<<<v[k - 1], v[k]>>>> \in D
    BY <2>1 DEF SpansIn
  <2> QED  BY <2>2
<1>3. b \in D
  OBVIOUS
<1> HIDE DEF More
<1>4. \A k \in 1 .. n : \A c \in D : steps[k][c] = More(k, c)
  OBVIOUS
<1>5. steps \in StepsOf(n, D)
  BY <1>2 DEF StepsOf
<1> HIDE DEF D, steps, C, b
<1>6. \E f : Is(f)
  <2>1. \E f : GoesDown(f, n, D, b, steps)
    <3>1. n \in Nat
      OBVIOUS
    <3> HIDE DEF n
    <3> QED  BY <1>3, <1>5, <3>1, StepsDown
  <2>2. PICK f : f \in [1 .. n + 1 -> D] /\ f[n + 1] = b /\ \A k \in 1 .. n : f[k] = steps[k][f[k + 1]]
    BY <2>1 DEF GoesDown
  <2>3. ASSUME NEW k \in 1 .. n + 1 PROVE f[k] = Line(f, k)
    <3>1. CASE k = n + 1
      BY <2>2, <3>1 DEF b
    <3>2. CASE k # n + 1
      <4>1. k \in 1 .. n /\ k + 1 \in 1 .. n + 1 /\ ~(k > n)
        BY <3>2
      <4>2. f[k + 1] \in D
        BY <2>2, <4>1
      <4> QED  BY <1>4, <2>2, <4>1, <4>2
    <3> QED  BY <3>1, <3>2
  <2> HIDE DEF Line
  <2>4. Is(f)
    BY <2>2, <2>3
  <2> QED  BY <2>4
<1>7. \A k \in 1 .. n + 1 : C[k] = Line(C, k)
  <2>1. Is(C)
    <3> HIDE DEF Is
    <3> QED  BY <1>6 DEF C
  <2> HIDE DEF Line
  <2> QED  BY <2>1
<1>8. C[n + 1] = <<>> /\ \A k \in 1 .. n : C[k] = More(k, C[k + 1])
  <2>1. n + 1 \in 1 .. n + 1 /\ n + 1 > n /\ \A k \in 1 .. n : k \in 1 .. n + 1 /\ ~(k > n)
    OBVIOUS
  <2> QED  BY <1>7, <2>1
<1>9. SpansFrom(els, v, C)
  BY <1>8 DEF More, SpansFrom
<1> QED  BY <1>1, <1>9, Zenon

\* No quantified item before a group.
Steady(els) == \A j, k \in 1 .. Len(els) :
    j < k /\ els[k].k = "group" => els[j].k \in {"end", "group"} \/ els[j].q = ""

(* What was captured on the way to an end are the groups' spans. *)
LEMMA CapsAre ==
    ASSUME NEW s \in Seq(Char), NEW els, Matchable(els), Steady(els), NEW M, GmSolved(s, els, M),
           \A k \in 1 .. Len(els) : els[k].k = "group" => Fixed(els[k].inner),
           NEW a \in 0 .. Len(s), M[1][a].end # Pattern!NoMatch, NEW v \in Pattern!Readings(s, a, els)
    PROVE  M[1][a].caps = Pattern!Captured(els, v)
<1> DEFINE n == Len(els)
<1>1. n \in Nat /\ Len(s) \in Nat
  BY DEF Matchable
<1>2. /\ v \in [0 .. n -> 0 .. Len(s)] /\ v[0] = a
      /\ \A j \in 1 .. n : Pattern!Takes(s, els[j], v[j - 1], v[j])
  BY DEF Pattern!Readings
<1>0. PICK C : SpansFrom(els, v, C) /\ Pattern!Captured(els, v) = C[1]
  BY <1>1, <1>2, CapturedIs
<1>3. /\ C[n + 1] = <<>>
      /\ \A k \in 1 .. n :
            C[k] = IF els[k].k = "group" THEN <<<<v[k - 1], v[k]>>>> \o C[k + 1] ELSE C[k + 1]
      /\ Pattern!Captured(els, v) = C[1]
  BY <1>0 DEF SpansFrom
<1>4. /\ \A x \in 0 .. Len(s) : M[n + 1][x] = [end |-> x, caps |-> <<>>]
      /\ \A k \in 1 .. n : M[k] = GmHere(s, els[k], M[k + 1])
      /\ \A k \in 1 .. n + 1 : \A x \in 0 .. Len(s) : M[k][x].caps \in Seq(SpansIn(s))
  BY DEF GmSolved, GmRow
<1>5. \A k \in 1 .. n : /\ k \in 1 .. n + 1 /\ k + 1 \in 1 .. n + 1 /\ els[k].q \in Quantifier
                        /\ Findable(els[k].inner)
  BY <1>1 DEF Matchable
\* An item: what is captured is what the rest captures, for one try or another.
<1>6. ASSUME NEW k \in 1 .. n, els[k].k \notin {"end", "group"}, NEW x \in 0 .. Len(s)
      PROVE  /\ (\A y \in 0 .. Len(s) : M[k + 1][y].caps = <<>>) => M[k][x].caps = <<>>
             /\ \A y \in 0 .. Len(s) :
                   els[k].q = "" /\ Pattern!Takes(s, els[k], x, y) /\ M[k][x].end # Pattern!NoMatch =>
                      M[k][x].caps = M[k + 1][y].caps /\ M[k + 1][y].end # Pattern!NoMatch
  <2> DEFINE c == Pattern!Counts(s, x, els[k])
             t == [i \in 1 .. Len(c) |-> x + c[i]]
             rs == [i \in DOMAIN c |-> M[k + 1][x + c[i]]]
  <2>1. c \in Seq(Nat) /\ Tries(s, els[k], x, t) /\ \A i \in 1 .. Len(c) : x + c[i] \in x .. Len(s)
    BY <1>5, <1>6, CountsAre
  <2>2. M[k][x] = Pattern!Tried(rs)
    BY <1>4, <1>6 DEF GmHere
  <2>3. els[k].q = "" => Len(c) = 0 \/ Len(c) = 1
    <3>1. els[k].q = "" => c = <<1>> \/ c = <<>>
      BY DEF Pattern!Counts
    <3> HIDE DEF c
    <3>2. c = <<1>> => Len(c) = 1
      OBVIOUS
    <3>3. c = <<>> => Len(c) = 0
      OBVIOUS
    <3> QED  BY <3>1, <3>2, <3>3
  <2> HIDE DEF c
  <2>4. DOMAIN c = 1 .. Len(c) /\ Len(t) = Len(c) /\ Len(c) \in Nat /\ \A i \in 1 .. Len(c) : t[i] = x + c[i]
    BY <2>1
  <2>5. DOMAIN rs = 1 .. Len(c) /\ \A i \in 1 .. Len(c) : rs[i] = M[k + 1][t[i]] /\ t[i] \in 0 .. Len(s)
    BY <1>1, <2>1, <2>4
  <2> HIDE DEF t, rs
  <2>6. \A i \in 1 .. Len(c) : rs[i].caps \in Seq(SpansIn(s))
    <3>1. ASSUME NEW i \in 1 .. Len(c) PROVE rs[i].caps \in Seq(SpansIn(s))
      <4>1. rs[i] = M[k + 1][t[i]] /\ t[i] \in 0 .. Len(s)
        BY <2>5
      <4> QED  BY <1>4, <1>5, <4>1
    <3> QED  BY <3>1
  <2> DEFINE r == Pattern!Tried(rs)
             ends == [m \in 1 .. Len(c) |-> rs[m].end]
  <2>7. /\ r.end = Pattern!FirstEnd(ends)
        /\ (\A m \in 1 .. Len(c) : rs[m].caps = <<>>) => r.caps = <<>>
        /\ Len(c) = 1 /\ r.end # Pattern!NoMatch => r.caps = rs[1].caps
    <3> DEFINE num == Len(c)
    <3>1. num \in Nat /\ DOMAIN rs = 1 .. num /\ \A m \in 1 .. num : rs[m].caps \in Seq(SpansIn(s))
      BY <2>4, <2>5, <2>6
    <3> HIDE DEF num
    <3>2. /\ Pattern!Tried(rs).end = Pattern!FirstEnd([m \in 1 .. num |-> rs[m].end])
          /\ (\A m \in 1 .. num : rs[m].caps = <<>>) => Pattern!Tried(rs).caps = <<>>
          /\ num = 1 /\ Pattern!Tried(rs).end # Pattern!NoMatch => Pattern!Tried(rs).caps = rs[1].caps
      <4> DEFINE S == SpansIn(s)
      <4>1. \A m \in 1 .. num : rs[m].caps \in Seq(S)
        BY <3>1
      <4> HIDE DEF S
      <4>2. Pattern!Tried(rs).end = Pattern!FirstEnd([m \in 1 .. num |-> rs[m].end])
        BY <3>1, <4>1, TriedIs
      <4>3. (\A m \in 1 .. num : rs[m].caps = <<>>) => Pattern!Tried(rs).caps = <<>>
        BY <3>1, <4>1, TriedIs
      <4>4. num = 1 /\ Pattern!Tried(rs).end # Pattern!NoMatch => Pattern!Tried(rs).caps = rs[1].caps
        <5>1. num = 1 => DOMAIN rs = 1 .. 1 /\ rs[1].caps \in Seq(S)
          <6>1. 1 \in 1 .. 1
            OBVIOUS
          <6> QED  BY <3>1, <4>1, <6>1
        <5> QED  BY <5>1, OnlyTry
      <4> QED  BY <4>2, <4>3, <4>4
    <3> QED  BY <3>2 DEF num
  <2> HIDE DEF r
  <2>8. ASSUME \A y \in 0 .. Len(s) : M[k + 1][y].caps = <<>> PROVE r.caps = <<>>
    <3>1. ASSUME NEW i \in 1 .. Len(c) PROVE rs[i].caps = <<>>
      <4>1. rs[i] = M[k + 1][t[i]] /\ t[i] \in 0 .. Len(s)
        BY <2>5
      <4> QED  BY <2>8, <4>1
    <3> QED  BY <2>7, <3>1
  <2>9. ASSUME NEW y \in 0 .. Len(s), els[k].q = "", Pattern!Takes(s, els[k], x, y), r.end # Pattern!NoMatch
        PROVE  r.caps = M[k + 1][y].caps /\ M[k + 1][y].end # Pattern!NoMatch
    <3>1. PICK i \in 1 .. Len(t) : t[i] = y
      BY <2>1, <2>9 DEF Tries
    <3>2. Len(c) = 1 /\ i = 1
      <4>1. i \in 1 .. Len(c)
        BY <2>4
      <4>2. Len(c) # 0 => Len(c) = 1
        BY <2>3, <2>9
      <4> QED  BY <2>4, <4>1, <4>2
    <3>3. rs[1] = M[k + 1][y]
      BY <2>5, <3>1, <3>2
    <3>4. DOMAIN ends = 1 .. 1 /\ ends[1] = rs[1].end
      BY <3>2
    <3> HIDE DEF ends
    <3>5. Pattern!FirstEnd(ends) = ends[1]
      <4>1. \/ Pattern!FirstEnd(ends) = Pattern!NoMatch
            \/ \E m \in 1 .. 1 : Pattern!FirstEnd(ends) = ends[m]
        BY <3>4, FirstEndIs
      <4>2. 1 .. 1 = {1}
        OBVIOUS
      <4> QED  BY <2>7, <2>9, <4>1, <4>2
    <3> QED  BY <2>7, <2>9, <3>2, <3>3, <3>4, <3>5
  <2> QED  BY <2>2, <2>8, <2>9 DEF r
\* Without a group from the k-th element on nothing is captured.
<1> DEFINE Alone(k) == \A j \in k .. n : els[j].k # "group"
           Empty == {k \in 1 .. n + 1 : Alone(k) => C[k] = <<>> /\ \A x \in 0 .. Len(s) : M[k][x].caps = <<>>}
<1>7. \A k \in 1 .. n + 1 : k \in Empty
  <2>1. n + 1 \in Empty
    <3>1. n + 1 \in 1 .. n + 1
      BY <1>1
    <3>2. ASSUME NEW x \in 0 .. Len(s) PROVE M[n + 1][x].caps = <<>>
      <4>1. M[n + 1][x] = [end |-> x, caps |-> <<>>]
        BY <1>4
      <4> QED  BY <4>1
    <3> QED  BY <1>3, <3>1, <3>2
  <2>2. ASSUME NEW k \in 1 .. n, k + 1 \in Empty PROVE k \in Empty
    <3> SUFFICES ASSUME Alone(k) PROVE C[k] = <<>> /\ \A x \in 0 .. Len(s) : M[k][x].caps = <<>>
      BY <1>5
    <3>1. els[k].k # "group" /\ Alone(k + 1)
      <4>1. k \in k .. n /\ \A j \in k + 1 .. n : j \in k .. n
        BY <1>1
      <4> QED  BY <4>1
    <3> HIDE DEF Alone
    <3>2. C[k + 1] = <<>> /\ \A y \in 0 .. Len(s) : M[k + 1][y].caps = <<>>
      BY <2>2, <3>1
    <3>3. ASSUME NEW x \in 0 .. Len(s) PROVE M[k][x].caps = <<>>
      <4>1. CASE els[k].k = "end"
        <5>1. M[k][x] = [end |-> IF x = Len(s) THEN x ELSE Pattern!NoMatch, caps |-> <<>>]
          BY <1>4, <4>1 DEF GmHere
        <5> QED  BY <5>1
      <4>2. CASE els[k].k # "end"
        BY <1>6, <3>1, <3>2, <4>2
      <4> QED  BY <4>1, <4>2
    <3> QED  BY <1>3, <3>1, <3>2, <3>3
  <2> HIDE DEF Empty
  <2> QED  BY <1>1, <2>1, <2>2, Down
<1> DEFINE Same == {k \in 1 .. n + 1 : M[k][v[k - 1]].end # Pattern!NoMatch => M[k][v[k - 1]].caps = C[k]}
<1>8. \A k \in 1 .. n + 1 : v[k - 1] \in 0 .. Len(s)
  <2>1. \A k \in 1 .. n + 1 : k - 1 \in 0 .. n
    BY <1>1
  <2> QED  BY <1>2, <2>1
<1>9. n + 1 \in Same
  <2>1. n + 1 \in 1 .. n + 1 /\ v[(n + 1) - 1] \in 0 .. Len(s)
    BY <1>1, <1>8
  <2>2. M[n + 1][v[(n + 1) - 1]] = [end |-> v[(n + 1) - 1], caps |-> <<>>]
    BY <1>4, <2>1
  <2> QED  BY <1>3, <2>1, <2>2
<1>10. ASSUME NEW k \in 1 .. n, k + 1 \in Same PROVE k \in Same
  <2> DEFINE x == v[k - 1]
             y == v[k]
  <2>1. k \in 1 .. n + 1 /\ x \in 0 .. Len(s) /\ y \in 0 .. Len(s) /\ (k + 1) - 1 = k /\ Pattern!Takes(s, els[k], x, y)
    <3>1. k \in 0 .. n /\ k - 1 \in 0 .. n /\ k \in 1 .. n + 1 /\ (k + 1) - 1 = k
      BY <1>1
    <3> QED  BY <1>2, <3>1
  <2>2. M[k + 1][y].end # Pattern!NoMatch => M[k + 1][y].caps = C[k + 1]
    BY <1>10, <2>1
  <2>3. C[k] = IF els[k].k = "group" THEN <<<<x, y>>>> \o C[k + 1] ELSE C[k + 1]
    BY <1>3
  <2> SUFFICES ASSUME M[k][x].end # Pattern!NoMatch PROVE M[k][x].caps = C[k]
    BY <2>1
  <2> HIDE DEF x, y, Same
  <2>4. CASE els[k].k = "end"
    <3>1. k = n
      BY <2>4 DEF Matchable
    <3>2. C[k] = <<>>
      BY <1>3, <2>3, <2>4, <3>1
    <3>3. M[k][x] = [end |-> IF x = Len(s) THEN x ELSE Pattern!NoMatch, caps |-> <<>>]
      BY <1>4, <2>1, <2>4 DEF GmHere
    <3> QED  BY <3>2, <3>3
  <2>5. CASE els[k].k = "group"
    <3>1. Fixed(els[k].inner) /\ DOMAIN els[k].inner = 1 .. Len(els[k].inner)
      BY <1>5, <2>5 DEF Findable
    <3>2. Pattern!MatchHere(s, x, els[k].inner) = y
      BY <2>1, <2>5, <3>1, GroupTakes, SMTT(30)
    <3>3. y # Pattern!NoMatch
      BY <2>1 DEF Pattern!NoMatch
    <3>4. M[k][x] = [end |-> M[k + 1][y].end, caps |-> <<<<x, y>>>> \o M[k + 1][y].caps]
      BY <1>4, <2>1, <2>5, <3>2, <3>3 DEF GmHere
    <3>5. M[k][x].end = M[k + 1][y].end /\ M[k][x].caps = <<<<x, y>>>> \o M[k + 1][y].caps
      BY <3>4, SMTT(30)
    <3>6. M[k + 1][y].caps = C[k + 1]
      BY <2>2, <3>5
    <3> QED  BY <2>3, <2>5, <3>5, <3>6
  <2>6. CASE els[k].k \notin {"end", "group"} /\ els[k].q = ""
    <3>1. M[k][x].caps = M[k + 1][y].caps /\ M[k + 1][y].end # Pattern!NoMatch
      BY <1>6, <2>1, <2>6
    <3> QED  BY <2>2, <2>3, <2>6, <3>1
  <2>7. CASE els[k].k \notin {"end", "group"} /\ els[k].q # ""
    <3>1. Alone(k)
      <4>1. ASSUME NEW j \in k .. n, els[j].k = "group" PROVE FALSE
        <5>1. j \in 1 .. n /\ k < j
          <6>1. j # k
            BY <2>7, <4>1
          <6> QED  BY <1>1, <6>1
        <5> QED  BY <2>7, <4>1, <5>1 DEF Steady
      <4> QED  BY <4>1
    <3> HIDE DEF Alone
    <3>2. C[k] = <<>> /\ M[k][x].caps = <<>>
      BY <1>7, <2>1, <3>1
    <3> QED  BY <3>2
  <2> QED  BY <2>4, <2>5, <2>6, <2>7
<1> HIDE DEF Same
<1>11. \A k \in 1 .. n + 1 : k \in Same
  BY <1>1, <1>9, <1>10, Down
<1>12. 1 \in 1 .. n + 1 /\ 1 - 1 = 0
  BY <1>1
<1>13. M[1][a].caps = C[1]
  BY <1>2, <1>11, <1>12 DEF Same
<1> QED  BY <1>3, <1>13

-----------------------------------------------------------------------------
(* A whole pattern *)

(* Its elements are what the matchers have. *)
LEMMA PatternIs ==
    ASSUME NEW p, Pattern!IsPattern(p)
    PROVE  /\ Matchable(p.els)
           /\ Pattern!NoGroups(p) => Findable(p.els)
           /\ Pattern!FixedGroups(p) => \A k \in 1 .. Len(p.els) : p.els[k].k = "group" => Fixed(p.els[k].inner)
           /\ Pattern!NoRetry(p) => Steady(p.els)
<1> DEFINE Kinds == {"item", "group", "end"}
           E == Pattern!Element(Kinds, Seq(Pattern!Plain))
           els == p.els
<1>1. els \in Seq(E) /\ Pattern!EndsLast(els) /\ \A k \in DOMAIN els : Pattern!EndsLast(els[k].inner)
  BY DEF Pattern!IsPattern
<1>2. \A e \in E : e.k \in Kinds /\ e.q \in Quantifier /\ e.inner \in Seq(Pattern!Plain)
  BY DEF Pattern!Element, Quantifier
<1>3. \A e \in Pattern!Plain : e.k \in {"item", "end"} /\ e.q \in Quantifier
  BY DEF Pattern!Plain, Pattern!Element, Quantifier
<1> HIDE DEF E, els
<1>4. Len(els) \in Nat /\ DOMAIN els = 1 .. Len(els) /\ \A k \in 1 .. Len(els) : els[k] \in E
  BY <1>1
<1>5. \A k \in 1 .. Len(els) : els[k].k = "end" => k = Len(els)
  BY <1>1, <1>4 DEF Pattern!EndsLast
<1>6. ASSUME NEW k \in 1 .. Len(els) PROVE Findable(els[k].inner)
  <2> DEFINE in == els[k].inner
  <2>1. in \in Seq(Pattern!Plain) /\ Pattern!EndsLast(in)
    BY <1>1, <1>2, <1>4
  <2> HIDE DEF in
  <2>2. Len(in) \in Nat /\ DOMAIN in = 1 .. Len(in) /\ \A j \in 1 .. Len(in) : in[j] \in Pattern!Plain
    BY <2>1
  <2>3. ASSUME NEW j \in 1 .. Len(in)
        PROVE in[j].k # "group" /\ in[j].q \in Quantifier /\ (in[j].k = "end" => j = Len(in))
    <3>1. in[j] \in Pattern!Plain /\ (in[j].k = "end" => j = Len(in))
      BY <2>1, <2>2 DEF Pattern!EndsLast
    <3>2. in[j].k \in {"item", "end"} /\ in[j].q \in Quantifier
      BY <1>3, <3>1
    <3> QED  BY <3>1, <3>2
  <2>4. Findable(in)
    BY <2>2, <2>3 DEF Findable
  <2> QED  BY <2>4 DEF in
<1>7. Matchable(els)
  <2>1. \A k \in 1 .. Len(els) : els[k].q \in Quantifier
    BY <1>2, <1>4
  <2> QED  BY <1>4, <1>5, <1>6, <2>1 DEF Matchable
<1>8. Pattern!NoGroups(p) => Findable(els)
  <2>1. \A k \in 1 .. Len(els) : els[k].q \in Quantifier
    BY <1>2, <1>4
  <2>2. Pattern!NoGroups(p) => \A k \in 1 .. Len(els) : els[k].k # "group"
    BY <1>4 DEF Pattern!NoGroups, els
  <2> QED  BY <1>4, <1>5, <2>1, <2>2 DEF Findable
<1>9. Pattern!FixedGroups(p) => \A k \in 1 .. Len(els) : els[k].k = "group" => Fixed(els[k].inner)
  <2>1. ASSUME Pattern!FixedGroups(p), NEW k \in 1 .. Len(els), els[k].k = "group" PROVE Fixed(els[k].inner)
    <3>1. els[k].inner \in Seq(Pattern!Plain)
      BY <1>2, <1>4
    <3>2. \A j \in DOMAIN els[k].inner : els[k].inner[j].k = "item" /\ els[k].inner[j].q = ""
      BY <1>4, <2>1 DEF Pattern!FixedGroups, els
    <3>3. Len(els[k].inner) \in Nat /\ DOMAIN els[k].inner = 1 .. Len(els[k].inner)
      BY <3>1
    <3> QED  BY <3>2, <3>3 DEF Fixed
  <2> QED  BY <2>1
<1>10. Pattern!NoRetry(p) => Steady(els)
  <2>1. ASSUME Pattern!NoRetry(p), NEW j \in 1 .. Len(els), NEW k \in 1 .. Len(els), j < k, els[k].k = "group"
        PROVE els[j].k \in {"end", "group"} \/ els[j].q = ""
    <3>1. els[j].k # "item" \/ els[j].q = ""
      BY <1>4, <2>1 DEF Pattern!NoRetry, els
    <3>2. els[j].k \in Kinds
      BY <1>2, <1>4
    <3> QED  BY <3>1, <3>2
  <2> QED  BY <2>1 DEF Steady
<1> QED  BY <1>7, <1>8, <1>9, <1>10 DEF els

\* The starts that are tried, from the first to the last.
LEMMA StartsAre ==
    ASSUME NEW s \in Seq(Char), NEW p, NEW from \in 0 .. Len(s)
    PROVE  \E hi \in from .. Len(s) : Pattern!Starts(s, p, from) = from .. hi
<1>1. Len(s) \in Nat /\ ~(from > Len(s))
  OBVIOUS
<1>2. CASE p.anchored
  BY <1>1, <1>2 DEF Pattern!Starts
<1>3. CASE ~p.anchored
  BY <1>1, <1>3 DEF Pattern!Starts
<1> QED  BY <1>2, <1>3

\* The starts that match, and the one that is meant.
Matching(s, p, from) == {i \in Pattern!Starts(s, p, from) : Pattern!Readings(s, i, p.els) # {}}

(* With right ends, the first start that has one is the least that matches. *)
LEMMA FirstStart ==
    ASSUME NEW s \in Seq(Char), NEW p, Len(p.els) \in Nat, NEW from \in 0 .. Len(s), NEW ends,
           DOMAIN ends = Pattern!Starts(s, p, from),
           \A i \in 0 .. Len(s) : i \in DOMAIN ends => Right(s, p.els, 1, i, ends[i])
    PROVE  LET f == Pattern!First(ends)
               v == Pattern!Best(s, f, p.els)
           IN  \/ /\ f = Pattern!NoMatch /\ Matching(s, p, from) = {}
                  /\ Pattern!Meant(s, p, from) = Pattern!None
               \/ /\ f \in from .. Len(s) /\ ends[f] # Pattern!NoMatch
                  /\ v \in Pattern!Readings(s, f, p.els) /\ v[Len(p.els)] = ends[f]
                  /\ Pattern!Meant(s, p, from) =
                        [mstart |-> f, mend |-> ends[f], caps |-> Pattern!Kept(Pattern!Captured(p.els, v))]
<1> DEFINE f == Pattern!First(ends)
           v == Pattern!Best(s, f, p.els)
           R(i) == Pattern!Readings(s, i, p.els)
           S == Matching(s, p, from)
           least == CHOOSE k \in S : \A j \in S : k <= j
           w == Pattern!Best(s, least, p.els)
<1>1. PICK hi \in from .. Len(s) : Pattern!Starts(s, p, from) = from .. hi
  BY StartsAre
<1>2. from \in Nat /\ hi \in Int /\ from .. hi \subseteq 0 .. Len(s) /\ from .. hi \subseteq from .. Len(s)
  BY <1>1
<1>3. \A i \in from .. hi : ends[i] = Pattern!NoMatch <=> R(i) = {}
  <2>1. ASSUME NEW i \in from .. hi PROVE ends[i] = Pattern!NoMatch <=> R(i) = {}
    <3>1. i \in 0 .. Len(s) /\ Right(s, p.els, 1, i, ends[i])
      BY <1>1, <1>2
    <3> QED  BY <3>1, BestIs
  <2> QED  BY <2>1
<1>4. S = {i \in from .. hi : R(i) # {}}
  BY <1>1 DEF Matching
<1>5. Pattern!Meant(s, p, from) =
        IF S = {} THEN Pattern!None
        ELSE [mstart |-> least, mend |-> w[Len(p.els)], caps |-> Pattern!Kept(Pattern!Captured(p.els, w))]
  BY DEF Pattern!Meant, Matching
<1>6. \/ /\ f = Pattern!NoMatch
         /\ \A n \in from .. hi : ends[n] = Pattern!NoMatch
      \/ /\ f \in from .. hi
         /\ ends[f] # Pattern!NoMatch
         /\ \A n \in from .. hi : ends[n] # Pattern!NoMatch => f <= n
  BY <1>1, <1>2, FirstIs
<1> HIDE DEF f, R, S
<1>7. CASE f = Pattern!NoMatch /\ \A n \in from .. hi : ends[n] = Pattern!NoMatch
  <2>1. S = {}
    BY <1>3, <1>4, <1>7
  <2> QED  BY <1>5, <1>7, <2>1 DEF f, S
<1>8. CASE /\ f \in from .. hi /\ ends[f] # Pattern!NoMatch
           /\ \A n \in from .. hi : ends[n] # Pattern!NoMatch => f <= n
  <2>1. f \in S /\ \A j \in S : f <= j
    BY <1>3, <1>4, <1>8
  <2>2. S \subseteq Int
    BY <1>2, <1>4
  <2>3. least = f
    <3>1. least \in S /\ \A j \in S : least <= j
      BY <2>1
    <3> HIDE DEF least
    <3> QED  BY <2>1, <2>2, <3>1
  <2>4. f \in 0 .. Len(s) /\ Right(s, p.els, 1, f, ends[f])
    BY <1>1, <1>2, <1>8
  <2> HIDE DEF least
  <2>5. v \in Pattern!Readings(s, f, p.els) /\ v[Len(p.els)] = ends[f]
    BY <1>8, <2>4, BestIs
  <2>6. S # {} /\ w = v
    BY <2>1, <2>3
  <2> HIDE DEF w, v
  <2>7. Pattern!Meant(s, p, from) =
          [mstart |-> f, mend |-> ends[f], caps |-> Pattern!Kept(Pattern!Captured(p.els, v))]
    BY <1>5, <2>3, <2>5, <2>6
  <2> QED  BY <1>2, <1>8, <2>5, <2>7 DEF f, v
<1> QED  BY <1>6, <1>7, <1>8

(* string.find finds the match that is meant. *)
LEMMA FindIs ==
    ASSUME NEW s \in Seq(Char), NEW p, Pattern!IsPattern(p), Pattern!NoGroups(p), NEW from \in 0 .. Len(s)
    PROVE  Pattern!Span(Pattern!StringFind(s, p, from)) = Pattern!Span(Pattern!Meant(s, p, from))
<1> DEFINE ends == [j \in Pattern!Starts(s, p, from) |-> Pattern!MatchHere(s, j, p.els)]
           f == Pattern!First(ends)
<1>1. Findable(p.els)
  BY PatternIs
<1>2. DOMAIN ends = Pattern!Starts(s, p, from)
  OBVIOUS
<1>3. \A i \in 0 .. Len(s) : i \in DOMAIN ends => Right(s, p.els, 1, i, ends[i])
  BY <1>1, MatchHereRight
<1>4. Pattern!StringFind(s, p, from) =
        IF f = Pattern!NoMatch THEN Pattern!None
        ELSE [mstart |-> f, mend |-> Pattern!MatchHere(s, f, p.els), caps |-> <<>>]
  <2>1. ~(from > Len(s))
    OBVIOUS
  <2> QED  BY <2>1 DEF Pattern!StringFind
<1>5. f \in from .. Len(s) /\ ends[f] # Pattern!NoMatch => Pattern!MatchHere(s, f, p.els) = ends[f]
  <2>1. PICK hi \in from .. Len(s) : Pattern!Starts(s, p, from) = from .. hi
    BY StartsAre
  <2>2. f = Pattern!NoMatch \/ f \in from .. hi
    <3>1. from \in Nat /\ hi \in Int /\ DOMAIN ends = from .. hi
      BY <2>1
    <3> HIDE DEF ends
    <3> QED  BY <3>1, FirstIs
  <2>3. f \in from .. hi => ends[f] = Pattern!MatchHere(s, f, p.els)
    BY <2>1
  <2>4. f \in from .. Len(s) => f # Pattern!NoMatch
    BY DEF Pattern!NoMatch
  <2> HIDE DEF f
  <2> QED  BY <2>2, <2>3, <2>4
<1> HIDE DEF ends
<1> DEFINE v == Pattern!Best(s, f, p.els)
<1>6. \/ /\ f = Pattern!NoMatch
         /\ Pattern!Meant(s, p, from) = Pattern!None
      \/ /\ f \in from .. Len(s) /\ ends[f] # Pattern!NoMatch
         /\ Pattern!Meant(s, p, from) =
               [mstart |-> f, mend |-> ends[f], caps |-> Pattern!Kept(Pattern!Captured(p.els, v))]
  <2>1. Len(p.els) \in Nat
    BY <1>1 DEF Findable
  <2> QED  BY <1>2, <1>3, <2>1, FirstStart
<1> HIDE DEF f, v
<1>7. CASE f = Pattern!NoMatch
  BY <1>4, <1>6, <1>7 DEF Pattern!NoMatch
<1>8. CASE f # Pattern!NoMatch
  BY <1>4, <1>5, <1>6, <1>8 DEF Pattern!Span
<1> QED  BY <1>7, <1>8

\* What gm_find gives, in one piece.
LEMMA GmFindIs ==
    ASSUME NEW s \in Seq(Char), NEW p, Pattern!IsPattern(p), NEW from \in 0 .. Len(s), NEW ends,
           ends = [j \in Pattern!Starts(s, p, from) |-> Pattern!GmMatch(s, j, p.els).end]
    PROVE  LET f == Pattern!First(ends) IN
           \/ /\ f = Pattern!NoMatch /\ Pattern!GmFind(s, p, from) = Pattern!None
           \/ /\ f \in from .. Len(s) /\ ends[f] \in f .. Len(s)
              /\ Pattern!GmFind(s, p, from) =
                    [mstart |-> f, mend |-> ends[f], caps |-> Pattern!Kept(Pattern!GmMatch(s, f, p.els).caps)]
<1> DEFINE f == Pattern!First(ends)
           g == Pattern!GmMatch(s, f, p.els)
<1>1. Pattern!GmFind(s, p, from) =
        IF f = Pattern!NoMatch THEN Pattern!None
        ELSE [mstart |-> f, mend |-> g.end, caps |-> Pattern!Kept(g.caps)]
  <2> DEFINE S == Pattern!Starts(s, p, from)
             ms == [j \in S |-> Pattern!GmMatch(s, j, p.els)]
  <2>1. Pattern!GmFind(s, p, from) = Pattern!Found(ms)
    BY DEF Pattern!GmFind
  <2>2. [j \in DOMAIN ms |-> ms[j].end] = ends
    OBVIOUS
  <2>3. f = Pattern!NoMatch \/ ms[f] = g
    <3>1. PICK hi \in from .. Len(s) : S = from .. hi
      BY StartsAre
    <3>2. from \in Nat /\ hi \in Int /\ DOMAIN ends = from .. hi
      BY <3>1
    <3>3. f = Pattern!NoMatch \/ f \in S
      BY <3>1, <3>2, FirstIs
    <3> QED  BY <3>3
  <2> HIDE DEF ms, f, g
  <2> QED  BY <2>1, <2>2, <2>3 DEF Pattern!Found, f
<1>2. PICK hi \in from .. Len(s) : Pattern!Starts(s, p, from) = from .. hi
  BY StartsAre
<1>3. f = Pattern!NoMatch \/ (f \in from .. hi /\ ends[f] # Pattern!NoMatch)
  <2>1. from \in Nat /\ hi \in Int /\ DOMAIN ends = from .. hi
    BY <1>2
  <2> QED  BY <2>1, FirstIs
<1>4. f \in from .. hi => ends[f] = g.end
  BY <1>2
<1> HIDE DEF f
<1>5. f \in from .. hi => f \in from .. Len(s) /\ g.end \in {Pattern!NoMatch} \cup f .. Len(s)
  <2>1. ASSUME f \in from .. hi PROVE f \in from .. Len(s) /\ f \in 0 .. Len(s)
    BY <1>2, <2>1
  <2>2. Matchable(p.els)
    BY PatternIs
  <2> QED  BY <2>1, <2>2, GmMatchEnd
<1> HIDE DEF g
<1>6. CASE f = Pattern!NoMatch
  BY <1>1, <1>6 DEF f
<1>7. CASE f \in from .. hi /\ ends[f] # Pattern!NoMatch
  <2>1. f # Pattern!NoMatch
    BY <1>7 DEF Pattern!NoMatch
  <2>2. Pattern!GmFind(s, p, from) = [mstart |-> f, mend |-> ends[f], caps |-> Pattern!Kept(g.caps)]
    BY <1>1, <1>4, <1>7, <2>1
  <2>3. f \in from .. Len(s) /\ ends[f] \in f .. Len(s)
    BY <1>4, <1>5, <1>7
  <2> QED  BY <2>2, <2>3 DEF f, g
<1> QED  BY <1>3, <1>6, <1>7

\* A match at or behind an offset, which ends in the subject and not before it starts.
MatchFrom(s, from, m) == m.mstart \in from .. Len(s) /\ m.mend \in m.mstart .. Len(s)

(* gm_find finds a match that is nowhere outside the subject, or none. *)
LEMMA GmFindFrom ==
    ASSUME NEW s \in Seq(Char), NEW p, Pattern!IsPattern(p), NEW from \in 0 .. Len(s)
    PROVE  \/ Pattern!GmFind(s, p, from) = Pattern!None
           \/ MatchFrom(s, from, Pattern!GmFind(s, p, from)) /\ Pattern!GmFind(s, p, from) # Pattern!None
<1> DEFINE ends == [j \in Pattern!Starts(s, p, from) |-> Pattern!GmMatch(s, j, p.els).end]
           f == Pattern!First(ends)
           m == Pattern!GmFind(s, p, from)
           caps == Pattern!Kept(Pattern!GmMatch(s, f, p.els).caps)
<1>1. \/ m = Pattern!None
      \/ f \in from .. Len(s) /\ ends[f] \in f .. Len(s) /\ m = [mstart |-> f, mend |-> ends[f], caps |-> caps]
  BY GmFindIs
<1> HIDE DEF f, ends, m, caps
<1>2. ASSUME f \in from .. Len(s), ends[f] \in f .. Len(s), m = [mstart |-> f, mend |-> ends[f], caps |-> caps]
      PROVE  MatchFrom(s, from, m) /\ m # Pattern!None
  <2>1. m.mstart = f /\ m.mend = ends[f]
    BY <1>2
  <2>2. Pattern!None.mstart = -1
    BY DEF Pattern!None, Pattern!NoMatch
  <2> QED  BY <1>2, <2>1, <2>2 DEF MatchFrom
<1> QED  BY <1>1, <1>2 DEF m

(* Where groups match in one way only, it finds the match that is meant,   *)
(* and with no quantified item before a group it captures what is meant.   *)
LEMMA GmFindMeant ==
    ASSUME NEW s \in Seq(Char), NEW p, Pattern!IsPattern(p), Pattern!FixedGroups(p), NEW from \in 0 .. Len(s)
    PROVE  /\ Pattern!Span(Pattern!GmFind(s, p, from)) = Pattern!Span(Pattern!Meant(s, p, from))
           /\ Pattern!NoRetry(p) => Pattern!GmFind(s, p, from) = Pattern!Meant(s, p, from)
<1> DEFINE els == p.els
           ends == [j \in Pattern!Starts(s, p, from) |-> Pattern!GmMatch(s, j, els).end]
           f == Pattern!First(ends)
           v == Pattern!Best(s, f, els)
           found == Pattern!GmFind(s, p, from)
           meant == Pattern!Meant(s, p, from)
           c == Pattern!Kept(Pattern!GmMatch(s, f, els).caps)
           d == Pattern!Kept(Pattern!Captured(els, v))
<1>1. /\ Matchable(els) /\ Len(els) \in Nat
      /\ \A k \in 1 .. Len(els) : els[k].k = "group" => Fixed(els[k].inner)
      /\ Pattern!NoRetry(p) => Steady(els)
  BY PatternIs DEF Matchable
<1>2. PICK M : GmSolved(s, els, M) /\ \A a \in 0 .. Len(s) : Pattern!GmMatch(s, a, els) = M[1][a]
  BY <1>1, GmMatchIs
<1> HIDE DEF els
<1> DEFINE E == [k \in 1 .. Len(els) + 1 |-> [a \in 0 .. Len(s) |-> M[k][a].end]]
<1>3. \A a \in 0 .. Len(s) : Right(s, els, 1, a, M[1][a].end)
  <2>1. Solved(s, els, E)
    BY <1>1, <1>2, GmEndsAre
  <2>2. 1 \in 1 .. Len(els) + 1 /\ \A a \in 0 .. Len(s) : E[1][a] = M[1][a].end
    BY <1>1
  <2> HIDE DEF E
  <2>3. \A a \in 0 .. Len(s) : Right(s, els, 1, a, E[1][a])
    BY <1>1, <2>1, <2>2, SolvedIsRight
  <2> QED  BY <2>2, <2>3
<1>4. DOMAIN ends = Pattern!Starts(s, p, from) /\ \A i \in 0 .. Len(s) : i \in DOMAIN ends => Right(s, els, 1, i, ends[i])
  BY <1>2, <1>3
<1>5. \/ f = Pattern!NoMatch /\ found = Pattern!None
      \/ f \in from .. Len(s) /\ ends[f] \in f .. Len(s) /\ found = [mstart |-> f, mend |-> ends[f], caps |-> c]
  BY GmFindIs DEF els
<1> HIDE DEF ends
<1>6. \/ f = Pattern!NoMatch /\ meant = Pattern!None
      \/ /\ f \in from .. Len(s) /\ ends[f] # Pattern!NoMatch
         /\ v \in Pattern!Readings(s, f, els)
         /\ meant = [mstart |-> f, mend |-> ends[f], caps |-> d]
  BY <1>1, <1>4, FirstStart DEF els
<1>7. f \in from .. Len(s) => f \in DOMAIN ends \/ f = Pattern!NoMatch
  <2>1. PICK hi \in from .. Len(s) : Pattern!Starts(s, p, from) = from .. hi
    BY StartsAre
  <2>2. from \in Nat /\ hi \in Int /\ DOMAIN ends = from .. hi
    BY <1>4, <2>1
  <2> QED  BY <2>2, FirstIs
<1> HIDE DEF f, v
<1>8. CASE f = Pattern!NoMatch
  <2>1. f \notin from .. Len(s)
    BY <1>8 DEF Pattern!NoMatch
  <2>2. found = meant
    BY <1>5, <1>6, <2>1
  <2> HIDE DEF found, meant
  <2> QED  BY <2>2 DEF found, meant
<1>9. CASE f # Pattern!NoMatch
  <2>1. f \in 0 .. Len(s) /\ f \in DOMAIN ends
    BY <1>5, <1>7, <1>9
  <2>2. found = [mstart |-> f, mend |-> ends[f], caps |-> c] /\ meant = [mstart |-> f, mend |-> ends[f], caps |-> d]
    BY <1>5, <1>6, <1>9
  <2>3. Pattern!Span(found) = Pattern!Span(meant)
    <3> HIDE DEF found, meant, c, d
    <3> QED  BY <2>2 DEF Pattern!Span
  <2>4. ASSUME Pattern!NoRetry(p) PROVE found = meant
    <3>1. Pattern!GmMatch(s, f, els) = M[1][f] /\ ends[f] = M[1][f].end
      BY <1>2, <2>1 DEF ends
    <3>2. M[1][f].end # Pattern!NoMatch /\ v \in Pattern!Readings(s, f, els)
      BY <1>6, <1>9, <3>1
    <3>3. M[1][f].caps = Pattern!Captured(els, v)
      BY <1>1, <1>2, <2>1, <2>4, <3>2, CapsAre
    <3> HIDE DEF found, meant
    <3> QED  BY <2>2, <3>1, <3>3
  <2> QED  BY <2>3, <2>4
<1> QED  BY <1>8, <1>9

(* So both matchers find the match the pattern means, for every subject,   *)
(* pattern and offset.                                                     *)
FindsAt(s, p, from) ==
    LET meant == Pattern!Meant(s, p, from)
        found == Pattern!GmFind(s, p, from)
    IN
    /\ Pattern!NoGroups(p) => Pattern!Span(Pattern!StringFind(s, p, from)) = Pattern!Span(meant)
    /\ Pattern!FixedGroups(p) => Pattern!Span(found) = Pattern!Span(meant)
    /\ Pattern!FixedGroups(p) /\ Pattern!NoRetry(p) =>
            /\ found.caps = meant.caps
            /\ Pattern!StringMatch(s, p, from) = IF meant = Pattern!None THEN <<>> ELSE Pattern!Given(s, meant)

LEMMA FindsIs ==
    ASSUME NEW s \in Seq(Char), NEW p, Pattern!IsPattern(p), NEW from \in 0 .. Len(s)
    PROVE  FindsAt(s, p, from)
<1>1. Pattern!NoGroups(p) =>
        Pattern!Span(Pattern!StringFind(s, p, from)) = Pattern!Span(Pattern!Meant(s, p, from))
  BY FindIs
<1>2. Pattern!FixedGroups(p) => /\ Pattern!Span(Pattern!GmFind(s, p, from)) = Pattern!Span(Pattern!Meant(s, p, from))
                                /\ Pattern!NoRetry(p) => Pattern!GmFind(s, p, from) = Pattern!Meant(s, p, from)
  BY GmFindMeant
<1> QED  BY <1>1, <1>2 DEF FindsAt, Pattern!StringMatch

-----------------------------------------------------------------------------
(* Past the end of the subject *)

(* There nothing is taken: at most no repetition is tried. *)
LEMMA PastCounts ==
    ASSUME NEW s \in Seq(Char), NEW a \in Nat, a > Len(s), NEW e, e.q \in Quantifier
    PROVE  \E n \in {0, 1} : /\ DOMAIN Pattern!Counts(s, a, e) = 1 .. n
                             /\ \A i \in 1 .. n : Pattern!Counts(s, a, e)[i] = 0
<1> DEFINE run == Pattern!Run(s, a, e)
           c == Pattern!Counts(s, a, e)
           Is(n) == /\ \A k \in 0 .. n - 1 : Pattern!MatchItem(s, a + k, e)
                    /\ ~Pattern!MatchItem(s, a + n, e)
<1>1. Len(s) \in Nat
  OBVIOUS
<1>2. \A k \in Nat : ~Pattern!MatchItem(s, a + k, e)
  BY <1>1 DEF Pattern!MatchItem
<1>3. run = 0
  <2>1. run = CHOOSE n \in 0 .. Len(s) : Is(n)
    BY DEF Pattern!Run
  <2>2. 0 \in 0 .. Len(s) /\ Is(0)
    BY <1>1, <1>2
  <2>3. \A n \in 0 .. Len(s) : Is(n) => n = 0
    <3>1. ASSUME NEW n \in 0 .. Len(s), Is(n), n # 0 PROVE FALSE
      <4>1. 0 \in 0 .. n - 1 /\ 0 \in Nat
        BY <3>1
      <4> QED  BY <1>2, <3>1, <4>1
    <3> QED  BY <3>1
  <2> HIDE DEF Is, run
  <2> QED  BY <2>1, <2>2, <2>3
<1> HIDE DEF run
<1>4. CASE e.q \notin {"*", "+", "-"}
  <2>1. c = <<0>> \/ c = <<>>
    BY <1>3, <1>4 DEF Pattern!Counts, run
  <2> QED  BY <2>1
<1>5. CASE e.q \in {"*", "-"}
  <2>1. c = [k \in 1 .. 1 |-> 1 - k] \/ c = [k \in 1 .. 1 |-> k - 1]
    BY <1>3, <1>5 DEF Pattern!Counts, run
  <2>2. DOMAIN c = 1 .. 1 /\ \A i \in 1 .. 1 : c[i] = 0
    BY <2>1
  <2> QED  BY <2>2
<1>6. CASE e.q = "+"
  <2>1. c = [k \in 1 .. 0 |-> 1 - k]
    BY <1>3, <1>6 DEF Pattern!Counts, run
  <2>2. DOMAIN c = 1 .. 0
    BY <2>1
  <2> QED  BY <2>2
<1> QED  BY <1>4, <1>5, <1>6

PastHere(s, a, e, rest) ==
    [x \in {a} |->
        IF e.k = "end" THEN IF x = Len(s) THEN x ELSE Pattern!NoMatch
        ELSE LET counts == Pattern!Counts(s, x, e) IN
             Pattern!FirstEnd([n \in DOMAIN counts |-> rest[x + counts[n]]])]
PastRow(a) == [{a} -> {Pattern!NoMatch, a}]

LEMMA PastHereIs ==
    ASSUME NEW s \in Seq(Char), NEW a \in Nat, a > Len(s), NEW e, e.q \in Quantifier, NEW rest \in PastRow(a)
    PROVE  PastHere(s, a, e, rest) \in PastRow(a)
<1> DEFINE r == PastHere(s, a, e, rest)
           c == Pattern!Counts(s, a, e)
           ends == [n \in DOMAIN c |-> rest[a + c[n]]]
<1>1. r[a] = IF e.k = "end" THEN IF a = Len(s) THEN a ELSE Pattern!NoMatch ELSE Pattern!FirstEnd(ends)
  BY DEF PastHere
<1>2. PICK n \in {0, 1} : DOMAIN c = 1 .. n /\ \A i \in 1 .. n : c[i] = 0
  BY PastCounts
<1> HIDE DEF c
<1>3. DOMAIN ends = 1 .. n /\ \A i \in 1 .. n : ends[i] = rest[a]
  <2>1. a + 0 = a
    OBVIOUS
  <2> QED  BY <1>2, <2>1
<1>4. rest[a] \in {Pattern!NoMatch, a} /\ n \in Nat
  BY DEF PastRow
<1> HIDE DEF ends
<1>5. Pattern!FirstEnd(ends) \in {Pattern!NoMatch, a}
  BY <1>3, <1>4, FirstEndIs
<1>6. r[a] \in {Pattern!NoMatch, a}
  BY <1>1, <1>5
<1>7. DOMAIN r = {a} /\ r = [x \in {a} |-> r[x]]
  BY DEF PastHere
<1> HIDE DEF r
<1> QED  BY <1>6, <1>7 DEF PastRow, r

(* match_here finds at most what is empty there, *)
LEMMA PastEnd ==
    ASSUME NEW s \in Seq(Char), NEW a \in Nat, a > Len(s), NEW els, Findable(els)
    PROVE  Pattern!MatchHere(s, a, els) \in {Pattern!NoMatch, a}
<1> DEFINE n == Len(els)
           D == PastRow(a)
           b == [x \in {a} |-> x]
           Line(E, k) == IF k > n THEN b ELSE PastHere(s, a, els[k], E[k + 1])
           Is(E) == E = [k \in 1 .. n + 1 |-> Line(E, k)]
           M == CHOOSE E : Is(E)
<1>1. n \in Nat /\ Len(s) \in Nat
  BY DEF Findable
<1>2. b \in D
  BY DEF PastRow
<1>3. Pattern!MatchHere(s, a, els) = M[1][a]
  <2> DEFINE F(E) == E = [k \in 1 .. Len(els) + 1 |-> [x \in Pattern!Offsets(s, a) |->
            IF k > Len(els) THEN x
            ELSE IF els[k].k = "end" THEN IF x = Len(s) THEN x ELSE Pattern!NoMatch
            ELSE LET counts == Pattern!Counts(s, x, els[k]) IN
                 Pattern!FirstEnd([i \in DOMAIN counts |-> E[k + 1][x + counts[i]]])]]
  <2>0. Pattern!Offsets(s, a) = {a}
    BY <1>1 DEF Pattern!Offsets
  <2>1. Pattern!MatchHere(s, a, els) = (CHOOSE E : F(E))[1][a]
    BY Zenon DEF Pattern!MatchHere
  <2>2. ASSUME NEW E, NEW k \in 1 .. n + 1
        PROVE  [x \in Pattern!Offsets(s, a) |->
            IF k > Len(els) THEN x
            ELSE IF els[k].k = "end" THEN IF x = Len(s) THEN x ELSE Pattern!NoMatch
            ELSE LET counts == Pattern!Counts(s, x, els[k]) IN
                 Pattern!FirstEnd([i \in DOMAIN counts |-> E[k + 1][x + counts[i]]])] = Line(E, k)
    <3>1. CASE k > n
      BY <2>0, <3>1
    <3>2. CASE ~(k > n)
      BY <2>0, <3>2 DEF PastHere
    <3> QED  BY <3>1, <3>2
  <2>3. \A E : F(E) <=> Is(E)
    <3> HIDE DEF Line
    <3> QED  BY <2>2, Zenon
  <2> HIDE DEF F, Is
  <2>4. (CHOOSE E : F(E)) = (CHOOSE E : Is(E))
    BY <2>3
  <2> QED  BY <2>1, <2>4
<1> DEFINE steps == [k \in 1 .. n |-> [rest \in D |-> PastHere(s, a, els[k], rest)]]
<1>4. \A k \in 1 .. n : \A rest \in D : PastHere(s, a, els[k], rest) \in D
  BY PastHereIs DEF Findable
<1> HIDE DEF D, b
<1>5. \E E : Is(E)
  <2>1. steps \in StepsOf(n, D)
    BY <1>4 DEF StepsOf
  <2>2. \A k \in 1 .. n : \A rest \in D : steps[k][rest] = PastHere(s, a, els[k], rest)
    OBVIOUS
  <2>3. \E f : GoesDown(f, n, D, b, steps)
    <3>1. n \in Nat /\ b \in D
      BY <1>1, <1>2
    <3> HIDE DEF n, steps
    <3> QED  BY <2>1, <3>1, StepsDown
  <2> HIDE DEF steps
  <2>4. PICK f : f \in [1 .. n + 1 -> D] /\ f[n + 1] = b /\ \A k \in 1 .. n : f[k] = steps[k][f[k + 1]]
    BY <2>3 DEF GoesDown
  <2>5. ASSUME NEW k \in 1 .. n + 1 PROVE f[k] = Line(f, k)
    <3>1. CASE k = n + 1
      BY <1>1, <2>4, <3>1
    <3>2. CASE k # n + 1
      <4>1. k \in 1 .. n /\ k + 1 \in 1 .. n + 1 /\ ~(k > n)
        BY <1>1, <3>2
      <4>2. f[k + 1] \in D
        BY <2>4, <4>1
      <4> QED  BY <2>2, <2>4, <4>1, <4>2
    <3> QED  BY <3>1, <3>2
  <2> HIDE DEF Line
  <2>6. Is(f)
    BY <2>4, <2>5
  <2> QED  BY <2>6
<1>6. M[n + 1] = b /\ \A k \in 1 .. n : M[k] = PastHere(s, a, els[k], M[k + 1])
  <2>1. Is(M)
    <3> HIDE DEF Is
    <3> QED  BY <1>5
  <2> HIDE DEF M
  <2>2. n + 1 \in 1 .. n + 1 /\ n + 1 > n /\ \A k \in 1 .. n : k \in 1 .. n + 1 /\ ~(k > n)
    BY <1>1
  <2>3. \A k \in 1 .. n + 1 : M[k] = Line(M, k)
    BY <2>1
  <2> QED  BY <2>2, <2>3
<1> HIDE DEF M
<1>7. \A k \in 1 .. n + 1 : M[k] \in D
  <2> DEFINE G == {k \in 1 .. n + 1 : M[k] \in D}
  <2>1. n + 1 \in G
    BY <1>1, <1>2, <1>6
  <2>2. ASSUME NEW k \in 1 .. n, k + 1 \in G PROVE k \in G
    BY <1>1, <1>4, <1>6, <2>2
  <2> HIDE DEF G
  <2>3. \A k \in 1 .. n + 1 : k \in G
    BY <1>1, <2>1, <2>2, Down
  <2> QED  BY <2>3 DEF G
<1>8. 1 \in 1 .. n + 1 /\ M[1] \in D
  BY <1>1, <1>7
<1> QED  BY <1>3, <1>8 DEF D, PastRow

PastGmHere(s, a, e, rest) ==
    [x \in {a} |->
        IF e.k = "end" THEN [end |-> IF x = Len(s) THEN x ELSE Pattern!NoMatch, caps |-> <<>>]
        ELSE IF e.k = "group" THEN
            LET end == Pattern!MatchHere(s, x, e.inner) IN
            IF end = Pattern!NoMatch THEN [end |-> Pattern!NoMatch, caps |-> <<>>]
            ELSE [end |-> rest[end].end, caps |-> <<<<x, end>>>> \o rest[end].caps]
        ELSE LET counts == Pattern!Counts(s, x, e) IN
             Pattern!Tried([n \in DOMAIN counts |-> rest[x + counts[n]]])]
PastGm(a) == [end : {Pattern!NoMatch, a}, caps : Seq({<<a, a>>})]

LEMMA PastGmHereIs ==
    ASSUME NEW s \in Seq(Char), NEW a \in Nat, a > Len(s), NEW e, e.q \in Quantifier, Findable(e.inner),
           NEW rest \in [{a} -> PastGm(a)]
    PROVE  PastGmHere(s, a, e, rest) \in [{a} -> PastGm(a)]
<1> DEFINE r == PastGmHere(s, a, e, rest)
           h == Pattern!MatchHere(s, a, e.inner)
           c == Pattern!Counts(s, a, e)
           rs == [n \in DOMAIN c |-> rest[a + c[n]]]
<1>1. /\ e.k = "end" => r[a] = [end |-> IF a = Len(s) THEN a ELSE Pattern!NoMatch, caps |-> <<>>]
      /\ e.k = "group" => r[a] = IF h = Pattern!NoMatch THEN [end |-> Pattern!NoMatch, caps |-> <<>>]
                                 ELSE [end |-> rest[h].end, caps |-> <<<<a, h>>>> \o rest[h].caps]
      /\ e.k \notin {"end", "group"} => r[a] = Pattern!Tried(rs)
  BY DEF PastGmHere
<1>0. DOMAIN r = {a} /\ r = [x \in {a} |-> r[x]]
  BY DEF PastGmHere
<1> HIDE DEF r
<1>2. /\ rest[a].end \in {Pattern!NoMatch, a} /\ rest[a].caps \in Seq({<<a, a>>})
      /\ <<>> \in Seq({<<a, a>>}) /\ <<<<a, a>>>> \in Seq({<<a, a>>})
  BY DEF PastGm
<1>3. ASSUME e.k = "end" PROVE r[a] \in PastGm(a)
  <2>1. PICK x \in {Pattern!NoMatch, a} : r[a] = [end |-> x, caps |-> <<>>]
    BY <1>1, <1>3
  <2> QED  BY <1>2, <2>1 DEF PastGm
<1>4. ASSUME e.k = "group" PROVE r[a] \in PastGm(a)
  <2>1. h \in {Pattern!NoMatch, a}
    BY PastEnd
  <2>2. <<<<a, a>>>> \o rest[a].caps \in Seq({<<a, a>>})
    BY <1>2
  <2> HIDE DEF h
  <2>3. CASE h = Pattern!NoMatch
    <3>1. r[a] = [end |-> Pattern!NoMatch, caps |-> <<>>]
      BY <1>1, <1>4, <2>3
    <3> QED  BY <1>2, <3>1 DEF PastGm
  <2>4. CASE h # Pattern!NoMatch
    <3>1. r[a] = [end |-> rest[a].end, caps |-> <<<<a, a>>>> \o rest[a].caps]
      BY <1>1, <1>4, <2>1, <2>4
    <3> QED  BY <1>2, <2>2, <3>1 DEF PastGm
  <2> QED  BY <2>3, <2>4
<1>5. ASSUME e.k \notin {"end", "group"} PROVE r[a] \in PastGm(a)
  <2>1. PICK n \in {0, 1} : DOMAIN c = 1 .. n /\ \A i \in 1 .. n : c[i] = 0
    BY PastCounts
  <2> HIDE DEF c
  <2>2. DOMAIN rs = 1 .. n /\ \A i \in 1 .. n : rs[i] = rest[a]
    <3>1. a + 0 = a
      OBVIOUS
    <3> QED  BY <2>1, <3>1
  <2> HIDE DEF rs
  <2>3. n \in Nat /\ \A i \in 1 .. n : rs[i].caps \in Seq({<<a, a>>}) /\ rs[i].end \in {Pattern!NoMatch, a}
    BY <1>2, <2>2
  <2> DEFINE ends == [m \in 1 .. n |-> rs[m].end]
             u == Pattern!Tried(rs)
  <2>4. u.end = Pattern!FirstEnd(ends) /\ u.caps \in Seq({<<a, a>>}) /\ u = [end |-> u.end, caps |-> u.caps]
    <3> DEFINE S == {<<a, a>>}
    <3>1. \A i \in 1 .. n : rs[i].caps \in Seq(S)
      BY <2>3
    <3> HIDE DEF S
    <3>2. n \in Nat /\ DOMAIN rs = 1 .. n
      BY <2>2, <2>3
    <3>3. u.end = Pattern!FirstEnd(ends) /\ u.caps \in Seq(S) /\ u = [end |-> u.end, caps |-> u.caps]
      BY <3>1, <3>2, TriedIs
    <3> QED  BY <3>3 DEF S
  <2>5. DOMAIN ends = 1 .. n /\ \A m \in 1 .. n : ends[m] \in {Pattern!NoMatch, a}
    BY <2>3
  <2> HIDE DEF ends, u
  <2>6. Pattern!FirstEnd(ends) \in {Pattern!NoMatch, a}
    BY <2>3, <2>5, FirstEndIs
  <2>7. u \in PastGm(a)
    BY <2>4, <2>6 DEF PastGm
  <2> QED  BY <1>1, <1>5, <2>7 DEF u
<1>6. r[a] \in PastGm(a)
  BY <1>3, <1>4, <1>5
<1>7. r \in [{a} -> PastGm(a)]
  BY <1>0, <1>6
<1> QED  BY <1>7 DEF r

(* and gm_match likewise. *)
LEMMA PastGmMatch ==
    ASSUME NEW s \in Seq(Char), NEW a \in Nat, a > Len(s), NEW els, Matchable(els)
    PROVE  Pattern!GmMatch(s, a, els).end \in {Pattern!NoMatch, a}
<1> DEFINE n == Len(els)
           D == [{a} -> PastGm(a)]
           b == [x \in {a} |-> [end |-> x, caps |-> <<>>]]
           Line(E, k) == IF k > n THEN b ELSE PastGmHere(s, a, els[k], E[k + 1])
           Is(E) == E = [k \in 1 .. n + 1 |-> Line(E, k)]
           M == CHOOSE E : Is(E)
<1>1. n \in Nat /\ Len(s) \in Nat
  BY DEF Matchable
<1>2. b \in D
  <2>1. <<>> \in Seq({<<a, a>>})
    OBVIOUS
  <2> QED  BY <2>1 DEF PastGm
<1>3. Pattern!GmMatch(s, a, els) = M[1][a]
  <2> DEFINE L(E, k, x) ==
                IF k > Len(els) THEN [end |-> x, caps |-> <<>>]
                ELSE IF els[k].k = "end"
                     THEN [end |-> IF x = Len(s) THEN x ELSE Pattern!NoMatch, caps |-> <<>>]
                ELSE IF els[k].k = "group" THEN
                    LET end == Pattern!MatchHere(s, x, els[k].inner) IN
                    IF end = Pattern!NoMatch THEN [end |-> Pattern!NoMatch, caps |-> <<>>]
                    ELSE [end |-> E[k + 1][end].end, caps |-> <<<<x, end>>>> \o E[k + 1][end].caps]
                ELSE LET counts == Pattern!Counts(s, x, els[k]) IN
                     Pattern!Tried([i \in DOMAIN counts |-> E[k + 1][x + counts[i]]])
             F(E) == E = [k \in 1 .. Len(els) + 1 |-> [x \in Pattern!Offsets(s, a) |-> L(E, k, x)]]
  <2>0. Pattern!Offsets(s, a) = {a}
    BY <1>1 DEF Pattern!Offsets
  <2>1. Pattern!GmMatch(s, a, els) = (CHOOSE E : F(E))[1][a]
    BY Zenon DEF Pattern!GmMatch
  <2>2. ASSUME NEW E, NEW k \in 1 .. n + 1 PROVE [x \in Pattern!Offsets(s, a) |-> L(E, k, x)] = Line(E, k)
    <3>1. CASE k > n
      BY <2>0, <3>1
    <3>2. CASE ~(k > n)
      BY <2>0, <3>2 DEF PastGmHere
    <3> QED  BY <3>1, <3>2
  <2>3. \A E : F(E) <=> Is(E)
    <3> HIDE DEF Line, L
    <3> QED  BY <2>2, Zenon
  <2> HIDE DEF F, Is
  <2>4. (CHOOSE E : F(E)) = (CHOOSE E : Is(E))
    BY <2>3
  <2> QED  BY <2>1, <2>4
<1> DEFINE steps == [k \in 1 .. n |-> [rest \in D |-> PastGmHere(s, a, els[k], rest)]]
<1>4. \A k \in 1 .. n : \A rest \in D : PastGmHere(s, a, els[k], rest) \in D
  BY PastGmHereIs DEF Matchable
<1> HIDE DEF D, b
<1>5. \E E : Is(E)
  <2>1. steps \in StepsOf(n, D)
    BY <1>4 DEF StepsOf
  <2>2. \A k \in 1 .. n : \A rest \in D : steps[k][rest] = PastGmHere(s, a, els[k], rest)
    OBVIOUS
  <2>3. \E f : GoesDown(f, n, D, b, steps)
    <3>1. n \in Nat /\ b \in D
      BY <1>1, <1>2
    <3> HIDE DEF n, steps
    <3> QED  BY <2>1, <3>1, StepsDown
  <2> HIDE DEF steps
  <2>4. PICK f : f \in [1 .. n + 1 -> D] /\ f[n + 1] = b /\ \A k \in 1 .. n : f[k] = steps[k][f[k + 1]]
    BY <2>3 DEF GoesDown
  <2>5. ASSUME NEW k \in 1 .. n + 1 PROVE f[k] = Line(f, k)
    <3>1. CASE k = n + 1
      BY <1>1, <2>4, <3>1
    <3>2. CASE k # n + 1
      <4>1. k \in 1 .. n /\ k + 1 \in 1 .. n + 1 /\ ~(k > n)
        BY <1>1, <3>2
      <4>2. f[k + 1] \in D
        BY <2>4, <4>1
      <4> QED  BY <2>2, <2>4, <4>1, <4>2
    <3> QED  BY <3>1, <3>2
  <2> HIDE DEF Line
  <2>6. Is(f)
    BY <2>4, <2>5
  <2> QED  BY <2>6
<1>6. M[n + 1] = b /\ \A k \in 1 .. n : M[k] = PastGmHere(s, a, els[k], M[k + 1])
  <2>1. Is(M)
    <3> HIDE DEF Is
    <3> QED  BY <1>5
  <2> HIDE DEF M
  <2>2. n + 1 \in 1 .. n + 1 /\ n + 1 > n /\ \A k \in 1 .. n : k \in 1 .. n + 1 /\ ~(k > n)
    BY <1>1
  <2>3. \A k \in 1 .. n + 1 : M[k] = Line(M, k)
    BY <2>1
  <2> QED  BY <2>2, <2>3
<1> HIDE DEF M
<1>7. \A k \in 1 .. n + 1 : M[k] \in D
  <2> DEFINE G == {k \in 1 .. n + 1 : M[k] \in D}
  <2>1. n + 1 \in G
    BY <1>1, <1>2, <1>6
  <2>2. ASSUME NEW k \in 1 .. n, k + 1 \in G PROVE k \in G
    BY <1>1, <1>4, <1>6, <2>2
  <2> HIDE DEF G
  <2>3. \A k \in 1 .. n + 1 : k \in G
    BY <1>1, <2>1, <2>2, Down
  <2> QED  BY <2>3 DEF G
<1>8. 1 \in 1 .. n + 1 /\ M[1] \in D
  BY <1>1, <1>7
<1> QED  BY <1>3, <1>8 DEF D, PastGm

(* So begun past the end, gm_find gives nothing or an empty match there. *)
LEMMA PastFind ==
    ASSUME NEW s \in Seq(Char), NEW p, Pattern!IsPattern(p), NEW from \in Nat, from > Len(s)
    PROVE  LET m == Pattern!GmFind(s, p, from) IN
           m = Pattern!None \/ (m # Pattern!None /\ m.mstart = from /\ m.mend = from)
<1> DEFINE g == Pattern!GmMatch(s, from, p.els)
           ms == [j \in from .. from |-> Pattern!GmMatch(s, j, p.els)]
           ends == [j \in from .. from |-> ms[j].end]
           f == Pattern!First(ends)
           m == Pattern!GmFind(s, p, from)
<1>1. Len(s) \in Nat
  OBVIOUS
<1>2. Pattern!Starts(s, p, from) = from .. from
  BY <1>1 DEF Pattern!Starts
<1>3. g.end \in {Pattern!NoMatch, from}
  BY PatternIs, PastGmMatch
<1>4. from \in from .. from /\ ms[from] = g /\ \A j \in from .. from : j = from
  OBVIOUS
<1>5. m = IF f = Pattern!NoMatch THEN Pattern!None
          ELSE [mstart |-> f, mend |-> ms[f].end, caps |-> Pattern!Kept(ms[f].caps)]
  <2>1. m = Pattern!Found(ms)
    BY <1>2 DEF Pattern!GmFind
  <2>2. [j \in DOMAIN ms |-> ms[j].end] = ends
    OBVIOUS
  <2> HIDE DEF m, ms, ends
  <2> QED  BY <2>1, <2>2 DEF Pattern!Found
<1>6. ends[from] = g.end /\ DOMAIN ends = from .. from
  BY <1>4
<1> HIDE DEF g, ms, ends, m
<1>7. f = Pattern!NoMatch \/ (f = from /\ ends[from] # Pattern!NoMatch)
  <2>1. \/ f = Pattern!NoMatch
        \/ f \in from .. from /\ ends[f] # Pattern!NoMatch
    BY <1>6, FirstIs
  <2> HIDE DEF f
  <2> QED  BY <1>4, <2>1
<1> HIDE DEF f
<1>8. CASE f = Pattern!NoMatch
  BY <1>5, <1>8 DEF m
<1>9. CASE f # Pattern!NoMatch
  <2>1. m.mstart = from /\ m.mend = from
    BY <1>3, <1>4, <1>5, <1>6, <1>7, <1>9
  <2>2. m # Pattern!None
    <3>1. Pattern!None.mstart = -1
      BY DEF Pattern!None, Pattern!NoMatch
    <3> QED  BY <2>1, <3>1
  <2> QED  BY <2>1, <2>2 DEF m
<1> QED  BY <1>8, <1>9

-----------------------------------------------------------------------------
(* The gmatch iterator *)

\* A match is one in the subject, and the next is looked for in it; an iterator
\* begun past the end stays where it was begun, and is done after an empty match.
PatternInv ==
    /\ subject \in Subjects /\ pattern \in Patterns /\ pos \in Nat
    /\ pos <= Len(subject) => last = Pattern!None \/ MatchFrom(subject, 0, last)
    /\ pos > Len(subject) => last = Pattern!None \/ (done /\ last.mstart = pos /\ last.mend = pos)

LEMMA PatternMoves ==
    [ShellNext]_shellVars => part' = part /\ (part = "pattern" => [Pattern!Next]_(Pattern!vars))
BY DEF ShellNext, shellVars, matcher, Pattern!vars

LEMMA PatternStarts == ShellInit => (part = "pattern" => Pattern!Init)
BY DEF ShellInit

(* The iterator's state: what is looked for, where and from which offset on. *)
LEMMA PatternGiven ==
    ASSUME PatternInv
    PROVE  subject \in Seq(Char) /\ Pattern!IsPattern(pattern) /\ Len(subject) \in Nat
BY PatternAssumption DEF PatternInv

(* Behind a match the subject goes on further on, or it has ended. *)
LEMMA NextPosIs ==
    ASSUME NEW s \in Seq(Char), NEW from \in 0 .. Len(s), NEW m, MatchFrom(s, from, m)
    PROVE  /\ Pattern!NextPos(m) \in from + 1 .. Len(s) + 1
           /\ Pattern!NextPos(m) > m.mstart /\ Pattern!NextPos(m) >= m.mend
BY DEF MatchFrom, Pattern!NextPos

LEMMA AdvanceIs ==
    ASSUME PatternInv, Pattern!Advance
    PROVE  PatternInv' /\ Pattern!MovesOn
<1> DEFINE m == Pattern!GmFind(subject, pattern, pos)
<1>1. subject \in Seq(Char) /\ Pattern!IsPattern(pattern) /\ Len(subject) \in Nat /\ pos \in Nat
  BY PatternGiven DEF PatternInv
<1>2. /\ pos <= Len(subject) => m = Pattern!None \/ (m # Pattern!None /\ MatchFrom(subject, pos, m))
      /\ pos > Len(subject) => m = Pattern!None \/ (m # Pattern!None /\ m.mstart = pos /\ m.mend = pos)
  <2>1. pos <= Len(subject) => pos \in 0 .. Len(subject)
    BY <1>1
  <2> QED  BY <1>1, <2>1, GmFindFrom, PastFind
<1>3. last' = m /\ subject' = subject /\ pattern' = pattern
  BY DEF Pattern!Advance
<1>4. IF m = Pattern!None THEN done' = TRUE /\ pos' = pos
      ELSE IF Pattern!NextPos(m) > Len(subject) THEN done' = TRUE /\ pos' = pos
      ELSE pos' = Pattern!NextPos(m)
  BY <1>3 DEF Pattern!Advance
<1> HIDE DEF m
<1>5. CASE m = Pattern!None
  BY <1>3, <1>4, <1>5 DEF PatternInv, Pattern!MovesOn
<1>6. CASE m # Pattern!None /\ pos <= Len(subject)
  <2>0. MatchFrom(subject, pos, m) /\ pos \in 0 .. Len(subject)
    BY <1>1, <1>2, <1>6
  <2>1. /\ Pattern!NextPos(m) \in pos + 1 .. Len(subject) + 1
        /\ Pattern!NextPos(m) > m.mstart /\ Pattern!NextPos(m) >= m.mend
    BY <1>1, <2>0, NextPosIs
  <2>2. m.mstart >= pos /\ MatchFrom(subject, 0, m)
    BY <1>1, <2>0 DEF MatchFrom
  <2>3. pos' \in Nat /\ pos' <= Len(subject)
    BY <1>1, <1>4, <1>6, <2>1
  <2>4. done' \/ (pos' > m.mstart /\ pos' >= m.mend)
    BY <1>4, <1>6, <2>1
  <2>5. m.mend <= Len(subject)
    BY <1>1, <2>0 DEF MatchFrom
  <2> QED  BY <1>1, <1>3, <2>2, <2>3, <2>4, <2>5 DEF PatternInv, Pattern!MovesOn
<1>7. CASE m # Pattern!None /\ pos > Len(subject)
  <2>1. m.mstart = pos /\ m.mend = pos
    BY <1>2, <1>7
  <2>2. Pattern!NextPos(m) = pos + 1
    BY <1>1, <2>1 DEF Pattern!NextPos
  <2>3. done' = TRUE /\ pos' = pos
    BY <1>1, <1>4, <1>7, <2>2
  <2> QED  BY <1>1, <1>3, <1>7, <2>1, <2>3 DEF PatternInv, Pattern!MovesOn
<1> QED  BY <1>1, <1>5, <1>6, <1>7

LEMMA PatternStart == Pattern!Init => PatternInv
<1> SUFFICES ASSUME Pattern!Init PROVE PatternInv
  OBVIOUS
<1>1. subject \in Subjects /\ pattern \in Patterns /\ last = Pattern!None
  BY DEF Pattern!Init
<1>2. PICK init \in Inits : pos = Pattern!Start(subject, init)
  BY DEF Pattern!Init
<1>3. Len(subject) \in Nat /\ init \in Int
  BY <1>1, PatternAssumption
<1>4. pos \in Nat
  BY <1>2, <1>3 DEF Pattern!Start
<1> QED  BY <1>1, <1>4 DEF PatternInv

LEMMA PatternStep == PatternInv /\ [Pattern!Next]_(Pattern!vars) => PatternInv'
<1>1. ASSUME PatternInv, Pattern!Next PROVE PatternInv'
  BY <1>1, AdvanceIs DEF Pattern!Next
<1>2. ASSUME PatternInv, UNCHANGED Pattern!vars PROVE PatternInv'
  BY <1>2 DEF PatternInv, Pattern!vars
<1> QED  BY <1>1, <1>2

(* Begun in the subject, at its end included, the iterator never leaves it: *)
(* every match is one in the subject.  Begun past its end, where `init' is  *)
(* not checked, it matches what is empty there, at most once, and is done   *)
(* (eval.rs, string.gmatch and gmatch_advance): for every subject, every    *)
(* pattern and every `init'.                                                *)
THEOREM GmatchStaysInside == ShellSpec => [](part = "pattern" => PatternInv)
<1>1. ShellInit => (part = "pattern" => PatternInv)
  BY PatternStarts, PatternStart
<1>2. (part = "pattern" => PatternInv) /\ [ShellNext]_shellVars => (part = "pattern" => PatternInv)'
  BY PatternStep, PatternMoves
<1> QED  BY <1>1, <1>2, PTL DEF ShellSpec

(* It always moves on: each round starts behind the last match, an empty    *)
(* one included, so that gmatch ends, and in the subject its matches stay   *)
(* there (eval.rs, gmatch_advance and gm_find):                             *)
(* for every subject and every pattern, the ones with groups that match in  *)
(* several ways included.                                                   *)
THEOREM GmatchAlwaysMovesOn == ShellSpec => GmatchMovesOn
<1>1. (part = "pattern" => PatternInv) /\ [ShellNext]_shellVars => [part = "pattern" => Pattern!MovesOn]_shellVars
  <2> SUFFICES ASSUME part = "pattern", PatternInv, [ShellNext]_shellVars
               PROVE  Pattern!MovesOn \/ UNCHANGED shellVars
    OBVIOUS
  <2>1. CASE ShellNext
    <3>1. Pattern!Advance
      BY <2>1 DEF ShellNext, Pattern!Next
    <3> QED  BY <3>1, AdvanceIs
  <2>2. CASE UNCHANGED shellVars
    BY <2>2
  <2> QED  BY <2>1, <2>2
<1> QED  BY <1>1, GmatchStaysInside, PTL DEF ShellSpec, GmatchMovesOn

(* Both matchers find the match that the pattern means: the leftmost one,  *)
(* with what greedy and lazy items prefer, backtracking included, the      *)
(* capturing one where groups match in one way only, and with the groups'  *)
(* spans where no quantified item precedes a group (eval.rs, match_here    *)
(* and gm_match): for every subject, every pattern and every place in the  *)
(* subject where the search begins.                                        *)
THEOREM MatchersFindTheMatch == ShellSpec => []FindsTheMatch
<1>1. ASSUME PatternInv PROVE Pattern!FindsTheMatch
  <2>1. pos <= Len(subject) => FindsAt(subject, pattern, pos)
    <3>1. subject \in Seq(Char) /\ Pattern!IsPattern(pattern) /\ pos \in Nat /\ Len(subject) \in Nat
      BY <1>1, PatternGiven DEF PatternInv
    <3>2. pos <= Len(subject) => pos \in 0 .. Len(subject)
      BY <3>1
    <3> QED  BY <3>1, <3>2, FindsIs
  <2> QED  BY <2>1 DEF FindsAt, Pattern!FindsTheMatch
<1>2. (part = "pattern" => PatternInv) => FindsTheMatch
  BY <1>1 DEF FindsTheMatch
<1> QED  BY <1>2, GmatchStaysInside, PTL

-----------------------------------------------------------------------------
(* What is left of a subject: the characters at the places C of it, in     *)
(* order.                                                                  *)

IsLeft(s, C, R) ==
    /\ R \in [0 .. Len(s) -> Seq(Char)] /\ R[0] = <<>>
    /\ \A x \in 1 .. Len(s) : R[x] = IF x \in C THEN Append(R[x - 1], s[x]) ELSE R[x - 1]
Left(s, C) == CHOOSE R : IsLeft(s, C, R)

LEMMA LeftIs ==
    ASSUME NEW s \in Seq(Char), NEW C
    PROVE  IsLeft(s, C, Left(s, C))
<1> DEFINE D == Seq(Char)
           b == <<>>
           steps == [x \in 1 .. Len(s) |-> [q \in D |-> IF x \in C THEN Append(q, s[x]) ELSE q]]
<1>1. Len(s) \in Nat /\ b \in D
  OBVIOUS
<1>2. \A x \in 1 .. Len(s) : \A q \in D : steps[x][q] = IF x \in C THEN Append(q, s[x]) ELSE q
  OBVIOUS
<1>3. steps \in StepsOf(Len(s), D)
  <2>1. ASSUME NEW x \in 1 .. Len(s), NEW q \in D PROVE Append(q, s[x]) \in D
    BY <1>1
  <2> QED  BY <2>1 DEF StepsOf
<1> HIDE DEF D, b, steps
<1>4. PICK f : GoesUp(f, Len(s), D, b, steps)
  BY <1>1, <1>3, StepsUp
<1>5. f \in [0 .. Len(s) -> D] /\ f[0] = b /\ \A x \in 1 .. Len(s) : f[x] = steps[x][f[x - 1]]
  BY <1>4 DEF GoesUp
<1>6. \A x \in 1 .. Len(s) : f[x] = IF x \in C THEN Append(f[x - 1], s[x]) ELSE f[x - 1]
  <2>1. ASSUME NEW x \in 1 .. Len(s)
        PROVE f[x] = IF x \in C THEN Append(f[x - 1], s[x]) ELSE f[x - 1]
    <3>1. x - 1 \in 0 .. Len(s)
      BY <1>1
    <3>2. f[x - 1] \in D
      BY <1>5, <3>1
    <3> QED  BY <1>2, <1>5, <3>2
  <2> QED  BY <2>1
<1>7. IsLeft(s, C, f)
  BY <1>5, <1>6 DEF IsLeft, D, b
<1> QED  BY <1>7 DEF Left

LEMMA LeftSteps ==
    ASSUME NEW s \in Seq(Char), NEW C
    PROVE  /\ Left(s, C)[0] = <<>>
           /\ \A x \in 0 .. Len(s) : Left(s, C)[x] \in Seq(Char)
           /\ \A x \in 1 .. Len(s) :
                 Left(s, C)[x] = IF x \in C THEN Append(Left(s, C)[x - 1], s[x]) ELSE Left(s, C)[x - 1]
BY LeftIs DEF IsLeft

(* Only the places so far matter. *)
LEMMA LeftSame ==
    ASSUME NEW s \in Seq(Char), NEW C, NEW R, IsLeft(s, C, R), NEW B, NEW a \in 0 .. Len(s),
           \A x \in 1 .. a : x \in B <=> x \in C
    PROVE  Left(s, B)[a] = R[a]
<1> DEFINE L == Left(s, B)
           G == {x \in 0 .. a : L[x] = R[x]}
<1>1. a \in Nat /\ \A x \in 1 .. a : x \in 1 .. Len(s)
  OBVIOUS
<1>2. 0 \in G
  <2>1. L[0] = R[0]
    BY LeftSteps DEF IsLeft
  <2> QED  BY <1>1, <2>1
<1>3. ASSUME NEW x \in 1 .. a, x - 1 \in G PROVE x \in G
  <2>1. L[x - 1] = R[x - 1] /\ x \in 1 .. Len(s) /\ x \in 0 .. a
    BY <1>1, <1>3
  <2>2. L[x] = IF x \in B THEN Append(L[x - 1], s[x]) ELSE L[x - 1]
    BY <2>1, LeftSteps
  <2>3. R[x] = IF x \in C THEN Append(R[x - 1], s[x]) ELSE R[x - 1]
    BY <2>1 DEF IsLeft
  <2> HIDE DEF L
  <2> QED  BY <2>1, <2>2, <2>3
<1> HIDE DEF G
<1>4. \A x \in 0 .. a : x \in G
  BY <1>1, <1>2, <1>3, Up
<1>5. a \in 0 .. a
  BY <1>1
<1> QED  BY <1>4, <1>5 DEF G

LEMMA Together ==
    ASSUME NEW x \in Seq(Char), NEW y \in Seq(Char), NEW z \in Seq(Char)
    PROVE  (x \o y) \o z = x \o (y \o z)
BY ConcatAssociative

(* A stretch of places adds its text, *)
LEMMA LeftAll ==
    ASSUME NEW s \in Seq(Char), NEW C, NEW a \in 0 .. Len(s), NEW b \in a .. Len(s), a + 1 .. b \subseteq C
    PROVE  Left(s, C)[b] = Left(s, C)[a] \o SubSeq(s, a + 1, b)
<1> DEFINE L == Left(s, C)
           n == b - a
           G == {x \in 0 .. n : L[a + x] = L[a] \o SubSeq(s, a + 1, a + x)}
<1>1. Len(s) \in Nat /\ a \in Nat /\ n \in Nat /\ a + n = b
  OBVIOUS
<1>2. L[a] \in Seq(Char)
  BY LeftSteps
<1>3. \A x \in 1 .. Len(s) : x \in C => L[x] = Append(L[x - 1], s[x])
  BY LeftSteps
<1> HIDE DEF L
<1>4. 0 \in G
  <2>1. SubSeq(s, a + 1, a) = <<>>
    <3>1. a + 1 \in Int /\ a \in Int /\ a < a + 1
      BY <1>1
    <3> QED  BY <3>1, SubSeqEmpty
  <2>2. L[a] \o <<>> = L[a]
    BY <1>2, ConcatEmptySeq
  <2>3. a + 0 = a /\ 0 \in 0 .. n
    BY <1>1
  <2> QED  BY <2>1, <2>2, <2>3
<1> HIDE DEF n
<1>5. ASSUME NEW x \in 1 .. n, x - 1 \in G PROVE x \in G
  <2> DEFINE y == a + x
  <2>1. /\ y \in a + 1 .. b /\ y \in 1 .. Len(s) /\ a + (x - 1) = y - 1 /\ x \in 0 .. n
        /\ a + 1 \in 1 .. Len(s) /\ y \in a + 1 .. Len(s)
    BY <1>1
  <2>2. L[y - 1] = L[a] \o SubSeq(s, a + 1, y - 1)
    BY <1>5, <2>1
  <2> HIDE DEF y
  <2>3. L[y] = Append(L[y - 1], s[y]) /\ s[y] \in Char
    BY <1>3, <2>1
  <2>4. SubSeq(s, a + 1, y - 1) \in Seq(Char)
    <3>1. \A i \in a + 1 .. y - 1 : s[i] \in Char
      BY <1>1, <2>1
    <3>2. a + 1 \in Int /\ y - 1 \in Int
      BY <1>1, <2>1
    <3> QED  BY <3>1, <3>2, SubSeqProperties
  <2> DEFINE u == SubSeq(s, a + 1, y - 1)
  <2>5. SubSeq(s, a + 1, y) = u \o <<s[y]>>
    BY <2>1, SubSeqRecursiveSecond
  <2> HIDE DEF u
  <2>6. u \in Seq(Char) /\ L[a] \o u \in Seq(Char) /\ <<s[y]>> \in Seq(Char)
    BY <1>2, <2>3, <2>4 DEF u
  <2>7. L[y] = (L[a] \o u) \o <<s[y]>>
    BY <2>2, <2>3, <2>6, AppendIsConcat DEF u
  <2>8. L[y] = L[a] \o SubSeq(s, a + 1, y)
    <3> DEFINE w == <<s[y]>>
    <3>1. L[a] \in Seq(Char) /\ u \in Seq(Char) /\ w \in Seq(Char) /\ L[y] = (L[a] \o u) \o w
          /\ SubSeq(s, a + 1, y) = u \o w
      BY <1>2, <2>5, <2>6, <2>7
    <3> HIDE DEF w
    <3>2. (L[a] \o u) \o w = L[a] \o (u \o w)
      BY <3>1, Together
    <3> QED  BY <3>1, <3>2, Zenon
  <2> QED  BY <2>1, <2>8 DEF y
<1> HIDE DEF G
<1>6. \A x \in 0 .. n : x \in G
  BY <1>1, <1>4, <1>5, Up
<1>7. n \in 0 .. n
  BY <1>1
<1>8. L[a + n] = L[a] \o SubSeq(s, a + 1, a + n)
  BY <1>6, <1>7 DEF G
<1> QED  BY <1>1, <1>8 DEF L

(* and one without any adds nothing. *)
LEMMA LeftNone ==
    ASSUME NEW s \in Seq(Char), NEW C, NEW a \in 0 .. Len(s), NEW b \in a .. Len(s), \A x \in a + 1 .. b : x \notin C
    PROVE  Left(s, C)[b] = Left(s, C)[a]
<1> DEFINE L == Left(s, C)
           n == b - a
           G == {x \in 0 .. n : L[a + x] = L[a]}
<1>1. Len(s) \in Nat /\ a \in Nat /\ n \in Nat /\ a + n = b
  OBVIOUS
<1>2. \A x \in 1 .. Len(s) : x \notin C => L[x] = L[x - 1]
  BY LeftSteps
<1> HIDE DEF L, n
<1>3. 0 \in G
  BY <1>1
<1>4. ASSUME NEW x \in 1 .. n, x - 1 \in G PROVE x \in G
  <2>1. a + x \in a + 1 .. b /\ a + x \in 1 .. Len(s) /\ a + (x - 1) = (a + x) - 1 /\ x \in 0 .. n
    BY <1>1
  <2>2. L[a + x] = L[(a + x) - 1]
    BY <1>2, <2>1
  <2> QED  BY <1>4, <2>1, <2>2
<1> HIDE DEF G
<1>5. \A x \in 0 .. n : x \in G
  BY <1>1, <1>3, <1>4, Up
<1>6. n \in 0 .. n
  BY <1>1
<1>7. L[a + n] = L[a]
  BY <1>5, <1>6 DEF G
<1> QED  BY <1>1, <1>7 DEF L

(* All the places are the subject. *)
LEMMA LeftWhole == ASSUME NEW s \in Seq(Char) PROVE Left(s, 1 .. Len(s))[Len(s)] = s
<1> DEFINE C == 1 .. Len(s)
<1>1. Len(s) \in Nat /\ 0 \in 0 .. Len(s) /\ Len(s) \in 0 .. Len(s) /\ 0 + 1 .. Len(s) \subseteq C /\ 0 + 1 = 1
  OBVIOUS
<1>2. Left(s, C)[Len(s)] = Left(s, C)[0] \o SubSeq(s, 0 + 1, Len(s))
  <2> HIDE DEF C
  <2> QED  BY <1>1, LeftAll
<1>3. Left(s, C)[0] = <<>>
  BY LeftSteps
<1>4. SubSeq(s, 1, Len(s)) = s
  BY SubSeqFull
<1>5. <<>> \o s = s
  BY ConcatEmptySeq
<1> QED  BY <1>1, <1>2, <1>3, <1>4, <1>5

\* The places outside some matches.
Outside(s, ms) == {x \in 1 .. Len(s) : ~\E j \in DOMAIN ms : ms[j].mstart < x /\ x <= ms[j].mend}

LEMMA WithoutIs ==
    ASSUME NEW s \in Seq(Char), NEW ms
    PROVE  Pattern!Without(s, ms) = Left(s, Outside(s, ms))[Len(s)]
<1> DEFINE n == Len(s)
           In(x) == \E j \in DOMAIN ms : ms[j].mstart < x /\ x <= ms[j].mend
           Line(f, x) == IF x = 0 THEN <<>> ELSE IF In(x) THEN f[x - 1] ELSE Append(f[x - 1], s[x])
           Is(f) == f = [x \in 0 .. n |-> Line(f, x)]
           R == CHOOSE f : Is(f)
           C == Outside(s, ms)
           L == Left(s, C)
<1>1. Pattern!Without(s, ms) = R[n]
  BY Zenon DEF Pattern!Without
<1>2. n \in Nat /\ \A x \in 1 .. n : x \in C <=> ~In(x)
  BY DEF Outside
<1>3. IsLeft(s, C, L)
  BY LeftIs
<1> HIDE DEF C, L, In
<1>4. Is(L)
  <2>1. L \in [0 .. n -> Seq(Char)]
    BY <1>3 DEF IsLeft
  <2>2. ASSUME NEW x \in 0 .. n PROVE L[x] = Line(L, x)
    <3>1. CASE x = 0
      BY <1>3, <3>1 DEF IsLeft
    <3>2. CASE x # 0
      <4>1. x \in 1 .. n
        BY <1>2, <3>2
      <4>2. L[x] = IF x \in C THEN Append(L[x - 1], s[x]) ELSE L[x - 1]
        BY <1>3, <4>1 DEF IsLeft
      <4> QED  BY <1>2, <3>2, <4>1, <4>2
    <3> QED  BY <3>1, <3>2
  <2> HIDE DEF Line
  <2> QED  BY <2>1, <2>2
<1>5. Is(R)
  <2> HIDE DEF Is
  <2> QED  BY <1>4
<1>6. IsLeft(s, C, R)
  <2>1. \A x \in 0 .. n : R[x] = Line(R, x) /\ DOMAIN R = 0 .. n
    <3> HIDE DEF Line, R
    <3> QED  BY <1>5
  <2> HIDE DEF R
  <2> DEFINE G == {x \in 0 .. n : R[x] = L[x]}
  <2>2. 0 \in G
    <3>1. 0 \in 0 .. n
      BY <1>2
    <3> QED  BY <1>3, <2>1, <3>1 DEF IsLeft
  <2>3. ASSUME NEW x \in 1 .. n, x - 1 \in G PROVE x \in G
    <3>1. x \in 0 .. n /\ x # 0 /\ R[x - 1] = L[x - 1]
      BY <1>2, <2>3
    <3>2. R[x] = IF In(x) THEN R[x - 1] ELSE Append(R[x - 1], s[x])
      BY <2>1, <3>1
    <3>3. L[x] = IF x \in C THEN Append(L[x - 1], s[x]) ELSE L[x - 1]
      BY <1>3 DEF IsLeft
    <3> QED  BY <1>2, <3>1, <3>2, <3>3
  <2> HIDE DEF G
  <2>4. \A x \in 0 .. n : x \in G
    BY <1>2, <2>2, <2>3, Up
  <2>5. \A x \in 0 .. n : R[x] = L[x]
    BY <2>4 DEF G
  <2>6. R = L
    <3>1. R = [x \in 0 .. n |-> R[x]] /\ L = [x \in 0 .. n |-> L[x]]
      <4>1. R = [x \in 0 .. n |-> R[x]]
        <5> HIDE DEF Line
        <5> QED  BY <1>5
      <4>2. L \in [0 .. n -> Seq(Char)]
        BY <1>3 DEF IsLeft
      <4> QED  BY <4>1, <4>2
    <3> QED  BY <2>5, <3>1
  <2> QED  BY <1>3, <2>6
<1>7. n \in 0 .. n /\ \A x \in 1 .. n : x \in C <=> x \in C
  BY <1>2
<1> HIDE DEF R
<1>8. L[n] = R[n]
  BY <1>6, <1>7, LeftSame DEF L
<1> QED  BY <1>1, <1>8 DEF L, C

-----------------------------------------------------------------------------
(* The rounds of a loop over the matches *)

\* The matches that are met, None among them.
Aheads(s, p) == {Pattern!Ahead(s, p, x) : x \in 0 .. Len(s) + 1}

LEMMA AheadIs ==
    ASSUME NEW s \in Seq(Char), NEW p, Pattern!IsPattern(p), NEW x \in 0 .. Len(s) + 1
    PROVE  \/ Pattern!Ahead(s, p, x) = Pattern!None
           \/ x \in 0 .. Len(s) /\ MatchFrom(s, x, Pattern!Ahead(s, p, x))
<1>1. CASE x > Len(s)
  BY <1>1 DEF Pattern!Ahead
<1>2. CASE ~(x > Len(s))
  <2>1. x \in 0 .. Len(s) /\ Pattern!Ahead(s, p, x) = Pattern!GmFind(s, p, x)
    BY <1>2 DEF Pattern!Ahead
  <2> QED  BY <2>1, GmFindFrom
<1> QED  BY <1>1, <1>2

LEMMA AheadsAre ==
    ASSUME NEW s \in Seq(Char), NEW p, Pattern!IsPattern(p), NEW m \in Aheads(s, p), m # Pattern!None
    PROVE  /\ MatchFrom(s, 0, m) /\ m.mstart \in 0 .. Len(s) /\ m.mend \in 0 .. Len(s)
           /\ Pattern!NextPos(m) \in 1 .. Len(s) + 1
           /\ Pattern!Ahead(s, p, Pattern!NextPos(m)) \in Aheads(s, p)
<1>1. PICK x \in 0 .. Len(s) + 1 : m = Pattern!Ahead(s, p, x)
  BY DEF Aheads
<1>2. x \in 0 .. Len(s) /\ MatchFrom(s, x, m)
  BY <1>1, AheadIs
<1>3. Len(s) \in Nat
  OBVIOUS
<1>4. MatchFrom(s, 0, m) /\ m.mstart \in 0 .. Len(s) /\ m.mend \in 0 .. Len(s)
  BY <1>2, <1>3 DEF MatchFrom
<1>5. Pattern!NextPos(m) \in 1 .. Len(s) + 1 /\ Pattern!NextPos(m) \in 0 .. Len(s) + 1
  BY <1>3, <1>4, NextPosIs
<1> QED  BY <1>4, <1>5 DEF Aheads

\* A round of the iterator, and of the loop of gsub.
WalkState(s, p) == [ms : Seq(Aheads(s, p)), m : Aheads(s, p)]
WalkRound(s, p, st) ==
    IF st.m = Pattern!None THEN st
    ELSE [ms |-> Append(st.ms, st.m), m |-> Pattern!Ahead(s, p, Pattern!NextPos(st.m))]
IsWalk(s, p, W) ==
    /\ W \in [0 .. Len(s) + 1 -> WalkState(s, p)] /\ W[0] = [ms |-> <<>>, m |-> Pattern!Ahead(s, p, 0)]
    /\ \A k \in 1 .. Len(s) + 1 : W[k] = WalkRound(s, p, W[k - 1])

GsubState(s, p) == [from : 0 .. Len(s) + 1, m : Aheads(s, p), out : Seq(Char), count : Nat]
GsubRound(s, p, repl, n, st) ==
    IF st.m = Pattern!None \/ st.count = n THEN st
    ELSE [from |-> Pattern!NextPos(st.m), m |-> Pattern!Ahead(s, p, Pattern!NextPos(st.m)),
          out |-> st.out \o Pattern!Text(s, st.from, st.m.mstart) \o Pattern!Replacement(s, st.m, repl)
                  \o Pattern!Stepped(s, st.m),
          count |-> IF repl = "none" THEN st.count ELSE st.count + 1]
GsubFirst(s, p) == [from |-> 0, m |-> Pattern!Ahead(s, p, 0), out |-> <<>>, count |-> 0]
IsGsub(s, p, repl, n, R) ==
    /\ R \in [0 .. Len(s) + 1 -> GsubState(s, p)] /\ R[0] = GsubFirst(s, p)
    /\ \A k \in 1 .. Len(s) + 1 : R[k] = GsubRound(s, p, repl, n, R[k - 1])

LEMMA TextIs ==
    ASSUME NEW s \in Seq(Char), NEW a \in Nat, NEW b \in 0 .. Len(s)
    PROVE  Pattern!Text(s, a, b) \in Seq(Char)
<1>1. \A i \in a + 1 .. b : s[i] \in Char
  OBVIOUS
<1>2. a + 1 \in Int /\ b \in Int
  OBVIOUS
<1> QED  BY <1>1, <1>2, SubSeqProperties DEF Pattern!Text

LEMMA WalkRoundIs ==
    ASSUME NEW s \in Seq(Char), NEW p, Pattern!IsPattern(p), NEW st \in WalkState(s, p)
    PROVE  WalkRound(s, p, st) \in WalkState(s, p)
<1> DEFINE A == Aheads(s, p)
<1>1. st.ms \in Seq(A) /\ st.m \in A
  BY DEF WalkState
<1>2. ASSUME st.m # Pattern!None PROVE Pattern!Ahead(s, p, Pattern!NextPos(st.m)) \in A
  BY <1>1, <1>2, AheadsAre
<1> HIDE DEF A
<1>3. Append(st.ms, st.m) \in Seq(A)
  BY <1>1
<1> QED  BY <1>2, <1>3 DEF WalkRound, WalkState, A

LEMMA GsubRoundIs ==
    ASSUME NEW s \in Seq(Char), NEW p, Pattern!IsPattern(p), NEW repl, NEW n, NEW st \in GsubState(s, p)
    PROVE  GsubRound(s, p, repl, n, st) \in GsubState(s, p)
<1>1. st.from \in 0 .. Len(s) + 1 /\ st.m \in Aheads(s, p) /\ st.out \in Seq(Char) /\ st.count \in Nat
  BY DEF GsubState
<1> SUFFICES ASSUME st.m # Pattern!None, st.count # n PROVE GsubRound(s, p, repl, n, st) \in GsubState(s, p)
  BY DEF GsubRound
<1> DEFINE m == st.m
           a == Pattern!Text(s, st.from, m.mstart)
           b == Pattern!Replacement(s, m, repl)
           c == Pattern!Stepped(s, m)
<1>2. /\ m.mstart \in 0 .. Len(s) /\ m.mend \in 0 .. Len(s) /\ Pattern!NextPos(m) \in 1 .. Len(s) + 1
      /\ Pattern!Ahead(s, p, Pattern!NextPos(m)) \in Aheads(s, p)
  BY <1>1, AheadsAre
<1>3. a \in Seq(Char)
  <2>1. st.from \in Nat
    BY <1>1
  <2> QED  BY <1>2, <2>1, TextIs
<1>4. b \in Seq(Char)
  <2>1. Pattern!Text(s, m.mstart, m.mend) \in Seq(Char)
    <3>1. m.mstart \in Nat
      BY <1>2
    <3> QED  BY <1>2, <3>1, TextIs
  <2> QED  BY <2>1 DEF Pattern!Replacement
<1>5. c \in Seq(Char)
  <2>1. m.mstart < Len(s) => s[m.mstart + 1] \in Char
    <3>1. m.mstart < Len(s) => m.mstart + 1 \in 1 .. Len(s)
      BY <1>2
    <3> QED  BY <3>1
  <2> QED  BY <2>1 DEF Pattern!Stepped
<1>6. GsubRound(s, p, repl, n, st) =
        [from |-> Pattern!NextPos(m), m |-> Pattern!Ahead(s, p, Pattern!NextPos(m)), out |-> st.out \o a \o b \o c,
         count |-> IF repl = "none" THEN st.count ELSE st.count + 1]
  BY DEF GsubRound
<1> HIDE DEF a, b, c
<1>7. st.out \o a \o b \o c \in Seq(Char)
  BY <1>1, <1>3, <1>4, <1>5
<1>8. (IF repl = "none" THEN st.count ELSE st.count + 1) \in Nat /\ Pattern!NextPos(m) \in 0 .. Len(s) + 1
  BY <1>1, <1>2
<1> HIDE DEF m
<1> QED  BY <1>2, <1>6, <1>7, <1>8 DEF GsubState

(* The iterator's matches are those that its rounds come to. *)
LEMMA WalkIs ==
    ASSUME NEW s \in Seq(Char), NEW p, Pattern!IsPattern(p)
    PROVE  \E W : IsWalk(s, p, W) /\ Pattern!Walk(s, p) = W[Len(s) + 1].ms
<1> DEFINE n == Len(s) + 1
           D == WalkState(s, p)
           b == [ms |-> <<>>, m |-> Pattern!Ahead(s, p, 0)]
           Line(f, k) == IF k = 0 THEN b ELSE WalkRound(s, p, f[k - 1])
           Is(f) == f = [k \in 0 .. n |-> Line(f, k)]
           W == CHOOSE f : Is(f)
           steps == [k \in 1 .. n |-> [st \in D |-> WalkRound(s, p, st)]]
<1>1. Pattern!Walk(s, p) = W[n].ms
  BY Zenon DEF Pattern!Walk, WalkRound
<1>2. n \in Nat /\ \A k \in 0 .. n : k # 0 => k \in 1 .. n /\ k - 1 \in 0 .. n
  OBVIOUS
<1>3. b \in D
  <2>1. Pattern!Ahead(s, p, 0) \in Aheads(s, p)
    BY DEF Aheads
  <2> QED  BY <2>1 DEF WalkState
<1>4. \A k \in 1 .. n : \A st \in D : steps[k][st] = WalkRound(s, p, st)
  OBVIOUS
<1>5. steps \in StepsOf(n, D)
  BY WalkRoundIs DEF StepsOf
<1> HIDE DEF D, steps, b, W
<1>6. PICK f : f \in [0 .. n -> D] /\ f[0] = b /\ \A k \in 1 .. n : f[k] = steps[k][f[k - 1]]
  <2>1. \E f : GoesUp(f, n, D, b, steps)
    BY <1>2, <1>3, <1>5, StepsUp
  <2> QED  BY <2>1 DEF GoesUp
<1>7. ASSUME NEW k \in 0 .. n PROVE f[k] = Line(f, k)
  <2>1. CASE k = 0
    BY <1>6, <2>1
  <2>2. CASE k # 0
    <3>1. k \in 1 .. n /\ f[k - 1] \in D
      BY <1>2, <1>6, <2>2
    <3> QED  BY <1>4, <1>6, <2>2, <3>1
  <2> QED  BY <2>1, <2>2
<1> HIDE DEF n
<1>8. Is(W)
  <2>1. Is(f)
    <3> HIDE DEF Line
    <3> QED  BY <1>6, <1>7
  <2> HIDE DEF Is
  <2> QED  BY <2>1 DEF W
<1>9. DOMAIN W = 0 .. n /\ \A k \in 0 .. n : W[k] = Line(W, k)
  <2> HIDE DEF Line
  <2> QED  BY <1>8
<1>10. W[0] = b /\ \A k \in 1 .. n : W[k] = WalkRound(s, p, W[k - 1])
  <2>1. 0 \in 0 .. n /\ \A k \in 1 .. n : k \in 0 .. n /\ k # 0
    BY <1>2
  <2> QED  BY <1>9, <2>1
<1>11. \A k \in 0 .. n : W[k] \in D
  <2> DEFINE G == {k \in 0 .. n : W[k] \in D}
  <2>1. 0 \in G
    BY <1>2, <1>3, <1>10
  <2>2. ASSUME NEW k \in 1 .. n, k - 1 \in G PROVE k \in G
    <3>1. W[k - 1] \in D /\ k \in 0 .. n
      BY <1>2, <2>2
    <3> QED  BY <1>10, <3>1, WalkRoundIs DEF D
  <2> HIDE DEF G
  <2>3. \A k \in 0 .. n : k \in G
    BY <1>2, <2>1, <2>2, Up
  <2> QED  BY <2>3 DEF G
<1>12. W \in [0 .. n -> D]
  <2>1. W = [k \in 0 .. n |-> W[k]]
    <3> HIDE DEF Line
    <3> QED  BY <1>8
  <2> QED  BY <1>11, <2>1
<1>13. IsWalk(s, p, W)
  BY <1>10, <1>12 DEF IsWalk, n, D, b
<1> QED  BY <1>1, <1>13 DEF n

(* The same for gsub. *)
LEMMA GsubIs ==
    ASSUME NEW s \in Seq(Char), NEW p, Pattern!IsPattern(p), NEW repl, NEW lim
    PROVE  \E R : /\ IsGsub(s, p, repl, lim, R)
                  /\ Pattern!Gsub(s, p, repl, lim) =
                        [out |-> R[Len(s) + 1].out \o Pattern!Text(s, R[Len(s) + 1].from, Len(s)),
                         count |-> R[Len(s) + 1].count]
<1> DEFINE n == Len(s) + 1
           D == GsubState(s, p)
           b == GsubFirst(s, p)
           Line(f, k) == IF k = 0 THEN b ELSE GsubRound(s, p, repl, lim, f[k - 1])
           Is(f) == f = [k \in 0 .. n |-> Line(f, k)]
           R == CHOOSE f : Is(f)
           steps == [k \in 1 .. n |-> [st \in D |-> GsubRound(s, p, repl, lim, st)]]
<1>1. Pattern!Gsub(s, p, repl, lim) = [out |-> R[n].out \o Pattern!Text(s, R[n].from, Len(s)), count |-> R[n].count]
  BY Zenon DEF Pattern!Gsub, GsubRound, GsubFirst
<1>2. n \in Nat /\ \A k \in 0 .. n : k # 0 => k \in 1 .. n /\ k - 1 \in 0 .. n
  OBVIOUS
<1>3. b \in D
  <2>1. Pattern!Ahead(s, p, 0) \in Aheads(s, p) /\ <<>> \in Seq(Char)
    BY DEF Aheads
  <2> QED  BY <2>1 DEF GsubState, GsubFirst
<1>4. \A k \in 1 .. n : \A st \in D : steps[k][st] = GsubRound(s, p, repl, lim, st)
  OBVIOUS
<1>5. steps \in StepsOf(n, D)
  BY GsubRoundIs DEF StepsOf
<1> HIDE DEF D, steps, b, R
<1>6. PICK f : f \in [0 .. n -> D] /\ f[0] = b /\ \A k \in 1 .. n : f[k] = steps[k][f[k - 1]]
  <2>1. \E f : GoesUp(f, n, D, b, steps)
    BY <1>2, <1>3, <1>5, StepsUp
  <2> QED  BY <2>1 DEF GoesUp
<1>7. ASSUME NEW k \in 0 .. n PROVE f[k] = Line(f, k)
  <2>1. CASE k = 0
    BY <1>6, <2>1
  <2>2. CASE k # 0
    <3>1. k \in 1 .. n /\ f[k - 1] \in D
      BY <1>2, <1>6, <2>2
    <3> QED  BY <1>4, <1>6, <2>2, <3>1
  <2> QED  BY <2>1, <2>2
<1> HIDE DEF n
<1>8. Is(R)
  <2>1. Is(f)
    <3> HIDE DEF Line
    <3> QED  BY <1>6, <1>7
  <2> HIDE DEF Is
  <2> QED  BY <2>1 DEF R
<1>9. DOMAIN R = 0 .. n /\ \A k \in 0 .. n : R[k] = Line(R, k)
  <2> HIDE DEF Line
  <2> QED  BY <1>8
<1>10. R[0] = b /\ \A k \in 1 .. n : R[k] = GsubRound(s, p, repl, lim, R[k - 1])
  <2>1. 0 \in 0 .. n /\ \A k \in 1 .. n : k \in 0 .. n /\ k # 0
    BY <1>2
  <2> QED  BY <1>9, <2>1
<1>11. \A k \in 0 .. n : R[k] \in D
  <2> DEFINE G == {k \in 0 .. n : R[k] \in D}
  <2>1. 0 \in G
    BY <1>2, <1>3, <1>10
  <2>2. ASSUME NEW k \in 1 .. n, k - 1 \in G PROVE k \in G
    <3>1. R[k - 1] \in D /\ k \in 0 .. n
      BY <1>2, <2>2
    <3> QED  BY <1>10, <3>1, GsubRoundIs DEF D
  <2> HIDE DEF G
  <2>3. \A k \in 0 .. n : k \in G
    BY <1>2, <2>1, <2>2, Up
  <2> QED  BY <2>3 DEF G
<1>12. R \in [0 .. n -> D]
  <2>1. R = [k \in 0 .. n |-> R[k]]
    <3> HIDE DEF Line
    <3> QED  BY <1>8
  <2> QED  BY <1>11, <2>1
<1>13. IsGsub(s, p, repl, lim, R)
  BY <1>10, <1>12 DEF IsGsub, n, D, b
<1> QED  BY <1>1, <1>13 DEF n

-----------------------------------------------------------------------------
(* gsub *)

(* Of n matches at the most a further one counts only if there were fewer. *)
LEMMA FirstOnesAre ==
    ASSUME NEW M, NEW ms \in Seq(M), NEW m \in M, NEW n \in Nat
    PROVE  /\ Len(ms) <= n => Pattern!FirstOnes(ms, n) = ms
           /\ Len(ms) >= n => Pattern!FirstOnes(Append(ms, m), n) = Pattern!FirstOnes(ms, n)
           /\ Len(Pattern!FirstOnes(ms, n)) = IF n < Len(ms) THEN n ELSE Len(ms)
<1> DEFINE L == Len(ms)
           A == Append(ms, m)
<1>1. L \in Nat /\ A \in Seq(M) /\ Len(A) = L + 1 /\ \A i \in 1 .. L : A[i] = ms[i]
  BY AppendProperties
<1>2. SubSeq(ms, 1, L) = ms
  BY SubSeqFull
<1>3. Pattern!FirstOnes(ms, n) = SubSeq(ms, 1, IF n < L THEN n ELSE L)
  BY DEF Pattern!FirstOnes
<1>4. L <= n => Pattern!FirstOnes(ms, n) = ms
  <2> HIDE DEF L
  <2>1. L <= n => (IF n < L THEN n ELSE L) = L
    BY <1>1
  <2> QED  BY <1>2, <1>3, <2>1
<1>5. ASSUME NEW k \in 0 .. L PROVE /\ SubSeq(ms, 1, k) \in Seq(M) /\ Len(SubSeq(ms, 1, k)) = k
                                    /\ \A i \in 1 .. k : SubSeq(ms, 1, k)[i] = ms[i]
  <2>1. \A i \in 1 .. k : ms[i] \in M
    BY <1>1
  <2>2. 1 \in Int /\ k \in Int
    BY <1>1
  <2>3. /\ SubSeq(ms, 1, k) \in Seq(M)
        /\ Len(SubSeq(ms, 1, k)) = IF 1 <= k THEN k - 1 + 1 ELSE 0
        /\ \A i \in 1 .. k - 1 + 1 : SubSeq(ms, 1, k)[i] = ms[1 + i - 1]
    BY <2>1, <2>2, SubSeqProperties
  <2>4. k - 1 + 1 = k /\ \A i \in 1 .. k : 1 + i - 1 = i
    BY <1>1
  <2> QED  BY <1>1, <2>3, <2>4
<1> HIDE DEF L, A
<1>6. Len(Pattern!FirstOnes(ms, n)) = IF n < L THEN n ELSE L
  <2>1. (IF n < L THEN n ELSE L) \in 0 .. L
    BY <1>1
  <2> QED  BY <1>3, <1>5, <2>1
<1>7. ASSUME L >= n PROVE Pattern!FirstOnes(A, n) = Pattern!FirstOnes(ms, n)
  <2>1. n \in 0 .. L /\ n < L + 1 /\ (IF n < L THEN n ELSE L) = n
    BY <1>1, <1>7
  <2>2. Pattern!FirstOnes(A, n) = SubSeq(A, 1, n)
    BY <1>1, <2>1 DEF Pattern!FirstOnes
  <2>3. /\ SubSeq(A, 1, n) \in Seq(M) /\ Len(SubSeq(A, 1, n)) = n
        /\ \A i \in 1 .. n : SubSeq(A, 1, n)[i] = A[i]
    <3>1. \A i \in 1 .. n : A[i] \in M
      BY <1>1, <2>1
    <3>2. 1 \in Int /\ n \in Int
      BY <1>1
    <3>3. /\ SubSeq(A, 1, n) \in Seq(M)
          /\ Len(SubSeq(A, 1, n)) = IF 1 <= n THEN n - 1 + 1 ELSE 0
          /\ \A i \in 1 .. n - 1 + 1 : SubSeq(A, 1, n)[i] = A[1 + i - 1]
      BY <3>1, <3>2, SubSeqProperties
    <3>4. n - 1 + 1 = n /\ \A i \in 1 .. n : 1 + i - 1 = i
      BY <1>1
    <3> QED  BY <1>1, <3>3, <3>4
  <2>4. /\ SubSeq(ms, 1, n) \in Seq(M) /\ Len(SubSeq(ms, 1, n)) = n
        /\ \A i \in 1 .. n : SubSeq(ms, 1, n)[i] = ms[i]
    BY <1>5, <2>1
  <2>5. \A i \in 1 .. n : A[i] = ms[i]
    BY <1>1, <2>1
  <2> DEFINE u == SubSeq(A, 1, n)
             w == SubSeq(ms, 1, n)
  <2> HIDE DEF u, w
  <2>6. u \in Seq(M) /\ w \in Seq(M) /\ Len(u) = Len(w) /\ \A i \in 1 .. Len(u) : u[i] = w[i]
    BY <2>3, <2>4, <2>5 DEF u, w
  <2>7. u = w
    BY <2>6, SeqEqual
  <2> QED  BY <1>3, <2>1, <2>2, <2>7 DEF u, w
<1> QED  BY <1>4, <1>6, <1>7 DEF L, A

\* What is copied up to an offset that may be behind the end.
Upto(s, from) == IF from > Len(s) THEN Len(s) ELSE from

\* The places copied so far stay; behind them only those of the match are left out.
Goes(s, repl, from, m, C, D) ==
    /\ \A x \in 1 .. from : x \in D <=> x \in C
    /\ \A x \in from + 1 .. Len(s) : x \in D <=> repl # "empty" \/ ~(m.mstart < x /\ x <= m.mend)

(* A round copies what is between the matches, what replaces the match and *)
(* the character an empty match takes along.                               *)
LEMMA CopiesOn ==
    ASSUME NEW s \in Seq(Char), NEW repl, NEW from \in 0 .. Len(s), NEW m, MatchFrom(s, from, m),
           NEW C, NEW D, Goes(s, repl, from, m, C, D)
    PROVE  Left(s, C)[from] \o Pattern!Text(s, from, m.mstart) \o Pattern!Replacement(s, m, repl) \o Pattern!Stepped(s, m)
              = Left(s, D)[Upto(s, Pattern!NextPos(m))]
<1> DEFINE L == Left(s, D)
           a == m.mstart
           b == m.mend
           r == Pattern!Replacement(s, m, repl)
           t == Pattern!Stepped(s, m)
<1>1. /\ Len(s) \in Nat /\ from \in Nat /\ a \in from .. Len(s) /\ b \in a .. Len(s)
      /\ a \in 0 .. Len(s) /\ b \in 0 .. Len(s) /\ a \in Nat /\ b \in Nat
  BY DEF MatchFrom
<1>2. Left(s, C)[from] = L[from]
  <2>1. IsLeft(s, C, Left(s, C))
    BY LeftIs
  <2>2. \A x \in 1 .. from : x \in D <=> x \in C
    BY DEF Goes
  <2> QED  BY <2>1, <2>2, LeftSame
<1>3. \A x \in from + 1 .. Len(s) : x \in D <=> repl # "empty" \/ ~(a < x /\ x <= b)
  BY DEF Goes
<1>4. /\ \A x \in 0 .. Len(s) : L[x] \in Seq(Char)
      /\ \A x \in 1 .. Len(s) : x \in D => L[x] = Append(L[x - 1], s[x])
  BY LeftSteps
<1>5. a = m.mstart /\ b = m.mend
  OBVIOUS
<1> HIDE DEF a, b
<1>6. L[a] = L[from] \o Pattern!Text(s, from, a)
  <2>1. from + 1 .. a \subseteq D
    BY <1>1, <1>3
  <2> QED  BY <1>1, <2>1, LeftAll DEF Pattern!Text
<1>7. L[b] = L[a] \o r
  <2>1. CASE repl = "empty"
    <3>1. \A x \in a + 1 .. b : x \notin D
      BY <1>1, <1>3, <2>1
    <3>2. L[b] = L[a]
      BY <1>1, <3>1, LeftNone
    <3>3. r = <<>>
      BY <2>1 DEF Pattern!Replacement
    <3>4. L[a] \o <<>> = L[a]
      BY <1>1, <1>4, ConcatEmptySeq
    <3> QED  BY <3>2, <3>3, <3>4
  <2>2. CASE repl # "empty"
    <3>1. a + 1 .. b \subseteq D
      BY <1>1, <1>3, <2>2
    <3>2. L[b] = L[a] \o SubSeq(s, a + 1, b)
      BY <1>1, <3>1, LeftAll
    <3> QED  BY <1>5, <2>2, <3>2 DEF Pattern!Replacement, Pattern!Text
  <2> QED  BY <2>1, <2>2
<1>8. L[Upto(s, Pattern!NextPos(m))] = L[b] \o t
  <2>1. CASE b = a /\ a < Len(s)
    <3>1. Pattern!NextPos(m) = a + 1 /\ a + 1 <= Len(s) /\ Upto(s, a + 1) = a + 1
      BY <1>1, <1>5, <2>1 DEF Pattern!NextPos, Upto
    <3>2. t = <<s[a + 1]>>
      BY <1>5, <2>1 DEF Pattern!Stepped
    <3>3. a + 1 \in 1 .. Len(s) /\ a + 1 \in D /\ (a + 1) - 1 = a /\ s[a + 1] \in Char
      BY <1>1, <1>3, <2>1, <3>1
    <3>4. L[a + 1] = Append(L[a], s[a + 1])
      BY <1>4, <3>3
    <3>5. Append(L[a], s[a + 1]) = L[a] \o <<s[a + 1]>>
      BY <1>1, <1>4, <3>3, AppendIsConcat
    <3> HIDE DEF L, t
    <3> QED  BY <2>1, <3>1, <3>2, <3>4, <3>5
  <2>2. CASE ~(b = a /\ a < Len(s))
    <3>1. t = <<>>
      BY <1>5, <2>2 DEF Pattern!Stepped
    <3>2. Upto(s, Pattern!NextPos(m)) = b
      BY <1>1, <1>5, <2>2 DEF Pattern!NextPos, Upto
    <3>3. L[b] \o <<>> = L[b]
      BY <1>1, <1>4, ConcatEmptySeq
    <3> QED  BY <3>1, <3>2, <3>3
  <2> QED  BY <2>1, <2>2
<1> HIDE DEF L, r, t
<1> QED  BY <1>2, <1>5, <1>6, <1>7, <1>8 DEF L, r, t

\* The matches that were replaced and the places that are copied.
Replaced(w, n) == Pattern!FirstOnes(w.ms, n)
Copied(s, repl, w, n) == IF repl = "empty" THEN Outside(s, Replaced(w, n)) ELSE 1 .. Len(s)

\* gsub's rounds are the iterator's as long as matches are replaced.
InPace(s, p, repl, n, g, w) ==
    /\ g \in GsubState(s, p) /\ w \in WalkState(s, p)
    /\ g.m = Pattern!None \/ (g.from \in 0 .. Len(s) /\ MatchFrom(s, g.from, g.m))
    /\ repl = "none" => g.count = 0
    /\ repl # "none" => /\ g.count = IF n < Len(w.ms) THEN n ELSE Len(w.ms)
                        /\ Len(w.ms) <= n => g.m = w.m
    /\ \A x \in 1 .. Len(s) : x > g.from => x \in Copied(s, repl, w, n)
    /\ g.out = Left(s, Copied(s, repl, w, n))[Upto(s, g.from)]

LEMMA PaceStarts ==
    ASSUME NEW s \in Seq(Char), NEW p, Pattern!IsPattern(p), NEW repl, NEW n \in Nat
    PROVE  InPace(s, p, repl, n, GsubFirst(s, p), [ms |-> <<>>, m |-> Pattern!Ahead(s, p, 0)])
<1> DEFINE g == GsubFirst(s, p)
           w == [ms |-> <<>>, m |-> Pattern!Ahead(s, p, 0)]
           A == Aheads(s, p)
<1>1. Len(s) \in Nat /\ 0 \in 0 .. Len(s) + 1 /\ 0 \in 0 .. Len(s)
  OBVIOUS
<1>2. Pattern!Ahead(s, p, 0) \in A
  BY <1>1 DEF Aheads
<1>3. Pattern!Ahead(s, p, 0) = Pattern!None \/ MatchFrom(s, 0, Pattern!Ahead(s, p, 0))
  BY <1>1, AheadIs
<1>4. g.from = 0 /\ g.m = Pattern!Ahead(s, p, 0) /\ g.out = <<>> /\ g.count = 0 /\ g \in GsubState(s, p)
  BY <1>1, <1>2 DEF GsubFirst, GsubState
<1>5. w.ms = <<>> /\ w.m = Pattern!Ahead(s, p, 0) /\ w \in WalkState(s, p)
  BY <1>2 DEF WalkState
<1> HIDE DEF g, w
<1>6. Len(w.ms) = 0 /\ Replaced(w, n) = <<>>
  <2>1. Len(<<>>) = 0 /\ SubSeq(<<>>, 1, 0) = <<>>
    BY SubSeqEmpty
  <2> QED  BY <1>5, <2>1 DEF Replaced, Pattern!FirstOnes
<1>7. \A x \in 1 .. Len(s) : x \in Copied(s, repl, w, n)
  BY <1>6 DEF Copied, Outside
<1>8. Left(s, Copied(s, repl, w, n))[Upto(s, 0)] = <<>>
  <2>1. Upto(s, 0) = 0
    BY <1>1 DEF Upto
  <2> QED  BY <2>1, LeftSteps
<1>9. InPace(s, p, repl, n, g, w)
  <2>1. g.m = Pattern!None \/ (g.from \in 0 .. Len(s) /\ MatchFrom(s, g.from, g.m))
    BY <1>1, <1>3, <1>4
  <2>2. repl # "none" => g.count = IF n < Len(w.ms) THEN n ELSE Len(w.ms)
    BY <1>4, <1>6
  <2> QED  BY <1>4, <1>5, <1>7, <1>8, <2>1, <2>2 DEF InPace
<1> QED  BY <1>9 DEF g, w

(* A round of both keeps the pace. *)
LEMMA PaceStep ==
    ASSUME NEW s \in Seq(Char), NEW p, Pattern!IsPattern(p), NEW repl, NEW n \in Nat, NEW g, NEW w,
           InPace(s, p, repl, n, g, w)
    PROVE  InPace(s, p, repl, n, GsubRound(s, p, repl, n, g), WalkRound(s, p, w))
<1> DEFINE h == GsubRound(s, p, repl, n, g)
           v == WalkRound(s, p, w)
           A == Aheads(s, p)
           C == Copied(s, repl, w, n)
           D == Copied(s, repl, v, n)
<1>1. /\ g \in GsubState(s, p) /\ w \in WalkState(s, p)
      /\ g.m = Pattern!None \/ (g.from \in 0 .. Len(s) /\ MatchFrom(s, g.from, g.m))
      /\ repl = "none" => g.count = 0
      /\ repl # "none" => /\ g.count = IF n < Len(w.ms) THEN n ELSE Len(w.ms)
                          /\ Len(w.ms) <= n => g.m = w.m
      /\ \A x \in 1 .. Len(s) : x > g.from => x \in C
      /\ g.out = Left(s, C)[Upto(s, g.from)]
  BY DEF InPace
<1>2. h \in GsubState(s, p) /\ v \in WalkState(s, p)
  BY <1>1, GsubRoundIs, WalkRoundIs
<1>3. /\ w.ms \in Seq(A) /\ w.m \in A /\ Len(w.ms) \in Nat /\ Len(s) \in Nat /\ g.m \in A
      /\ g.from \in 0 .. Len(s) + 1
  BY <1>1 DEF WalkState, GsubState
<1>4. w.m = Pattern!None => v = w
  BY DEF WalkRound
<1>5. w.m # Pattern!None => /\ v.ms = Append(w.ms, w.m) /\ v.m = Pattern!Ahead(s, p, Pattern!NextPos(w.m))
                            /\ Len(v.ms) = Len(w.ms) + 1
  <2>1. w.m # Pattern!None => v.ms = Append(w.ms, w.m) /\ v.m = Pattern!Ahead(s, p, Pattern!NextPos(w.m))
    BY DEF WalkRound
  <2> HIDE DEF v, A
  <2>2. Len(Append(w.ms, w.m)) = Len(w.ms) + 1
    BY <1>3, AppendProperties
  <2> QED  BY <2>1, <2>2
<1>6. g.m = Pattern!None \/ g.count = n => h = g
  BY DEF GsubRound
<1>7. g.m # Pattern!None /\ g.count # n =>
        /\ h.from = Pattern!NextPos(g.m) /\ h.m = Pattern!Ahead(s, p, Pattern!NextPos(g.m))
        /\ h.out = g.out \o Pattern!Text(s, g.from, g.m.mstart) \o Pattern!Replacement(s, g.m, repl)
                     \o Pattern!Stepped(s, g.m)
        /\ h.count = IF repl = "none" THEN g.count ELSE g.count + 1
  BY DEF GsubRound
<1> SUFFICES InPace(s, p, repl, n, h, v)
  OBVIOUS
<1> HIDE DEF h, v, A
\* Beyond the n-th nothing is replaced any more.
<1>8. Len(w.ms) >= n => Replaced(v, n) = Replaced(w, n) /\ Len(v.ms) >= n /\ Len(v.ms) \in Nat
  <2>1. CASE w.m = Pattern!None
    BY <1>3, <1>4, <2>1
  <2>2. CASE w.m # Pattern!None
    <3>1. Len(w.ms) >= n => Pattern!FirstOnes(Append(w.ms, w.m), n) = Pattern!FirstOnes(w.ms, n)
      BY <1>3, FirstOnesAre
    <3>2. v.ms = Append(w.ms, w.m) /\ Len(v.ms) = Len(w.ms) + 1
      BY <1>5, <2>2
    <3>3. Len(w.ms) >= n => Len(v.ms) >= n /\ Len(v.ms) \in Nat
      BY <1>3, <3>2
    <3>4. Len(w.ms) >= n => Replaced(v, n) = Replaced(w, n)
      BY <3>1, <3>2, Zenon DEF Replaced
    <3> QED  BY <3>3, <3>4
  <2> QED  BY <2>1, <2>2
<1>9. CASE g.m = Pattern!None \/ g.count = n
  <2>1. h = g
    BY <1>6, <1>9
  <2>2. D = C
    <3>1. CASE repl # "empty"
      BY <3>1 DEF Copied
    <3>2. CASE repl = "empty"
      <4>1. Len(w.ms) >= n \/ w.m = Pattern!None
        BY <1>1, <1>3, <1>9, <3>2
      <4> QED  BY <1>4, <1>8, <4>1 DEF Copied
    <3> QED  BY <3>1, <3>2
  <2>3. ASSUME repl # "none"
        PROVE  g.count = (IF n < Len(v.ms) THEN n ELSE Len(v.ms)) /\ (Len(v.ms) <= n => g.m = v.m)
    <3>1. CASE w.m = Pattern!None
      BY <1>1, <1>4, <2>3, <3>1
    <3>2. CASE w.m # Pattern!None
      <4>1. Len(w.ms) >= n
        BY <1>1, <1>3, <1>9, <2>3, <3>2
      <4> QED  BY <1>1, <1>3, <1>5, <2>3, <3>2, <4>1
    <3> QED  BY <3>1, <3>2
  <2> HIDE DEF C, D
  <2>4. \A x \in 1 .. Len(s) : x > g.from => x \in D
    BY <1>1, <2>2
  <2>5. g.out = Left(s, D)[Upto(s, g.from)]
    BY <1>1, <2>2
  <2> QED  BY <1>1, <1>2, <2>1, <2>3, <2>4, <2>5 DEF InPace, D
<1>10. CASE g.m # Pattern!None /\ g.count # n
  <2> DEFINE m == g.m
             from == Pattern!NextPos(m)
  <2>1. /\ h.from = from /\ h.m = Pattern!Ahead(s, p, from)
        /\ h.out = g.out \o Pattern!Text(s, g.from, m.mstart) \o Pattern!Replacement(s, m, repl)
                     \o Pattern!Stepped(s, m)
        /\ h.count = IF repl = "none" THEN g.count ELSE g.count + 1
    BY <1>7, <1>10
  <2>2. g.from \in 0 .. Len(s) /\ MatchFrom(s, g.from, m)
    BY <1>1, <1>10
  <2>3. from \in g.from + 1 .. Len(s) + 1 /\ from > m.mstart /\ from >= m.mend
    BY <2>2, NextPosIs
  <2>4. m.mstart \in g.from .. Len(s) /\ m.mend \in m.mstart .. Len(s)
    BY <2>2 DEF MatchFrom
  <2> HIDE DEF m, from
  <2>5. from \in 0 .. Len(s) + 1
    BY <1>3, <2>2, <2>3
  <2>6. h.m = Pattern!None \/ (h.from \in 0 .. Len(s) /\ MatchFrom(s, h.from, h.m))
    BY <2>1, <2>5, AheadIs
  <2>7. ASSUME repl # "none"
        PROVE  /\ Len(w.ms) < n /\ w.m = m /\ w.m # Pattern!None
               /\ Replaced(w, n) = w.ms /\ Replaced(v, n) = Append(w.ms, m)
    <3>1. Len(w.ms) < n /\ w.m = m /\ w.m # Pattern!None
      BY <1>1, <1>3, <1>10, <2>7 DEF m
    <3>2. Replaced(w, n) = w.ms
      BY <1>3, <3>1, FirstOnesAre DEF Replaced
    <3>3. v.ms \in Seq(A) /\ Len(v.ms) <= n /\ v.ms = Append(w.ms, m)
      BY <1>2, <1>3, <1>5, <3>1 DEF WalkState, A
    <3>4. Replaced(v, n) = v.ms
      BY <1>3, <3>3, FirstOnesAre DEF Replaced
    <3> QED  BY <3>1, <3>2, <3>3, <3>4
  <2>8. ASSUME repl # "none"
        PROVE  h.count = (IF n < Len(v.ms) THEN n ELSE Len(v.ms)) /\ (Len(v.ms) <= n => h.m = v.m)
    <3>1. Len(w.ms) < n /\ w.m = m /\ g.count = Len(w.ms)
      BY <1>1, <1>3, <2>7, <2>8
    <3>2. Len(v.ms) = Len(w.ms) + 1 /\ v.m = Pattern!Ahead(s, p, from)
      BY <1>5, <2>7, <2>8 DEF from
    <3>3. h.count = Len(v.ms)
      BY <2>1, <2>8, <3>1, <3>2
    <3> QED  BY <1>3, <2>1, <3>1, <3>2, <3>3
  \* The places that are copied: but for those of the match, which is behind the offset.
  <2>9. \A x \in 1 .. Len(s) : x \in D <=> x \in C /\ (repl = "empty" => ~(m.mstart < x /\ x <= m.mend))
    <3>1. CASE repl # "empty"
      BY <3>1 DEF Copied
    <3>2. CASE repl = "empty"
      <4>1. C = Outside(s, w.ms) /\ D = Outside(s, Append(w.ms, m))
        BY <2>7, <3>2 DEF Copied
      <4> DEFINE u == Append(w.ms, m)
                 k == Len(w.ms)
      <4>2. m \in A /\ k \in Nat
        BY <1>3 DEF m
      <4>3. DOMAIN w.ms = 1 .. k /\ DOMAIN u = 1 .. k + 1 /\ u[k + 1] = m /\ \A j \in 1 .. k : u[j] = w.ms[j]
        <5>1. /\ u \in Seq(A) /\ Len(u) = k + 1 /\ u[k + 1] = m /\ \A j \in 1 .. k : u[j] = w.ms[j]
          BY <1>3, <4>2, AppendProperties
        <5> QED  BY <1>3, <5>1
      <4> HIDE DEF u, k
      <4>4. ASSUME NEW x \in 1 .. Len(s)
            PROVE  (\E j \in DOMAIN u : u[j].mstart < x /\ x <= u[j].mend) <=>
                      \/ \E j \in DOMAIN w.ms : w.ms[j].mstart < x /\ x <= w.ms[j].mend
                      \/ m.mstart < x /\ x <= m.mend
        <5>1. \A j \in 1 .. k + 1 : j \in 1 .. k \/ j = k + 1
          BY <4>2
        <5>2. \A j \in 1 .. k : j \in 1 .. k + 1
          BY <4>2
        <5>3. k + 1 \in 1 .. k + 1
          BY <4>2
        <5> QED  BY <4>3, <5>1, <5>2, <5>3, Zenon
      <4> QED  BY <3>2, <4>1, <4>4 DEF Outside, u
    <3> QED  BY <3>1, <3>2
  <2> HIDE DEF C, D
  <2>10. \A x \in 1 .. Len(s) : x > h.from => x \in D
    <3>1. ASSUME NEW x \in 1 .. Len(s), x > from PROVE x \in D
      <4>1. x > g.from /\ ~(x <= m.mend)
        BY <1>3, <2>2, <2>3, <2>4, <3>1
      <4> QED  BY <1>1, <2>9, <4>1
    <3> QED  BY <2>1, <3>1
  <2>11. h.out = Left(s, D)[Upto(s, from)]
    <3>1. g.out = Left(s, C)[g.from]
      <4>1. Upto(s, g.from) = g.from
        BY <1>3, <2>2 DEF Upto
      <4> QED  BY <1>1, <4>1
    <3>2. \A x \in 1 .. g.from : x \in D <=> x \in C
      <4>1. ASSUME NEW x \in 1 .. g.from PROVE x \in 1 .. Len(s) /\ ~(m.mstart < x)
        BY <1>3, <2>2, <2>4
      <4> QED  BY <2>9, <4>1
    <3>3. \A x \in g.from + 1 .. Len(s) : x \in D <=> repl # "empty" \/ ~(m.mstart < x /\ x <= m.mend)
      <4>1. ASSUME NEW x \in g.from + 1 .. Len(s) PROVE x \in 1 .. Len(s) /\ x \in C
        <5>1. x \in 1 .. Len(s) /\ x > g.from
          BY <1>3, <2>2
        <5> QED  BY <1>1, <5>1
      <4> QED  BY <2>9, <4>1
    <3>4. Left(s, C)[g.from] \o Pattern!Text(s, g.from, m.mstart) \o Pattern!Replacement(s, m, repl)
             \o Pattern!Stepped(s, m) = Left(s, D)[Upto(s, Pattern!NextPos(m))]
      <4>1. Goes(s, repl, g.from, m, C, D)
        BY <3>2, <3>3 DEF Goes
      <4> QED  BY <2>2, <4>1, CopiesOn, ZenonT(40)
    <3> QED  BY <2>1, <3>1, <3>4 DEF from
  <2>12. repl = "none" => h.count = 0
    BY <1>1, <2>1
  <2> QED  BY <1>2, <2>1, <2>6, <2>8, <2>10, <2>11, <2>12 DEF InPace, D
<1> QED  BY <1>9, <1>10


(* gsub copies the rest, and counts its replacements. *)
LEMMA GsubGives ==
    ASSUME NEW s \in Seq(Char), NEW p, Pattern!IsPattern(p), NEW repl, NEW n \in Nat
    PROVE  LET ms == Pattern!FirstOnes(Pattern!Walk(s, p), n) IN
           Pattern!Gsub(s, p, repl, n) =
              [out |-> IF repl = "empty" THEN Pattern!Without(s, ms) ELSE s,
               count |-> IF repl = "none" THEN 0 ELSE Len(ms)]
<1> DEFINE k == Len(s) + 1
           ms == Pattern!FirstOnes(Pattern!Walk(s, p), n)
<1>1. PICK W : IsWalk(s, p, W) /\ Pattern!Walk(s, p) = W[k].ms
  BY WalkIs
<1>2. PICK R : /\ IsGsub(s, p, repl, n, R)
               /\ Pattern!Gsub(s, p, repl, n) =
                     [out |-> R[k].out \o Pattern!Text(s, R[k].from, Len(s)), count |-> R[k].count]
  BY GsubIs
<1>3. k \in Nat /\ Len(s) \in Nat
  OBVIOUS
<1>4. /\ W[0] = [ms |-> <<>>, m |-> Pattern!Ahead(s, p, 0)] /\ \A j \in 1 .. k : W[j] = WalkRound(s, p, W[j - 1])
      /\ R[0] = GsubFirst(s, p) /\ \A j \in 1 .. k : R[j] = GsubRound(s, p, repl, n, R[j - 1])
  BY <1>1, <1>2 DEF IsWalk, IsGsub
<1>5. InPace(s, p, repl, n, R[k], W[k])
  <2> DEFINE G == {j \in 0 .. k : InPace(s, p, repl, n, R[j], W[j])}
  <2>1. 0 \in G
    <3>1. InPace(s, p, repl, n, R[0], W[0])
      BY <1>4, PaceStarts
    <3> QED  BY <1>3, <3>1
  <2>2. ASSUME NEW j \in 1 .. k, j - 1 \in G PROVE j \in G
    <3>1. InPace(s, p, repl, n, R[j - 1], W[j - 1])
      BY <2>2
    <3>2. InPace(s, p, repl, n, R[j], W[j])
      BY <1>4, <3>1, PaceStep
    <3> QED  BY <1>3, <3>2
  <2> HIDE DEF G, k
  <2>3. \A j \in 0 .. k : j \in G
    BY <1>3, <2>1, <2>2, Up
  <2>4. k \in 0 .. k
    BY <1>3
  <2> QED  BY <2>3, <2>4 DEF G
<1> DEFINE g == R[k]
           w == W[k]
           C == Copied(s, repl, w, n)
<1>6. /\ g \in GsubState(s, p) /\ w \in WalkState(s, p)
      /\ repl = "none" => g.count = 0
      /\ repl # "none" => g.count = IF n < Len(w.ms) THEN n ELSE Len(w.ms)
      /\ \A x \in 1 .. Len(s) : x > g.from => x \in C
      /\ g.out = Left(s, C)[Upto(s, g.from)]
  BY <1>5 DEF InPace
<1>7. ms = Replaced(w, n)
  BY <1>1 DEF Replaced
<1>8. Pattern!Gsub(s, p, repl, n) = [out |-> g.out \o Pattern!Text(s, g.from, Len(s)), count |-> g.count]
  BY <1>2
<1> HIDE DEF g, w, k, ms
<1>9. g.from \in 0 .. Len(s) + 1 /\ w.ms \in Seq(Aheads(s, p)) /\ w.m \in Aheads(s, p)
  BY <1>6 DEF GsubState, WalkState
<1>10. g.count = IF repl = "none" THEN 0 ELSE Len(ms)
  <2>1. Len(ms) = IF n < Len(w.ms) THEN n ELSE Len(w.ms)
    <3> DEFINE A == Aheads(s, p)
    <3>1. w.ms \in Seq(A) /\ w.m \in A
      BY <1>9
    <3> HIDE DEF A
    <3>2. Len(Pattern!FirstOnes(w.ms, n)) = IF n < Len(w.ms) THEN n ELSE Len(w.ms)
      BY <3>1, FirstOnesAre
    <3> QED  BY <1>7, <3>2 DEF Replaced
  <2> QED  BY <1>6, <2>1
<1>11. g.out \o Pattern!Text(s, g.from, Len(s)) = Left(s, C)[Len(s)]
  <2> DEFINE from == g.from
  <2> HIDE DEF C
  <2>1. from \in 0 .. Len(s) + 1 /\ g.out = Left(s, C)[Upto(s, from)]
    BY <1>6, <1>9
  <2>2. \A x \in 1 .. Len(s) : x > from => x \in C
    BY <1>6
  <2> HIDE DEF from
  <2>3. CASE from \in 0 .. Len(s)
    <3>1. Upto(s, from) = from /\ Len(s) \in from .. Len(s) /\ from + 1 .. Len(s) \subseteq C
      BY <1>3, <2>2, <2>3 DEF Upto
    <3>2. Left(s, C)[Len(s)] = Left(s, C)[from] \o SubSeq(s, from + 1, Len(s))
      BY <2>3, <3>1, LeftAll
    <3> QED  BY <2>1, <3>1, <3>2 DEF from, Pattern!Text
  <2>4. CASE from = Len(s) + 1
    <3>1. Upto(s, from) = Len(s)
      BY <1>3, <2>4 DEF Upto
    <3>2. SubSeq(s, from + 1, Len(s)) = <<>>
      <4>1. from + 1 \in Int /\ Len(s) \in Int /\ Len(s) < from + 1
        BY <1>3, <2>4
      <4> QED  BY <4>1, SubSeqEmpty
    <3> DEFINE q == Left(s, C)[Len(s)]
    <3>3. q \in Seq(Char)
      <4>1. Len(s) \in 0 .. Len(s)
        BY <1>3
      <4> QED  BY <4>1, LeftSteps
    <3> HIDE DEF q
    <3>4. q \o <<>> = q
      BY <3>3, ConcatEmptySeq
    <3> QED  BY <2>1, <3>1, <3>2, <3>4 DEF from, q, Pattern!Text
  <2>5. from \in 0 .. Len(s) \/ from = Len(s) + 1
    BY <1>3, <2>1
  <2> QED  BY <2>3, <2>4, <2>5
<1>12. Left(s, C)[Len(s)] = IF repl = "empty" THEN Pattern!Without(s, ms) ELSE s
  <2>1. CASE repl = "empty"
    BY <1>7, <2>1, WithoutIs DEF Copied
  <2>2. CASE repl # "empty"
    BY <2>2, LeftWhole DEF Copied
  <2> QED  BY <2>1, <2>2
<1> QED  BY <1>8, <1>10, <1>11, <1>12 DEF ms

(* The rounds are enough: after one for each offset no match is left.      *)
LEMMA WalkEnds ==
    ASSUME NEW s \in Seq(Char), NEW p, Pattern!IsPattern(p), NEW W, IsWalk(s, p, W)
    PROVE  W[Len(s) + 1].m = Pattern!None
<1> DEFINE n == Len(s) + 1
           G == {k \in 0 .. n : W[k].m = Pattern!None \/ W[k].m.mstart >= k}
<1>1. n \in Nat /\ Len(s) \in Nat /\ n \in 0 .. n
  OBVIOUS
<1>2. /\ \A k \in 0 .. n : W[k] \in WalkState(s, p)
      /\ W[0] = [ms |-> <<>>, m |-> Pattern!Ahead(s, p, 0)]
      /\ \A k \in 1 .. n : W[k] = WalkRound(s, p, W[k - 1])
  BY DEF IsWalk
<1>3. \A k \in 0 .. n : W[k].m \in Aheads(s, p)
  BY <1>2 DEF WalkState
<1> HIDE DEF n
<1>4. 0 \in G
  <2>1. W[0].m = Pattern!None \/ W[0].m.mstart \in 0 .. Len(s)
    <3>1. 0 \in 0 .. n
      BY <1>1
    <3> QED  BY <1>3, <3>1, AheadsAre
  <2> QED  BY <1>1, <2>1
<1>5. ASSUME NEW k \in 1 .. n, k - 1 \in G PROVE k \in G
  <2> DEFINE m == W[k - 1].m
  <2>1. k - 1 \in 0 .. n /\ k \in 0 .. n /\ m \in Aheads(s, p) /\ (m = Pattern!None \/ m.mstart >= k - 1)
    BY <1>1, <1>3, <1>5
  <2>2. W[k] = IF m = Pattern!None THEN W[k - 1]
               ELSE [ms |-> Append(W[k - 1].ms, m), m |-> Pattern!Ahead(s, p, Pattern!NextPos(m))]
    BY <1>2 DEF WalkRound
  <2>3. CASE m = Pattern!None
    BY <2>1, <2>2, <2>3
  <2>4. CASE m # Pattern!None
    <3>1. W[k].m = Pattern!Ahead(s, p, Pattern!NextPos(m))
      BY <2>2, <2>4
    <3> HIDE DEF m
    <3>2. MatchFrom(s, 0, m) /\ m.mstart \in 0 .. Len(s) /\ Pattern!NextPos(m) \in 1 .. Len(s) + 1
      BY <2>1, <2>4, AheadsAre
    <3>3. Pattern!NextPos(m) > m.mstart /\ Pattern!NextPos(m) \in 0 .. Len(s) + 1
      <4>1. 0 \in 0 .. Len(s)
        BY <1>1
      <4> QED  BY <1>1, <3>2, <4>1, NextPosIs
    <3> DEFINE x == Pattern!NextPos(m)
    <3>4. x \in 0 .. Len(s) + 1 /\ x >= k
      BY <1>1, <2>1, <2>4, <3>2, <3>3
    <3> HIDE DEF x
    <3>5. Pattern!Ahead(s, p, x) = Pattern!None \/ MatchFrom(s, x, Pattern!Ahead(s, p, x))
      BY <3>4, AheadIs
    <3>6. MatchFrom(s, x, Pattern!Ahead(s, p, x)) => Pattern!Ahead(s, p, x).mstart >= k
      BY <1>1, <3>4 DEF MatchFrom
    <3>7. W[k].m = Pattern!Ahead(s, p, x)
      BY <3>1 DEF x
    <3> QED  BY <2>1, <3>5, <3>6, <3>7
  <2> QED  BY <2>3, <2>4
<1> HIDE DEF G
<1>6. \A k \in 0 .. n : k \in G
  BY <1>1, <1>4, <1>5, Up
<1>7. W[n].m = Pattern!None \/ W[n].m.mstart >= n
  BY <1>1, <1>6 DEF G
<1>8. W[n].m # Pattern!None => W[n].m.mstart \in 0 .. Len(s)
  BY <1>1, <1>3, AheadsAre
<1>9. W[n].m = Pattern!None
  BY <1>1, <1>7, <1>8 DEF n
<1> QED  BY <1>9 DEF n

(* gsub replaces the matches that gmatch comes to, the first n of them,    *)
(* and keeps the rest: the match itself or none in its place give the      *)
(* subject back, an empty replacement what is outside the matches, and the *)
(* count is that of the replacements (eval.rs, string.gsub and             *)
(* gmatch_advance): for every subject and every pattern.                   *)
THEOREM GsubReplacesMatches == ShellSpec => []GsubKeepsTheRest
<1>1. ASSUME PatternInv PROVE Pattern!GsubKeepsTheRest
  <2>1. subject \in Seq(Char) /\ Pattern!IsPattern(pattern) /\ Len(subject) \in Nat
    BY <1>1, PatternGiven
  <2>2. ASSUME NEW n \in 0 .. Len(subject) + 1, NEW ms, ms = Pattern!FirstOnes(Pattern!Walk(subject, pattern), n)
        PROVE  /\ Pattern!Gsub(subject, pattern, "match", n) = [out |-> subject, count |-> Len(ms)]
               /\ Pattern!Gsub(subject, pattern, "none", n) = [out |-> subject, count |-> 0]
               /\ Pattern!Gsub(subject, pattern, "empty", n) =
                     [out |-> Pattern!Without(subject, ms), count |-> Len(ms)]
    <3>1. n \in Nat
      BY <2>1
    <3>2. \A repl : Pattern!Gsub(subject, pattern, repl, n) =
             [out |-> IF repl = "empty" THEN Pattern!Without(subject, ms) ELSE subject,
              count |-> IF repl = "none" THEN 0 ELSE Len(ms)]
      BY <2>1, <2>2, <3>1, GsubGives
    <3> QED  BY <3>2
  <2> QED  BY <2>2 DEF Pattern!GsubKeepsTheRest
<1>2. (part = "pattern" => PatternInv) => GsubKeepsTheRest
  BY <1>1 DEF GsubKeepsTheRest
<1> QED  BY <1>2, GmatchStaysInside, PTL
-----------------------------------------------------------------------------
(* Numbers *)

(* What a division is: the quotient and the rest, *)
LEMMA DivIs ==
    ASSUME NEW x \in Int, NEW y \in Nat, y > 0
    PROVE  /\ x \div y \in Int /\ x % y \in 0 .. y - 1 /\ x % y \in Nat
           /\ x = y * (x \div y) + (x % y)
<1>1. x \div y \in Int /\ x % y \in Int
  OBVIOUS
<1>2. 0 <= x % y /\ x % y < y
  OBVIOUS
<1>3. x = y * (x \div y) + (x % y)
  OBVIOUS
<1> QED  BY <1>1, <1>2, <1>3

(* and no others. *)
LEMMA DivOnly ==
    ASSUME NEW x \in Int, NEW y \in Nat, y > 0, NEW d \in Int, NEW r \in 0 .. y - 1, x = y * d + r
    PROVE  x \div y = d /\ x % y = r
<1> DEFINE e == x \div y
           s == x % y
<1>1. e \in Int /\ s \in 0 .. y - 1 /\ x = y * e + s
  BY DivIs
<1> HIDE DEF e, s
<1>2. y * (d - e) = s - r
  BY <1>1
<1>3. ~(d - e >= 1)
  <2> SUFFICES ASSUME d - e >= 1 PROVE FALSE
    OBVIOUS
  <2>1. y * (d - e) >= y
    BY <1>1
  <2> QED  BY <1>1, <1>2, <2>1
<1>4. ~(e - d >= 1)
  <2> SUFFICES ASSUME e - d >= 1 PROVE FALSE
    OBVIOUS
  <2>1. y * (e - d) >= y /\ y * (e - d) = r - s
    BY <1>1, <1>2
  <2> QED  BY <1>1, <2>1
<1>5. d = e
  BY <1>1, <1>3, <1>4
<1>6. r = s
  BY <1>1, <1>5
<1> QED  BY <1>5, <1>6 DEF e, s

(* A rest of a rest. *)
LEMMA RestOfRest ==
    ASSUME NEW x \in Int, NEW y \in Nat, y > 0, NEW z \in Nat, z > 0
    PROVE  /\ y * z \in Nat /\ y * z > 0
           /\ x % (y * z) = y * ((x \div y) % z) + (x % y)
           /\ (x % (y * z)) % y = x % y
<1> DEFINE d == x \div y
           r == x % y
           e == d \div z
           s == d % z
<1>1. d \in Int /\ r \in 0 .. y - 1 /\ r \in Int /\ x = y * d + r
  BY DivIs
<1>2. e \in Int /\ s \in 0 .. z - 1 /\ s \in Int /\ d = z * e + s
  BY <1>1, DivIs
<1> HIDE DEF d, r, e, s
<1>3. y * z \in Nat /\ y * z > 0
  OBVIOUS
<1>4. x = (y * z) * e + (y * s + r)
  BY <1>1, <1>2
<1>5. y * s + r \in 0 .. y * z - 1
  <2>1. y * s <= y * (z - 1) /\ y * s >= 0 /\ y * (z - 1) = y * z - y
    BY <1>2
  <2>2. y * s \in Int
    BY <1>2
  <2> QED  BY <1>1, <1>3, <2>1, <2>2
<1>6. x % (y * z) = y * s + r
  BY <1>2, <1>3, <1>4, <1>5, DivOnly
<1>7. (y * s + r) % y = r
  <2> DEFINE u == y * s + r
  <2>1. u \in Int /\ u = y * s + r
    BY <1>1, <1>2
  <2> HIDE DEF u
  <2>2. u % y = r
    BY <1>1, <1>2, <2>1, DivOnly
  <2> QED  BY <2>1, <2>2
<1> QED  BY <1>3, <1>6, <1>7 DEF d, r, s

(* A function that makes of each value the next is the one that goes up. *)
LEMMA UpIs ==
    ASSUME NEW n \in Nat, NEW D, NEW b \in D, NEW step \in StepsOf(n, D), NEW f,
           f = [k \in 0 .. n |-> f[k]], f[0] = b,
           \A k \in 1 .. n : f[k - 1] \in D => f[k] = step[k][f[k - 1]]
    PROVE  GoesUp(f, n, D, b, step)
<1> DEFINE G == {k \in 0 .. n : f[k] \in D}
<1>1. 0 \in G
  OBVIOUS
<1>2. ASSUME NEW k \in 1 .. n, k - 1 \in G PROVE k \in G
  <2>1. step[k] \in [D -> D] /\ f[k - 1] \in D /\ k \in 0 .. n
    BY <1>2 DEF StepsOf
  <2> QED  BY <2>1
<1> HIDE DEF G
<1>3. \A k \in 0 .. n : k \in G
  BY <1>1, <1>2, Up
<1>4. \A k \in 0 .. n : f[k] \in D
  BY <1>3 DEF G
<1>5. f \in [0 .. n -> D]
  BY <1>4
<1>6. \A k \in 1 .. n : f[k] = step[k][f[k - 1]]
  <2>1. \A k \in 1 .. n : k - 1 \in 0 .. n
    OBVIOUS
  <2> QED  BY <1>4, <2>1
<1> QED  BY <1>5, <1>6 DEF GoesUp

(* The powers of a byte's values. *)
LEMMA PowerIs ==
    /\ Pack!Power[0] = 1
    /\ \A k \in 1 .. 8 : Pack!Power[k] = Byte * Pack!Power[k - 1]
    /\ \A k \in 0 .. 8 : Pack!Power[k] \in Nat /\ Pack!Power[k] > 0
<1> DEFINE D == Nat \ {0}
           Line(f, k) == IF k = 0 THEN 1 ELSE Byte * f[k - 1]
           Is(f) == f = [k \in 0 .. 8 |-> Line(f, k)]
           W == CHOOSE f : Is(f)
           steps == [k \in 1 .. 8 |-> [d \in D |-> Byte * d]]
<1>1. Pack!Power = W
  BY Zenon DEF Pack!Power, Pack!WORD
<1>2. Byte \in Nat /\ Byte >= 2
  BY PackAssumption
<1>3. \A d \in D : Byte * d \in D
  BY <1>2
<1>4. \A k \in 1 .. 8 : \A d \in D : steps[k][d] = Byte * d
  OBVIOUS
<1>5. steps \in StepsOf(8, D) /\ 1 \in D
  BY <1>3 DEF StepsOf
<1> HIDE DEF D, steps, W
<1>6. PICK f : f \in [0 .. 8 -> D] /\ f[0] = 1 /\ \A k \in 1 .. 8 : f[k] = steps[k][f[k - 1]]
  <2>1. 8 \in Nat
    OBVIOUS
  <2>2. \E f : GoesUp(f, 8, D, 1, steps)
    BY <1>5, <2>1, StepsUp
  <2> QED  BY <2>2 DEF GoesUp
<1>7. ASSUME NEW k \in 0 .. 8 PROVE f[k] = Line(f, k)
  <2>1. CASE k = 0
    BY <1>6, <2>1
  <2>2. CASE k # 0
    <3>1. k \in 1 .. 8 /\ f[k - 1] \in D
      BY <1>6, <2>2
    <3> QED  BY <1>4, <1>6, <2>2, <3>1
  <2> QED  BY <2>1, <2>2
<1>8. Is(W)
  <2>1. Is(f)
    <3> HIDE DEF Line
    <3> QED  BY <1>6, <1>7
  <2> HIDE DEF Is
  <2> QED  BY <2>1 DEF W
<1>9. DOMAIN W = 0 .. 8 /\ \A k \in 0 .. 8 : W[k] = Line(W, k)
  <2> HIDE DEF Line
  <2> QED  BY <1>8
<1>10. W[0] = 1 /\ \A k \in 1 .. 8 : W[k] = Byte * W[k - 1]
  <2>1. \A k \in 1 .. 8 : k \in 0 .. 8 /\ k # 0
    OBVIOUS
  <2> QED  BY <1>9, <2>1
<1>11. GoesUp(W, 8, D, 1, steps)
  <2>1. W = [k \in 0 .. 8 |-> W[k]]
    <3> HIDE DEF Line
    <3> QED  BY <1>8
  <2>2. \A k \in 1 .. 8 : W[k - 1] \in D => W[k] = steps[k][W[k - 1]]
    BY <1>4, <1>10
  <2> HIDE DEF Is
  <2> QED  BY <1>5, <1>10, <2>1, <2>2, UpIs
<1> QED  BY <1>1, <1>10, <1>11 DEF GoesUp, D

(* The higher powers are multiples of the lower. *)
LEMMA PowerOver ==
    ASSUME NEW k \in 0 .. 8
    PROVE  \E z \in Nat : z > 0 /\ Pack!Power[8] = Pack!Power[k] * z
<1> DEFINE P(m) == Pack!Power[m]
           G == {m \in 0 .. 8 : \E z \in Nat : z > 0 /\ P(8) = P(8 - m) * z}
<1>1. 0 \in G
  <2>1. P(8) \in Nat
    BY PowerIs
  <2>2. 1 \in Nat /\ 1 > 0 /\ P(8) = P(8 - 0) * 1
    BY <2>1
  <2> HIDE DEF P
  <2>3. \E z \in Nat : z > 0 /\ P(8) = P(8 - 0) * z
    BY <2>2
  <2> QED  BY <2>3
<1>2. ASSUME NEW m \in 1 .. 8, m - 1 \in G PROVE m \in G
  <2>1. PICK z \in Nat : z > 0 /\ P(8) = P(8 - (m - 1)) * z
    BY <1>2
  <2>2. P(8 - (m - 1)) = Byte * P(8 - m) /\ P(8 - m) \in Nat /\ Byte \in Nat /\ Byte >= 2
    <3>1. 8 - (m - 1) \in 1 .. 8 /\ (8 - (m - 1)) - 1 = 8 - m /\ 8 - m \in 0 .. 8
      OBVIOUS
    <3> QED  BY <3>1, PowerIs, PackAssumption
  <2> HIDE DEF P
  <2>3. Byte * z \in Nat /\ Byte * z > 0
    BY <2>1, <2>2
  <2>4. P(8) = P(8 - m) * (Byte * z)
    BY <2>1, <2>2
  <2> QED  BY <2>3, <2>4
<1> HIDE DEF G
<1>3. \A m \in 0 .. 8 : m \in G
  <2>1. 8 \in Nat
    OBVIOUS
  <2> QED  BY <1>1, <1>2, <2>1, Up
<1>4. 8 - k \in G /\ 8 - (8 - k) = k
  BY <1>3
<1> QED  BY <1>4 DEF G

(* The bits two numbers share are bits of the second. *)
LEMMA AndIs ==
    ASSUME NEW x \in Nat, NEW m \in Nat
    PROVE  Pack!And(x, m) \in 0 .. m
<1> DEFINE Bit(a, k) == IF a % 2 = 1 /\ k % 2 = 1 THEN 1 ELSE 0
           Line(f, k) == [a \in 0 .. x |-> IF k = 0 THEN 0 ELSE 2 * f[k \div 2][a \div 2] + Bit(a, k)]
           Is(f, n) == f = [k \in 0 .. n |-> Line(f, k)]
           W == CHOOSE f : Is(f, m)
           G == {n \in 0 .. m : \E f : Is(f, n)}
<1>1. Pack!And(x, m) = W[m][x]
  BY Zenon DEF Pack!And
<1>2. \A n \in Nat : n > 0 => n \div 2 \in 0 .. n - 1 /\ n = 2 * (n \div 2) + (n % 2) /\ n % 2 \in 0 .. 1
  OBVIOUS
<1>3. 0 \in G
  <2> DEFINE f == [k \in 0 .. 0 |-> [a \in 0 .. x |-> 0]]
  <2>1. \A k \in 0 .. 0 : f[k] = Line(f, k)
    OBVIOUS
  <2>2. Is(f, 0)
    <3> HIDE DEF Line
    <3> QED  BY <2>1
  <2> HIDE DEF f
  <2>3. \E g : Is(g, 0)
    BY <2>2
  <2> HIDE DEF Is
  <2> QED  BY <2>3
<1>4. ASSUME NEW n \in 1 .. m, n - 1 \in G PROVE n \in G
  <2>1. PICK g : Is(g, n - 1)
    BY <1>4
  <2> DEFINE f == [k \in 0 .. n |-> IF k < n THEN g[k] ELSE Line(g, n)]
  <2>2. ASSUME NEW k \in 0 .. n PROVE Line(f, k) = Line(g, k)
    <3>1. CASE k = 0
      BY <3>1
    <3>2. CASE k # 0
      <4>1. k \div 2 \in 0 .. n /\ k \div 2 < n
        BY <1>2, <3>2
      <4>2. f[k \div 2] = g[k \div 2]
        <5> HIDE DEF Line
        <5> QED  BY <4>1
      <4> HIDE DEF f
      <4> QED  BY <4>2
    <3> QED  BY <3>1, <3>2
  <2>3. ASSUME NEW k \in 0 .. n PROVE f[k] = Line(g, k)
    <3>1. CASE k < n
      <4>1. k \in 0 .. n - 1
        BY <3>1
      <4>2. g[k] = Line(g, k)
        <5> HIDE DEF Line
        <5> QED  BY <2>1, <4>1
      <4>3. f[k] = g[k]
        <5> HIDE DEF Line
        <5> QED  BY <3>1
      <4> QED  BY <4>2, <4>3
    <3>2. CASE k = n
      <4> HIDE DEF Line
      <4> QED  BY <3>2
    <3> QED  BY <3>1, <3>2
  <2>4. \A k \in 0 .. n : f[k] = Line(f, k)
    <3> HIDE DEF Line, f
    <3> QED  BY <2>2, <2>3
  <2>5. f = [k \in 0 .. n |-> f[k]]
    <3> HIDE DEF Line
    <3> QED  OBVIOUS
  <2>6. Is(f, n)
    <3> HIDE DEF Line, f
    <3> QED  BY <2>4, <2>5
  <2> HIDE DEF f
  <2>7. \E h : Is(h, n)
    <3> HIDE DEF Is
    <3> QED  BY <2>6
  <2> HIDE DEF Is
  <2> QED  BY <2>7
<1>5. Is(W, m)
  <2> HIDE DEF G, W
  <2>1. \A n \in 0 .. m : n \in G
    BY <1>3, <1>4, Up
  <2>2. m \in G
    BY <2>1
  <2> HIDE DEF Is
  <2>3. \E f : Is(f, m)
    BY <2>2 DEF G
  <2> QED  BY <2>3 DEF W
<1> HIDE DEF W
<1>6. \A k \in 0 .. m : W[k] = Line(W, k)
  <2> HIDE DEF Line
  <2> QED  BY <1>5
<1> HIDE DEF G, Is
<1> DEFINE Bad == {k \in 0 .. m : \E a \in 0 .. x : W[k][a] \notin 0 .. k}
<1>7. Bad = {}
  <2> SUFFICES ASSUME Bad # {} PROVE FALSE
    OBVIOUS
  <2>1. PICK k \in Bad : \A l \in Bad : k <= l
    <3>1. Bad \subseteq Nat
      OBVIOUS
    <3> HIDE DEF Bad
    <3> QED  BY <3>1, Least
  <2>2. PICK a \in 0 .. x : W[k][a] \notin 0 .. k
    OBVIOUS
  <2>3. k \in 0 .. m /\ W[k][a] = IF k = 0 THEN 0 ELSE 2 * W[k \div 2][a \div 2] + Bit(a, k)
    BY <1>6
  <2>4. k # 0
    BY <2>2, <2>3
  <2>5. k \div 2 \in 0 .. k - 1 /\ k = 2 * (k \div 2) + (k % 2) /\ k % 2 \in 0 .. 1 /\ a \div 2 \in 0 .. x
    BY <1>2, <2>3, <2>4
  <2> DEFINE h == k \div 2
             b == W[h][a \div 2]
  <2>6. b \in 0 .. h
    <3>1. h \notin Bad
      <4>1. ~(k <= h)
        BY <2>3, <2>5
      <4> HIDE DEF Bad, h
      <4> QED  BY <2>1, <4>1
    <3>2. h \in 0 .. m
      BY <2>3, <2>5
    <3> HIDE DEF h
    <3> QED  BY <2>5, <3>1, <3>2
  <2>7. Bit(a, k) \in 0 .. 1 /\ Bit(a, k) <= k % 2
    BY <2>5
  <2>8. W[k][a] = 2 * b + Bit(a, k) /\ k = 2 * h + (k % 2)
    BY <2>3, <2>4, <2>5
  <2> HIDE DEF Bit, b, h, Bad
  <2> DEFINE bit == Bit(a, k)
             low == k % 2
  <2>9. W[k][a] = 2 * b + bit /\ k = 2 * h + low /\ bit \in 0 .. 1 /\ bit <= low /\ low \in 0 .. 1 /\ h \in Nat
    BY <2>3, <2>5, <2>7, <2>8 DEF h
  <2> HIDE DEF bit, low
  <2> QED  BY <2>2, <2>3, <2>6, <2>9
<1>8. m \in 0 .. m /\ x \in 0 .. x
  OBVIOUS
<1> QED  BY <1>1, <1>7, <1>8

-----------------------------------------------------------------------------
(* Integers as bytes *)

\* What is left of a number behind each byte, and its bytes.
RestsOf(R, n, x) == R \in [0 .. n -> Nat] /\ R[0] = x /\ \A k \in 1 .. n : R[k] = R[k - 1] \div Byte
BytesOf(R, n) == [k \in 1 .. n |-> R[k - 1] % Byte]

(* write_int writes the bytes of the 64-bit value. *)
LEMMA WriteIs ==
    ASSUME NEW v \in Int, NEW n \in Nat, NEW le
    PROVE  \E R : /\ RestsOf(R, n, v % Pack!Power[8])
                  /\ Pack!WriteInt(v, n, le) = Pack!InOrder(BytesOf(R, n), le)
<1> DEFINE x == v % Pack!Power[8]
           Line(f, k) == IF k = 0 THEN x ELSE f[k - 1] \div Byte
           Is(f) == f = [k \in 0 .. n |-> Line(f, k)]
           W == CHOOSE f : Is(f)
           steps == [k \in 1 .. n |-> [d \in Nat |-> d \div Byte]]
<1>1. Pack!WriteInt(v, n, le) = Pack!InOrder(BytesOf(W, n), le)
  BY Zenon DEF Pack!WriteInt, Pack!WORD, BytesOf
<1>2. Byte \in Nat /\ Byte >= 2
  BY PackAssumption
<1>3. \A d \in Nat : d \div Byte \in Nat
  BY <1>2
<1>4. \A k \in 1 .. n : \A d \in Nat : steps[k][d] = d \div Byte
  OBVIOUS
<1>5. steps \in StepsOf(n, Nat) /\ x \in Nat
  <2>1. steps \in StepsOf(n, Nat)
    BY <1>3 DEF StepsOf
  <2>2. Pack!Power[8] \in Nat /\ Pack!Power[8] > 0
    BY PowerIs
  <2> QED  BY <2>1, <2>2
<1> HIDE DEF x, steps, W
<1>6. PICK f : f \in [0 .. n -> Nat] /\ f[0] = x /\ \A k \in 1 .. n : f[k] = steps[k][f[k - 1]]
  <2>1. \E f : GoesUp(f, n, Nat, x, steps)
    BY <1>5, StepsUp
  <2> QED  BY <2>1 DEF GoesUp
<1>7. ASSUME NEW k \in 0 .. n PROVE f[k] = Line(f, k)
  <2>1. CASE k = 0
    BY <1>6, <2>1
  <2>2. CASE k # 0
    <3>1. k \in 1 .. n /\ f[k - 1] \in Nat
      BY <1>6, <2>2
    <3> QED  BY <1>4, <1>6, <2>2, <3>1
  <2> QED  BY <2>1, <2>2
<1>8. Is(W)
  <2>1. Is(f)
    <3> HIDE DEF Line
    <3> QED  BY <1>6, <1>7
  <2> HIDE DEF Is
  <2> QED  BY <2>1 DEF W
<1>9. W = [k \in 0 .. n |-> W[k]] /\ \A k \in 0 .. n : W[k] = Line(W, k)
  <2> HIDE DEF Line
  <2> QED  BY <1>8
<1>10. W[0] = x /\ \A k \in 1 .. n : W[k] = W[k - 1] \div Byte
  <2>1. 0 \in 0 .. n /\ \A k \in 1 .. n : k \in 0 .. n /\ k # 0
    OBVIOUS
  <2> QED  BY <1>9, <2>1
<1>11. GoesUp(W, n, Nat, x, steps)
  <2>1. \A k \in 1 .. n : W[k - 1] \in Nat => W[k] = steps[k][W[k - 1]]
    BY <1>4, <1>10
  <2> HIDE DEF Is, Line
  <2> QED  BY <1>5, <1>9, <1>10, <2>1, UpIs
<1>12. RestsOf(W, n, x)
  BY <1>10, <1>11 DEF GoesUp, RestsOf
<1> QED  BY <1>1, <1>12 DEF x

(* The value of a word is that of its digits, from the highest on. *)
LEMMA WordIs ==
    ASSUME NEW bytes, \A k \in 1 .. 8 : Pack!Digit(bytes, k) \in Nat
    PROVE  \E H : /\ H \in [0 .. 8 -> Nat] /\ H[0] = 0 /\ Pack!Word(bytes) = H[8]
                  /\ \A k \in 1 .. 8 : H[k] = Byte * H[k - 1] + Pack!Digit(bytes, 9 - k)
<1> DEFINE Line(f, k) == IF k = 0 THEN 0 ELSE Byte * f[k - 1] + Pack!Digit(bytes, 8 + 1 - k)
           Is(f) == f = [k \in 0 .. 8 |-> Line(f, k)]
           W == CHOOSE f : Is(f)
           steps == [k \in 1 .. 8 |-> [d \in Nat |-> Byte * d + Pack!Digit(bytes, 9 - k)]]
<1>1. Pack!Word(bytes) = W[8]
  BY Zenon DEF Pack!Word, Pack!WORD
<1>2. Byte \in Nat /\ 8 \in Nat
  BY PackAssumption
<1>3. \A k \in 1 .. 8 : \A d \in Nat : Byte * d + Pack!Digit(bytes, 9 - k) \in Nat
  <2>1. \A k \in 1 .. 8 : 9 - k \in 1 .. 8
    OBVIOUS
  <2>2. \A d \in Nat : Byte * d \in Nat
    BY <1>2
  <2> QED  BY <2>1, <2>2
<1>4. \A k \in 1 .. 8 : \A d \in Nat : steps[k][d] = Byte * d + Pack!Digit(bytes, 9 - k)
  OBVIOUS
<1>5. steps \in StepsOf(8, Nat)
  BY <1>3 DEF StepsOf
<1> HIDE DEF steps, W
<1>6. PICK f : f \in [0 .. 8 -> Nat] /\ f[0] = 0 /\ \A k \in 1 .. 8 : f[k] = steps[k][f[k - 1]]
  <2>1. \E f : GoesUp(f, 8, Nat, 0, steps)
    BY <1>2, <1>5, StepsUp
  <2> QED  BY <2>1 DEF GoesUp
<1>7. ASSUME NEW k \in 0 .. 8 PROVE f[k] = Line(f, k)
  <2>1. CASE k = 0
    BY <1>6, <2>1
  <2>2. CASE k # 0
    <3>1. k \in 1 .. 8 /\ f[k - 1] \in Nat /\ 8 + 1 - k = 9 - k
      BY <1>6, <2>2
    <3> QED  BY <1>4, <1>6, <2>2, <3>1
  <2> QED  BY <2>1, <2>2
<1>8. Is(W)
  <2>1. Is(f)
    <3> HIDE DEF Line
    <3> QED  BY <1>6, <1>7
  <2> HIDE DEF Is
  <2> QED  BY <2>1 DEF W
<1>9. W = [k \in 0 .. 8 |-> W[k]] /\ \A k \in 0 .. 8 : W[k] = Line(W, k)
  <2> HIDE DEF Line
  <2> QED  BY <1>8
<1>10. W[0] = 0 /\ \A k \in 1 .. 8 : W[k] = Byte * W[k - 1] + Pack!Digit(bytes, 9 - k)
  <2>1. \A k \in 1 .. 8 : k \in 0 .. 8 /\ k # 0 /\ 8 + 1 - k = 9 - k
    OBVIOUS
  <2> QED  BY <1>9, <2>1
<1>11. GoesUp(W, 8, Nat, 0, steps)
  <2>1. \A k \in 1 .. 8 : W[k - 1] \in Nat => W[k] = steps[k][W[k - 1]]
    BY <1>4, <1>10
  <2> HIDE DEF Is, Line
  <2> QED  BY <1>2, <1>5, <1>9, <1>10, <2>1, UpIs
<1> QED  BY <1>1, <1>10, <1>11 DEF GoesUp

(* Behind the k-th byte there is room for the others. *)
LEMMA RestsSmall ==
    ASSUME NEW n \in Nat, NEW x \in Nat, x < Pack!Power[8], NEW R, RestsOf(R, n, x)
    PROVE  \A k \in 0 .. n : R[k] < Pack!Power[IF k <= 8 THEN 8 - k ELSE 0]
<1> DEFINE P(k) == Pack!Power[IF k <= 8 THEN 8 - k ELSE 0]
           G == {k \in 0 .. n : R[k] < P(k)}
<1>1. 0 \in G
  BY DEF RestsOf
<1>2. ASSUME NEW k \in 1 .. n, k - 1 \in G PROVE k \in G
  <2>1. R[k - 1] \in Nat /\ R[k - 1] < P(k - 1) /\ R[k] = R[k - 1] \div Byte /\ R[k] \in Nat
    BY <1>2 DEF RestsOf
  <2>2. P(k - 1) <= Byte * P(k) /\ P(k) \in Nat /\ Byte \in Nat /\ Byte >= 2 /\ Byte * P(k) \in Nat /\ P(k - 1) \in Nat
    <3>1. Byte \in Nat /\ Byte >= 2
      BY PackAssumption
    <3>2. CASE k <= 8
      <4>1. k - 1 <= 8 /\ 8 - (k - 1) \in 1 .. 8 /\ (8 - (k - 1)) - 1 = 8 - k /\ 8 - k \in 0 .. 8
        BY <3>2
      <4>2. P(k - 1) = Pack!Power[8 - (k - 1)] /\ P(k) = Pack!Power[8 - k]
        BY <3>2, <4>1
      <4>3. P(k - 1) = Byte * P(k) /\ P(k) \in Nat
        BY <4>1, <4>2, PowerIs
      <4> HIDE DEF P
      <4> QED  BY <3>1, <4>3
    <3>3. CASE ~(k <= 8)
      <4>1. P(k) = 1 /\ P(k - 1) = 1
        <5>1. P(k) = Pack!Power[0] /\ P(k - 1) = Pack!Power[0]
          BY <3>3
        <5> QED  BY <5>1, PowerIs
      <4> HIDE DEF P
      <4> QED  BY <3>1, <4>1
    <3> QED  BY <3>2, <3>3
  <2> HIDE DEF P
  <2>3. R[k - 1] = Byte * R[k] + (R[k - 1] % Byte) /\ R[k - 1] % Byte \in Nat
    BY <2>1, <2>2, DivIs
  <2>4. R[k] < P(k)
    <3> SUFFICES ASSUME R[k] >= P(k) PROVE FALSE
      BY <2>1, <2>2
    <3> DEFINE a == R[k]
               p == P(k)
               c == R[k - 1]
               r == R[k - 1] % Byte
    <3>1. a \in Nat /\ p \in Nat /\ a >= p /\ c = Byte * a + r /\ r \in Nat /\ c < Byte * p
      BY <2>1, <2>2, <2>3
    <3> HIDE DEF a, p, c, r
    <3>2. Byte * a >= Byte * p
      BY <2>2, <3>1
    <3>3. Byte * a \in Nat /\ Byte * p \in Nat
      BY <2>2, <3>1
    <3> QED  BY <3>1, <3>2, <3>3
  <2> QED  BY <2>4
<1> HIDE DEF G
<1>3. \A k \in 0 .. n : k \in G
  BY <1>1, <1>2, Up
<1> QED  BY <1>3 DEF G

(* A written number has its bytes as digits, and zeros past the eighth.     *)
LEMMA DigitsAre ==
    ASSUME NEW n \in 1 .. 16, NEW x \in Nat, x < Pack!Power[8], NEW R, RestsOf(R, n, x), NEW k \in 1 .. 8
    PROVE  Pack!Digit(BytesOf(R, n), k) = IF k <= n THEN R[k - 1] % Byte ELSE 0
<1> DEFINE b == BytesOf(R, n)
<1>1. n \in Nat /\ Byte \in Nat /\ Byte >= 2
  BY PackAssumption
<1>2. Len(b) = n /\ \A j \in 1 .. n : b[j] = R[j - 1] % Byte
  BY <1>1 DEF BytesOf
<1>3. Pack!Digit(b, k) = IF k > n THEN 0 ELSE IF k + 8 > n THEN b[k] ELSE Pack!Or(b[k], b[k + 8])
  BY <1>2 DEF Pack!Digit, Pack!WORD
<1> HIDE DEF b
<1>4. ASSUME k + 8 <= n PROVE Pack!Or(b[k], b[k + 8]) = R[k - 1] % Byte
  <2>1. k + 8 \in 1 .. n /\ (k + 8) - 1 = k + 7 /\ k + 7 \in 0 .. n /\ k \in 1 .. n /\ k - 1 \in 0 .. n
    BY <1>1, <1>4
  <2>2. R[k + 7] < 1 /\ R[k + 7] \in Nat
    <3>1. (IF k + 7 <= 8 THEN 8 - (k + 7) ELSE 0) = 0
      OBVIOUS
    <3>2. R[k + 7] < Pack!Power[IF k + 7 <= 8 THEN 8 - (k + 7) ELSE 0]
      BY <1>1, <2>1, RestsSmall
    <3> QED  BY <2>1, <3>1, <3>2, PowerIs DEF RestsOf
  <2>3. b[k + 8] = 0
    <3>1. R[k + 7] = 0 /\ 0 % Byte = 0
      BY <1>1, <2>2
    <3> QED  BY <1>2, <2>1, <3>1
  <2>4. b[k] \in Nat /\ b[k] = R[k - 1] % Byte
    <3>1. R[k - 1] \in Nat
      BY <2>1 DEF RestsOf
    <3> QED  BY <1>1, <1>2, <2>1, <3>1, DivIs, SMTT(30)
  <2>5. Pack!And(b[k], 0) = 0
    BY <2>4, AndIs
  <2> QED  BY <2>3, <2>4, <2>5 DEF Pack!Or
<1>5. CASE k > n
  BY <1>1, <1>3, <1>5 DEF b
<1>6. CASE k <= n /\ k + 8 > n
  BY <1>1, <1>2, <1>3, <1>6 DEF b
<1>7. CASE k + 8 <= n
  BY <1>1, <1>3, <1>4, <1>7 DEF b
<1> QED  BY <1>1, <1>5, <1>6, <1>7

(* The bytes of a number have the number for their value, as far as they go. *)
LEMMA ValueIs ==
    ASSUME NEW n \in 1 .. 16, NEW x \in Nat, x < Pack!Power[8], NEW R, RestsOf(R, n, x)
    PROVE  Pack!Word(BytesOf(R, n)) = x % Pack!Power[Pack!Smaller(n, 8)]
<1> DEFINE b == BytesOf(R, n)
           m == Pack!Smaller(n, 8)
           D(k) == Pack!Digit(b, k)
<1>1. n \in Nat /\ Byte \in Nat /\ Byte >= 2 /\ Byte > 0
  BY PackAssumption
<1>2. m \in 1 .. 8 /\ m <= n /\ (m = n \/ m = 8)
  BY DEF Pack!Smaller
<1>3. \A k \in 1 .. 8 : D(k) = IF k <= n THEN R[k - 1] % Byte ELSE 0
  BY DigitsAre
<1>4. \A k \in 1 .. n : R[k - 1] \in Nat /\ R[k] \in Nat /\ R[k] = R[k - 1] \div Byte
  BY DEF RestsOf
<1>5. \A k \in 1 .. 8 : D(k) \in Nat
  <2>1. \A k \in 1 .. n : R[k - 1] % Byte \in Nat
    BY <1>1, <1>4, DivIs
  <2>2. ASSUME NEW k \in 1 .. 8 PROVE D(k) \in Nat
    <3>1. k <= n => k \in 1 .. n
      BY <1>1
    <3>2. D(k) = IF k <= n THEN R[k - 1] % Byte ELSE 0
      BY <1>3
    <3> HIDE DEF D
    <3> QED  BY <2>1, <3>1, <3>2
  <2> QED  BY <2>2
<1>6. PICK H : /\ H \in [0 .. 8 -> Nat] /\ H[0] = 0 /\ Pack!Word(b) = H[8]
               /\ \A k \in 1 .. 8 : H[k] = Byte * H[k - 1] + D(9 - k)
  <2> HIDE DEF b
  <2> QED  BY <1>5, WordIs
<1> HIDE DEF b, D, m
\* What the digits behind the j-th make.
<1> DEFINE Low(j) == IF j <= m THEN R[j] % Pack!Power[m - j] ELSE 0
           G == {k \in 0 .. 8 : H[k] = Low(8 - k)}
<1>7. R[8] = 0 \/ m < 8
  <2> SUFFICES ASSUME ~(m < 8) PROVE R[8] = 0
    OBVIOUS
  <2>1. m = 8 /\ 8 \in 0 .. n
    BY <1>1, <1>2
  <2>2. R[8] < Pack!Power[0] /\ R[8] \in Nat
    <3>1. R[8] < Pack!Power[IF 8 <= 8 THEN 8 - 8 ELSE 0]
      BY <1>1, <2>1, RestsSmall
    <3> QED  BY <2>1, <3>1 DEF RestsOf
  <2> QED  BY <2>2, PowerIs
<1>8. 0 \in G
  <2>1. CASE m < 8
    BY <1>2, <1>6, <2>1
  <2>2. CASE R[8] = 0 /\ ~(m < 8)
    <3>1. m = 8 /\ Low(8 - 0) = R[8] % Pack!Power[0]
      BY <1>2, <2>2
    <3>2. R[8] % Pack!Power[0] = 0
      BY <2>2, PowerIs
    <3> QED  BY <1>6, <3>1, <3>2
  <2> QED  BY <1>7, <2>1, <2>2
<1>9. ASSUME NEW k \in 1 .. 8, k - 1 \in G PROVE k \in G
  <2> DEFINE j == 8 - k
  <2>1. j \in 0 .. 7 /\ 8 - (k - 1) = j + 1 /\ 9 - k = j + 1 /\ j + 1 \in 1 .. 8 /\ (j + 1) - 1 = j
    OBVIOUS
  <2>2. H[k - 1] = Low(j + 1) /\ H[k] = Byte * H[k - 1] + D(j + 1)
    BY <1>6, <1>9, <2>1
  <2>3. CASE j < m
    <3>1. j + 1 \in 1 .. n /\ j + 1 <= m
      BY <1>1, <1>2, <2>1, <2>3
    <3>2. R[j] \in Nat /\ R[j + 1] = R[j] \div Byte /\ D(j + 1) = R[j] % Byte
      <4>1. R[(j + 1) - 1] \in Nat /\ R[j + 1] = R[(j + 1) - 1] \div Byte
        BY <1>4, <3>1
      <4>2. D(j + 1) = IF j + 1 <= n THEN R[(j + 1) - 1] % Byte ELSE 0
        BY <1>3, <2>1
      <4> HIDE DEF j
      <4> QED  BY <2>1, <3>1, <4>1, <4>2
    <3> DEFINE p == Pack!Power[m - (j + 1)]
    <3>3. p \in Nat /\ p > 0 /\ Pack!Power[m - j] = Byte * p
      <4>1. m - j \in 1 .. 8 /\ (m - j) - 1 = m - (j + 1) /\ m - (j + 1) \in 0 .. 8
        BY <1>2, <2>1, <3>1
      <4> QED  BY <4>1, PowerIs
    <3>4. Low(j + 1) = (R[j] \div Byte) % p /\ Low(j) = R[j] % (Byte * p)
      <4>1. Low(j + 1) = R[j + 1] % p /\ Low(j) = R[j] % Pack!Power[m - j]
        <5>1. j <= m /\ j + 1 <= m
          BY <1>2, <2>1, <2>3, <3>1
        <5> HIDE DEF j
        <5> QED  BY <5>1
      <4> HIDE DEF p, Low, j
      <4> QED  BY <3>2, <3>3, <4>1
    <3> HIDE DEF p, Low, j
    <3>5. R[j] % (Byte * p) = Byte * ((R[j] \div Byte) % p) + (R[j] % Byte)
      <4>1. R[j] \in Int
        BY <3>2
      <4> QED  BY <1>1, <3>3, <4>1, RestOfRest
    <3>6. H[k] = Low(j)
      BY <2>2, <3>2, <3>4, <3>5
    <3> QED  BY <3>6 DEF j
  <2>4. CASE j >= m
    <3>1. m = n /\ ~(j + 1 <= n) /\ ~(j + 1 <= m)
      BY <1>1, <1>2, <2>1, <2>4
    <3>2. D(j + 1) = 0
      BY <1>3, <2>1, <3>1
    <3>3. Low(j + 1) = 0
      BY <3>1
    <3>4. Low(j) = 0
      <4>1. CASE j > m
        BY <1>2, <2>1, <4>1
      <4>2. CASE j = m
        <5>1. Low(j) = R[m] % Pack!Power[0] /\ R[m] \in Nat
          BY <1>2, <1>4, <4>2
        <5>2. Low(j) = R[m] % 1
          <6> HIDE DEF Low
          <6> QED  BY <5>1, PowerIs
        <5>3. R[m] % 1 = 0
          BY <5>1
        <5> HIDE DEF Low
        <5> QED  BY <5>2, <5>3
      <4> QED  BY <1>2, <2>1, <2>4, <4>1, <4>2
    <3>5. H[k] = 0
      <4> HIDE DEF Low, j
      <4> QED  BY <1>1, <2>2, <3>2, <3>3
    <3> QED  BY <3>4, <3>5
  <2> QED  BY <1>2, <2>1, <2>3, <2>4
<1> HIDE DEF G
<1>10. \A k \in 0 .. 8 : k \in G
  <2>1. 8 \in Nat
    OBVIOUS
  <2> QED  BY <1>8, <1>9, <2>1, Up
<1>11. H[8] = Low(8 - 8)
  BY <1>10 DEF G
<1>12. Low(8 - 8) = x % Pack!Power[m]
  <2>1. R[0] = x /\ 8 - 8 = 0 /\ 0 <= m /\ m - 0 = m
    BY <1>2 DEF RestsOf
  <2> QED  BY <2>1
<1> HIDE DEF Low
<1> QED  BY <1>6, <1>11, <1>12 DEF b, m

(* Turned around twice, or not at all, the bytes are as they were. *)
LEMMA InOrderIs ==
    ASSUME NEW S, NEW b \in Seq(S), NEW le
    PROVE  /\ Pack!InOrder(b, le) \in Seq(S) /\ Len(Pack!InOrder(b, le)) = Len(b)
           /\ Pack!InOrder(Pack!InOrder(b, le), le) = b
<1> DEFINE n == Len(b)
           c == Pack!InOrder(b, le)
<1>1. CASE le
  BY <1>1 DEF Pack!InOrder
<1>2. CASE ~le
  <2>1. n \in Nat /\ DOMAIN b = 1 .. n /\ \A k \in 1 .. n : n + 1 - k \in 1 .. n /\ n + 1 - (n + 1 - k) = k
    OBVIOUS
  <2>2. c = [k \in 1 .. n |-> b[n + 1 - k]]
    BY <1>2, <2>1 DEF Pack!InOrder
  <2> HIDE DEF n, c
  <2>3. c \in [1 .. n -> S]
    <3>1. \A k \in 1 .. n : b[n + 1 - k] \in S
      BY <2>1
    <3> QED  BY <2>2, <3>1
  <2>4. c \in Seq(S) /\ Len(c) = n
    BY <2>1, <2>3
  <2>5. Pack!InOrder(c, le) = [k \in 1 .. n |-> c[n + 1 - k]]
    <3>1. DOMAIN c = 1 .. n
      BY <2>2
    <3> QED  BY <1>2, <2>4, <3>1 DEF Pack!InOrder
  <2>6. \A k \in 1 .. n : c[n + 1 - k] = b[k]
    BY <2>1, <2>2
  <2>7. b = [k \in 1 .. n |-> b[k]]
    BY <2>1
  <2>8. Pack!InOrder(c, le) = b
    BY <2>5, <2>6, <2>7
  <2> QED  BY <2>4, <2>8 DEF c, n
<1> QED  BY <1>1, <1>2

(* The bytes write_int writes, and the value they have. *)
LEMMA WrittenIs ==
    ASSUME NEW v \in Int, NEW n \in 1 .. 16, NEW le
    PROVE  LET b == Pack!WriteInt(v, n, le)
               low == v % Pack!Power[8]
           IN /\ b \in Seq(0 .. Byte - 1) /\ Len(b) = n
              /\ Len(Pack!InOrder(b, le)) = n
              /\ Pack!Word(Pack!InOrder(b, le)) = low % Pack!Power[Pack!Smaller(n, 8)]
<1> DEFINE b == Pack!WriteInt(v, n, le)
           low == v % Pack!Power[8]
<1>1. n \in Nat /\ Byte \in Nat /\ Byte >= 2 /\ Byte > 0
  BY PackAssumption
<1>2. low \in Nat /\ low < Pack!Power[8]
  <2>1. Pack!Power[8] \in Nat /\ Pack!Power[8] > 0
    BY PowerIs
  <2>2. low \in 0 .. Pack!Power[8] - 1
    BY <2>1, DivIs
  <2> QED  BY <2>1, <2>2
<1>3. PICK R : RestsOf(R, n, low) /\ b = Pack!InOrder(BytesOf(R, n), le)
  BY <1>1, WriteIs
<1> DEFINE c == BytesOf(R, n)
<1>4. c \in Seq(0 .. Byte - 1) /\ Len(c) = n
  <2>1. \A k \in 1 .. n : R[k - 1] % Byte \in 0 .. Byte - 1
    <3>1. \A k \in 1 .. n : R[k - 1] \in Nat
      BY <1>3 DEF RestsOf
    <3> QED  BY <1>1, <3>1, DivIs
  <2> QED  BY <1>1, <2>1 DEF BytesOf
<1>5. Pack!Word(c) = low % Pack!Power[Pack!Smaller(n, 8)]
  BY <1>2, <1>3, ValueIs
<1> HIDE DEF c, low, b
<1>6. b = Pack!InOrder(c, le)
  BY <1>3 DEF c
<1>7. /\ b \in Seq(0 .. Byte - 1) /\ Len(b) = n /\ Pack!InOrder(b, le) = c
  BY <1>4, <1>6, InOrderIs
<1> QED  BY <1>4, <1>5, <1>7 DEF b, low

\* The integers that are packed.
IsInt64(v) == v \in Int /\ -Pack!Power[8] <= 2 * v /\ 2 * v < Pack!Power[8]

(* read_int gives the integer back that write_int wrote, as far as it went. *)
LEMMA ReadIs ==
    ASSUME NEW v, IsInt64(v), NEW n \in 1 .. 16, NEW le, NEW o, o.k = "int", o.n = n
    PROVE  Pack!ReadInt(Pack!InOrder(Pack!WriteInt(v, n, le), le), o.signed) = Pack!Kept(o, v)
<1> DEFINE c == Pack!InOrder(Pack!WriteInt(v, n, le), le)
           P8 == Pack!Power[8]
           low == v % P8
<1>1. v \in Int /\ -P8 <= 2 * v /\ 2 * v < P8
  BY DEF IsInt64
<1>2. Len(c) = n /\ Pack!Word(c) = low % Pack!Power[Pack!Smaller(n, 8)]
  <2>1. v \in Int
    BY <1>1
  <2>2. /\ Len(Pack!InOrder(Pack!WriteInt(v, n, le), le)) = n
        /\ Pack!Word(Pack!InOrder(Pack!WriteInt(v, n, le), le)) = (v % Pack!Power[8]) % Pack!Power[Pack!Smaller(n, 8)]
    BY <2>1, WrittenIs, Zenon
  <2> QED  BY <2>2, Zenon
<1> HIDE DEF c
<1>3. P8 \in Nat /\ P8 > 0 /\ low \in 0 .. P8 - 1
  <2>1. P8 \in Nat /\ P8 > 0
    BY PowerIs
  <2> HIDE DEF P8
  <2> QED  BY <1>1, <2>1, DivIs
<1> HIDE DEF P8
<1>4. CASE n < 8
  <2> DEFINE P == Pack!Power[n]
             w == v % P
  <2>1. P \in Nat /\ P > 0
    <3>1. n \in 0 .. 8
      BY <1>4
    <3> QED  BY <3>1, PowerIs
  <2>2. PICK z \in Nat : z > 0 /\ P8 = P * z
    BY <1>4, PowerOver DEF P8
  <2>3. low % P = w /\ w \in 0 .. P - 1
    <3> HIDE DEF P
    <3>1. low % P = v % P
      BY <1>1, <2>1, <2>2, RestOfRest
    <3>2. v % P \in 0 .. P - 1
      BY <1>1, <2>1, DivIs
    <3> QED  BY <3>1, <3>2
  <2>4. Pack!Word(c) = w
    <3>1. Pack!Smaller(n, 8) = n
      BY <1>4 DEF Pack!Smaller
    <3> HIDE DEF w, low
    <3> QED  BY <1>2, <2>3, <3>1
  <2>5. P8 >= 2 * P
    <3>1. PICK y \in Nat : y > 0 /\ P8 = Pack!Power[n + 1] * y
      <4>1. n + 1 \in 0 .. 8
        BY <1>4
      <4> QED  BY <4>1, PowerOver DEF P8
    <3>2. Pack!Power[n + 1] = Byte * P
      <4>1. n + 1 \in 1 .. 8 /\ (n + 1) - 1 = n
        BY <1>4
      <4> QED  BY <4>1, PowerIs
    <3>3. Byte \in Nat /\ Byte >= 2
      BY PackAssumption
    <3> DEFINE q == Byte * P
    <3>4. q >= 2 * P /\ q \in Nat
      <4> HIDE DEF P
      <4> QED  BY <2>1, <3>3
    <3>5. q * y >= q
      <4> HIDE DEF q
      <4> QED  BY <3>1, <3>4
    <3>6. P8 = q * y
      BY <3>1, <3>2
    <3> HIDE DEF q, P
    <3> QED  BY <1>3, <2>1, <3>4, <3>5, <3>6
  <2> HIDE DEF w, low
  <2>6. Pack!ReadInt(c, o.signed) = IF o.signed /\ 2 * w >= P THEN w - P ELSE w
    <3>1. Pack!ReadInt(c, o.signed) = IF o.signed /\ 2 * w >= P THEN w - P ELSE Pack!Signed(w)
      BY <1>2, <1>4, <2>4 DEF Pack!ReadInt, Pack!WORD
    <3>2. Pack!Signed(w) = w
      <4>1. ~(2 * w >= P8)
        <5> HIDE DEF P
        <5> QED  BY <1>3, <2>1, <2>3, <2>5
      <4> QED  BY <4>1 DEF Pack!Signed, Pack!WORD, P8
    <3> QED  BY <3>1, <3>2
  <2>7. Pack!Kept(o, v) = IF o.signed /\ 2 * w >= P THEN w - P ELSE w
    BY <1>4 DEF Pack!Kept, Pack!WORD, w
  <2> QED  BY <2>6, <2>7 DEF c
<1>5. CASE ~(n < 8)
  <2>1. Pack!Smaller(n, 8) = 8
    BY <1>5 DEF Pack!Smaller
  <2>2. low % P8 = low
    <3> HIDE DEF low
    <3>1. low \in Int /\ low = P8 * 0 + low
      BY <1>3
    <3> QED  BY <1>3, <3>1, DivOnly
  <2>3. Pack!Word(c) = low
    BY <1>2, <2>1, <2>2 DEF P8
  <2>4. Pack!ReadInt(c, o.signed) = Pack!Signed(low)
    BY <1>2, <1>5, <2>3 DEF Pack!ReadInt, Pack!WORD
  <2>5. Pack!Signed(low) = v
    <3>1. v >= 0 => low = v
      <4> SUFFICES ASSUME v >= 0 PROVE low = v
        OBVIOUS
      <4>1. v \in 0 .. P8 - 1 /\ v = P8 * 0 + v
        BY <1>1, <1>3
      <4> QED  BY <1>1, <1>3, <4>1, DivOnly
    <3>2. v < 0 => low = v + P8
      <4> SUFFICES ASSUME v < 0 PROVE low = v + P8
        OBVIOUS
      <4>1. v + P8 \in 0 .. P8 - 1 /\ v = P8 * (-1) + (v + P8) /\ -1 \in Int
        BY <1>1, <1>3
      <4> QED  BY <1>1, <1>3, <4>1, DivOnly
    <3>3. Pack!Signed(low) = IF 2 * low >= P8 THEN low - P8 ELSE low
      BY DEF Pack!Signed, Pack!WORD, P8
    <3> HIDE DEF low
    <3> QED  BY <1>1, <1>3, <3>1, <3>2, <3>3
  <2>6. Pack!Kept(o, v) = v
    BY <1>5 DEF Pack!Kept, Pack!WORD
  <2> QED  BY <2>4, <2>5, <2>6 DEF c
<1> QED  BY <1>4, <1>5

(* The prefix of a text says its length. *)
LEMMA PrefixIs ==
    ASSUME NEW len \in Nat, NEW n \in 1 .. 16, NEW le, len < Pack!Power[Pack!Smaller(n, 8)]
    PROVE  Pack!Word(Pack!InOrder(Pack!WriteInt(len, n, le), le)) = len
<1> DEFINE m == Pack!Smaller(n, 8)
           P == Pack!Power[m]
           P8 == Pack!Power[8]
<1>1. m \in 1 .. 8
  BY DEF Pack!Smaller
<1>2. P \in Nat /\ P > 0 /\ P8 \in Nat /\ P8 > 0
  BY <1>1, PowerIs
<1>3. PICK z \in Nat : z > 0 /\ P8 = P * z
  BY <1>1, PowerOver
<1>4. Pack!Word(Pack!InOrder(Pack!WriteInt(len, n, le), le)) = (len % P8) % P
  BY WrittenIs
<1>5. len < P
  OBVIOUS
<1> HIDE DEF P, P8
<1>6. len \in 0 .. P - 1 /\ len = P * 0 + len
  BY <1>2, <1>5
<1>7. len % P = len
  BY <1>2, <1>6, DivOnly
<1>8. (len % P8) % P = len % P
  BY <1>2, <1>3, RestOfRest
<1> QED  BY <1>4, <1>7, <1>8

-----------------------------------------------------------------------------
(* Fields *)

IsOption(o) == o \in Pack!Option /\ (o.k \in {"int", "num", "s"} => o.n \in 1 .. 16)

(* Alignment never goes back. *)
LEMMA AlignIs ==
    ASSUME NEW p \in Nat, NEW size \in Nat, NEW max \in Nat
    PROVE  Pack!AlignPos(p, size, max) \in Nat /\ Pack!AlignPos(p, size, max) >= p
<1> DEFINE a == Pack!Smaller(size, max)
           c == Pack!And(p + a - 1, a - 1)
<1>1. a \in Nat
  BY DEF Pack!Smaller
<1>2. Pack!AlignPos(p, size, max) = IF a <= 1 \/ Pack!And(p, a - 1) = 0 THEN p ELSE (p + a - 1) - c
  BY DEF Pack!AlignPos
<1> HIDE DEF a
<1>3. ASSUME ~(a <= 1) PROVE c \in 0 .. a - 1
  <2>1. p + a - 1 \in Nat /\ a - 1 \in Nat
    BY <1>1, <1>3
  <2> QED  BY <2>1, AndIs
<1> HIDE DEF c
<1> QED  BY <1>1, <1>2, <1>3

(* A field starts at or behind the end of what is packed.                  *)
LEMMA StartIs ==
    ASSUME NEW o, IsOption(o), NEW p \in Nat, NEW max \in Nat
    PROVE  Pack!Start(o, p, max) \in Nat /\ Pack!Start(o, p, max) >= p
<1>1. o.n \in Nat
  BY DEF IsOption, Pack!Option
<1>2. Pack!AlignPos(p, o.n, max) \in Nat /\ Pack!AlignPos(p, o.n, max) >= p
  BY <1>1, AlignIs
<1>3. Pack!Start(o, p, max) = Pack!AlignPos(p, o.n, max) \/ Pack!Start(o, p, max) = p
  BY DEF Pack!Start
<1> QED  BY <1>2, <1>3

ByteSeq == Seq(0 .. Byte - 1)

(* Sequences of bytes: from functions, their elements, joined.             *)
LEMMA BytesAre ==
    ASSUME NEW n \in Nat, NEW f \in [1 .. n -> 0 .. Byte - 1]
    PROVE  f \in ByteSeq /\ Len(f) = n
<1> DEFINE S == 0 .. Byte - 1
<1>1. f \in [1 .. n -> S]
  OBVIOUS
<1> HIDE DEF S
<1>2. f \in Seq(S) /\ Len(f) = n
  BY <1>1
<1> QED  BY <1>2 DEF ByteSeq, S

LEMMA BytesIn ==
    ASSUME NEW f \in ByteSeq
    PROVE  Len(f) \in Nat /\ f = [k \in 1 .. Len(f) |-> f[k]] /\ \A k \in 1 .. Len(f) : f[k] \in 0 .. Byte - 1
<1> DEFINE S == 0 .. Byte - 1
<1>1. f \in Seq(S)
  BY DEF ByteSeq
<1> HIDE DEF S
<1>2. Len(f) \in Nat /\ f = [k \in 1 .. Len(f) |-> f[k]] /\ \A k \in 1 .. Len(f) : f[k] \in S
  BY <1>1
<1> QED  BY <1>2 DEF S

LEMMA JoinIs ==
    ASSUME NEW f \in ByteSeq, NEW g \in ByteSeq
    PROVE  /\ f \o g \in ByteSeq /\ Len(f \o g) = Len(f) + Len(g)
           /\ \A k \in 1 .. Len(f) : (f \o g)[k] = f[k]
           /\ \A k \in 1 .. Len(g) : (f \o g)[Len(f) + k] = g[k]
<1> DEFINE S == 0 .. Byte - 1
<1>1. f \in Seq(S) /\ g \in Seq(S)
  BY DEF ByteSeq
<1> HIDE DEF S
<1>2. f \o g \in Seq(S) /\ Len(f \o g) = Len(f) + Len(g)
  BY <1>1
<1>3. \A k \in 1 .. Len(f) : (f \o g)[k] = f[k]
  BY <1>1
<1>4. \A k \in 1 .. Len(g) : (f \o g)[Len(f) + k] = g[k]
  BY <1>1
<1> QED  BY <1>2, <1>3, <1>4 DEF ByteSeq, S

(* A piece of a sequence. *)
LEMMA PieceIs ==
    ASSUME NEW f \in ByteSeq, NEW a \in Nat, NEW n \in Nat, a + n <= Len(f)
    PROVE  LET g == SubSeq(f, a + 1, a + n) IN
           g \in ByteSeq /\ Len(g) = n /\ \A k \in 1 .. n : g[k] = f[a + k]
<1> DEFINE S == 0 .. Byte - 1
           g == SubSeq(f, a + 1, a + n)
<1>1. f \in Seq(S) /\ Len(f) \in Nat
  BY DEF ByteSeq
<1> HIDE DEF S
<1>2. g = [k \in 1 .. n |-> f[a + k]]
  <2>1. g = [k \in 1 .. ((a + n) - (a + 1) + 1) |-> f[k + (a + 1) - 1]]
    OBVIOUS
  <2>2. (a + n) - (a + 1) + 1 = n /\ \A k \in 1 .. n : k + (a + 1) - 1 = a + k
    OBVIOUS
  <2> HIDE DEF g
  <2> QED  BY <2>1, <2>2
<1> HIDE DEF g
<1>3. \A k \in 1 .. n : f[a + k] \in S
  <2>1. \A k \in 1 .. n : a + k \in 1 .. Len(f)
    BY <1>1
  <2> QED  BY <1>1, <2>1
<1>4. g \in [1 .. n -> S] /\ \A k \in 1 .. n : g[k] = f[a + k]
  BY <1>2, <1>3
<1>5. g \in [1 .. n -> 0 .. Byte - 1]
  BY <1>4 DEF S
<1>6. g \in ByteSeq /\ Len(g) = n
  BY <1>5, BytesAre
<1> QED  BY <1>4, <1>6 DEF g

\* What a value is, and how long its field.
FieldLen(o, v) ==
    CASE o.k = "x" -> 1
      [] o.k = "X" -> 0
      [] o.k \in {"int", "num", "c"} -> o.n
      [] o.k = "z" -> Len(v) + 1
      [] OTHER -> o.n + Len(v)

(* What the assumptions say of the values.                                 *)
LEMMA ValuesAre ==
    ASSUME NEW o, IsOption(o), Pack!TakesValue(o), NEW v \in Pack!ValuesFor(o)
    PROVE  /\ o.k = "int" => IsInt64(v)
           /\ o.k = "num" => v \in ByteSeq /\ Len(v) = o.n
           /\ o.k \in {"c", "z", "s"} => v \in ByteSeq
<1>1. CASE o.k = "int"
  <2>1. v \in Ints
    BY <1>1 DEF Pack!ValuesFor
  <2> QED  BY <1>1, <2>1, PackAssumption DEF IsInt64, Pack!WORD
<1>2. CASE o.k = "num"
  <2>1. v \in [1 .. o.n -> FloatByte] /\ o.n \in Nat
    BY <1>2 DEF Pack!ValuesFor, IsOption, Pack!Option
  <2>2. v \in [1 .. o.n -> 0 .. Byte - 1]
    BY <2>1, PackAssumption
  <2>3. v \in ByteSeq /\ Len(v) = o.n
    BY <2>1, <2>2, BytesAre
  <2> QED  BY <1>2, <2>3
<1>3. CASE o.k \in {"c", "z", "s"}
  <2>1. v \in Strings
    BY <1>3 DEF Pack!ValuesFor
  <2> QED  BY <1>3, <2>1, PackAssumption DEF ByteSeq
<1> QED  BY <1>1, <1>2, <1>3 DEF Pack!TakesValue

(* Padding is bytes.                                                       *)
LEMMA ZerosAre ==
    ASSUME NEW n \in Int
    PROVE  Pack!Zeros(n) \in ByteSeq /\ Len(Pack!Zeros(n)) = (IF n >= 0 THEN n ELSE 0)
<1>1. 0 \in 0 .. Byte - 1
  BY PackAssumption
<1>2. CASE n >= 0
  <2>1. n \in Nat /\ Pack!Zeros(n) \in [1 .. n -> 0 .. Byte - 1]
    BY <1>1, <1>2 DEF Pack!Zeros
  <2>2. Pack!Zeros(n) \in ByteSeq /\ Len(Pack!Zeros(n)) = n
    BY <2>1, BytesAre
  <2> QED  BY <1>2, <2>2
<1>3. CASE n < 0
  <2>1. 1 .. n = 1 .. 0
    BY <1>3
  <2>2. Pack!Zeros(n) = <<>>
    BY <2>1 DEF Pack!Zeros
  <2> QED  BY <1>3, <2>2 DEF ByteSeq
<1> QED  BY <1>2, <1>3

(* A c field is the text, cut or filled up. *)
LEMMA CutIs ==
    ASSUME NEW v \in ByteSeq, NEW n \in Nat
    PROVE  LET f == SubSeq(v, 1, Pack!Smaller(Len(v), n)) \o Pack!Zeros(n - Pack!Smaller(Len(v), n)) IN
           f \in ByteSeq /\ Len(f) = n /\ f = [k \in 1 .. n |-> IF k <= Len(v) THEN v[k] ELSE 0]
<1> DEFINE m == Pack!Smaller(Len(v), n)
           a == SubSeq(v, 1, m)
           z == Pack!Zeros(n - m)
           f == a \o z
<1>1. Len(v) \in Nat /\ m \in 0 .. Len(v) /\ m \in 0 .. n /\ (m = Len(v) \/ m = n)
  BY DEF ByteSeq, Pack!Smaller
<1> HIDE DEF m
<1>2. a \in ByteSeq /\ Len(a) = m /\ \A k \in 1 .. m : a[k] = v[k]
  <2>1. 0 \in Nat /\ m \in Nat /\ 0 + m <= Len(v) /\ 0 + 1 = 1 /\ 0 + m = m /\ \A k \in 1 .. m : 0 + k = k
    BY <1>1
  <2>2. LET g == SubSeq(v, 0 + 1, 0 + m) IN
        g \in ByteSeq /\ Len(g) = m /\ \A k \in 1 .. m : g[k] = v[0 + k]
    BY <2>1, PieceIs
  <2> QED  BY <2>1, <2>2
<1>3. z \in ByteSeq /\ Len(z) = n - m /\ \A k \in 1 .. n - m : z[k] = 0
  <2>1. n - m \in Int /\ n - m >= 0
    BY <1>1
  <2>2. z \in ByteSeq /\ Len(z) = n - m
    BY <2>1, ZerosAre
  <2> QED  BY <2>2 DEF Pack!Zeros
<1> HIDE DEF a, z
<1>4. /\ f \in ByteSeq /\ Len(f) = n
      /\ \A k \in 1 .. m : f[k] = a[k]
      /\ \A k \in 1 .. n - m : f[m + k] = z[k]
  <2>1. /\ f \in ByteSeq /\ Len(f) = Len(a) + Len(z)
        /\ \A k \in 1 .. Len(a) : f[k] = a[k]
        /\ \A k \in 1 .. Len(z) : f[Len(a) + k] = z[k]
    BY <1>2, <1>3, JoinIs
  <2> HIDE DEF f
  <2> QED  BY <1>1, <1>2, <1>3, <2>1
<1> HIDE DEF f
<1>5. ASSUME NEW k \in 1 .. n PROVE f[k] = IF k <= Len(v) THEN v[k] ELSE 0
  <2>1. CASE k <= m
    <3>1. k \in 1 .. m /\ k <= Len(v)
      BY <1>1, <2>1
    <3> QED  BY <1>2, <1>4, <3>1
  <2>2. CASE k > m
    <3>1. k - m \in 1 .. n - m /\ ~(k <= Len(v)) /\ m + (k - m) = k
      BY <1>1, <2>2
    <3>2. f[m + (k - m)] = 0
      BY <1>3, <1>4, <3>1
    <3> QED  BY <3>1, <3>2
  <2> QED  BY <1>1, <2>1, <2>2
<1>6. f = [k \in 1 .. n |-> f[k]]
  BY <1>4, BytesIn
<1>7. f = [k \in 1 .. n |-> IF k <= Len(v) THEN v[k] ELSE 0]
  BY <1>5, <1>6
<1> QED  BY <1>4, <1>7 DEF f, a, z, m

(* What an option adds is bytes, as many as it should be. *)
LEMMA FieldIs ==
    ASSUME NEW o, IsOption(o), ~Pack!IsSetting(o), NEW v, Pack!TakesValue(o) => v \in Pack!ValuesFor(o), NEW le
    PROVE  Pack!Field(o, v, le) \in ByteSeq /\ Len(Pack!Field(o, v, le)) = FieldLen(o, v) /\ FieldLen(o, v) \in Nat
<1>1. /\ o.n \in Nat /\ o.k \in {"x", "X", "int", "num", "c", "z", "s"}
      /\ o.k \in {"int", "num", "s"} => o.n \in 1 .. 16
  BY DEF IsOption, Pack!Option, Pack!IsSetting
<1>0. Pack!Zeros(1) \in ByteSeq /\ Len(Pack!Zeros(1)) = 1
  <2>1. 1 \in Int /\ 1 >= 0
    OBVIOUS
  <2> QED  BY <2>1, ZerosAre
<1>2. CASE o.k = "x"
  BY <1>0, <1>2 DEF Pack!Field, FieldLen
<1>3. CASE o.k = "X"
  BY <1>3 DEF Pack!Field, FieldLen, ByteSeq
<1>4. CASE o.k = "int"
  <2>1. v \in Int
    BY <1>4, ValuesAre DEF Pack!TakesValue, IsInt64
  <2>2. Pack!WriteInt(v, o.n, le) \in ByteSeq /\ Len(Pack!WriteInt(v, o.n, le)) = o.n
    BY <1>1, <1>4, <2>1, WrittenIs DEF ByteSeq
  <2> QED  BY <1>1, <1>4, <2>2 DEF Pack!Field, FieldLen
<1>5. CASE o.k = "num"
  <2>1. v \in ByteSeq /\ Len(v) = o.n
    BY <1>5, ValuesAre DEF Pack!TakesValue
  <2>2. Pack!InOrder(v, le) \in ByteSeq /\ Len(Pack!InOrder(v, le)) = o.n
    BY <2>1, InOrderIs DEF ByteSeq
  <2> QED  BY <1>1, <1>5, <2>2 DEF Pack!Field, FieldLen
<1>6. CASE o.k = "c"
  <2>1. v \in ByteSeq
    BY <1>6, ValuesAre DEF Pack!TakesValue
  <2> DEFINE f == SubSeq(v, 1, Pack!Smaller(Len(v), o.n)) \o Pack!Zeros(o.n - Pack!Smaller(Len(v), o.n))
  <2>2. f \in ByteSeq /\ Len(f) = o.n
    BY <1>1, <2>1, CutIs
  <2>3. Pack!Field(o, v, le) = f
    BY <1>6 DEF Pack!Field
  <2> HIDE DEF f
  <2> QED  BY <1>1, <1>6, <2>2, <2>3 DEF FieldLen
<1>7. CASE o.k = "z"
  <2>1. v \in ByteSeq
    BY <1>7, ValuesAre DEF Pack!TakesValue
  <2>2. Pack!Field(o, v, le) = v \o Pack!Zeros(1)
    BY <1>7 DEF Pack!Field
  <2>3. Len(v) \in Nat /\ v \o Pack!Zeros(1) \in ByteSeq /\ Len(v \o Pack!Zeros(1)) = Len(v) + 1
    <3> DEFINE z == Pack!Zeros(1)
    <3>1. z \in ByteSeq /\ Len(z) = 1
      BY <1>0
    <3> HIDE DEF z
    <3>2. v \o z \in ByteSeq /\ Len(v \o z) = Len(v) + Len(z)
      BY <2>1, <3>1, JoinIs, Zenon
    <3>3. Len(v) \in Nat
      BY <2>1, BytesIn
    <3> QED  BY <3>1, <3>2, <3>3 DEF z
  <2> QED  BY <1>7, <2>2, <2>3 DEF FieldLen
<1>8. CASE o.k = "s"
  <2>1. v \in ByteSeq /\ Len(v) \in Nat /\ Len(v) \in Int
    <3>1. v \in ByteSeq
      BY <1>8, ValuesAre DEF Pack!TakesValue
    <3> QED  BY <3>1, BytesIn
  <2> DEFINE b == Pack!WriteInt(Len(v), o.n, le)
  <2>2. b \in ByteSeq /\ Len(b) = o.n
    BY <1>1, <1>8, <2>1, WrittenIs DEF ByteSeq
  <2>3. Pack!Field(o, v, le) = b \o v
    BY <1>8 DEF Pack!Field
  <2> HIDE DEF b
  <2>4. b \o v \in ByteSeq /\ Len(b \o v) = o.n + Len(v)
    <3>1. b \o v \in ByteSeq /\ Len(b \o v) = Len(b) + Len(v)
      BY <2>1, <2>2, JoinIs, Zenon
    <3> QED  BY <2>2, <3>1
  <2> QED  BY <1>1, <1>8, <2>1, <2>3, <2>4 DEF FieldLen
<1> QED  BY <1>1, <1>2, <1>3, <1>4, <1>5, <1>6, <1>7, <1>8

\* What has been packed: the setting, the size and the number of values in
\* front of each option.
Place == [little : BOOLEAN, align : Nat, size : Nat, count : Nat]
FirstPlace == [little |-> TRUE, align |-> 1, size |-> 0, count |-> 0]

\* The option o took the packing from a to b: its field is where it should be.
Taken(o, w, b) == IF Pack!TakesValue(o) THEN w[b.count] ELSE 0
Took(o, a, b, bytes, w) ==
    /\ b.size <= Len(bytes) /\ b.count <= Len(w)
    /\ IF Pack!IsSetting(o)
       THEN b = [little |-> Pack!Order(o, a.little), align |-> Pack!MaxAlign(o, a.align), size |-> a.size, count |-> a.count]
       ELSE LET p == Pack!Start(o, a.size, a.align)
                v == Taken(o, w, b)
                f == Pack!Field(o, v, a.little)
            IN  /\ Pack!TakesValue(o) => v \in Pack!ValuesFor(o)
                /\ b = [little |-> a.little, align |-> a.align, size |-> p + Len(f),
                        count |-> a.count + IF Pack!TakesValue(o) THEN 1 ELSE 0]
                /\ \A k \in 1 .. Len(f) : bytes[p + k] = f[k]

(* What is in a piece of the bytes. *)
LEMMA SliceIs ==
    ASSUME NEW bytes \in ByteSeq, NEW a \in Nat, NEW g \in ByteSeq, a + Len(g) <= Len(bytes),
           \A k \in 1 .. Len(g) : bytes[a + k] = g[k]
    PROVE  SubSeq(bytes, a + 1, a + Len(g)) = g
<1> DEFINE h == SubSeq(bytes, a + 1, a + Len(g))
<1>1. Len(g) \in Nat
  BY BytesIn
<1>3. h \in ByteSeq /\ Len(h) = Len(g) /\ \A k \in 1 .. Len(g) : h[k] = bytes[a + k]
  BY <1>1, PieceIs
<1>4. \A k \in 1 .. Len(g) : h[k] = g[k]
  BY <1>3
<1> HIDE DEF h
<1>5. h = [k \in 1 .. Len(g) |-> h[k]] /\ g = [k \in 1 .. Len(g) |-> g[k]]
  BY <1>3, BytesIn
<1>6. h = g
  BY <1>3, <1>4, <1>5
<1> QED  BY <1>6 DEF h

(* The text of z ends at its zero. *)
LEMMA ZTextIs ==
    ASSUME packed \in ByteSeq, NEW p \in Nat, NEW v \in ByteSeq, \A k \in DOMAIN v : v[k] # 0,
           p + Len(v) + 1 <= Len(packed),
           \A k \in 1 .. Len(v) : packed[p + k] = v[k], packed[p + Len(v) + 1] = 0
    PROVE  Pack!ZText(p) = v
<1> DEFINE m == Len(packed) - p
           rest == SubSeq(packed, p + 1, Len(packed))
           Ends(n) == (\A k \in 1 .. n : rest[k] # 0) /\ (n < Len(rest) => rest[n + 1] = 0)
<1>1. Len(v) \in Nat /\ Len(packed) \in Nat /\ m \in Nat /\ p + m = Len(packed) /\ Len(v) + 1 <= m /\ DOMAIN v = 1 .. Len(v)
  BY BytesIn
<1> HIDE DEF m
<1>2. rest \in ByteSeq /\ Len(rest) = m /\ \A k \in 1 .. m : rest[k] = packed[p + k]
  <2> DEFINE g == SubSeq(packed, p + 1, p + m)
  <2>1. g \in ByteSeq /\ Len(g) = m /\ \A k \in 1 .. m : g[k] = packed[p + k]
    <3>1. m \in Nat /\ p + m <= Len(packed)
      BY <1>1
    <3> QED  BY <3>1, PieceIs, Zenon
  <2>2. g = rest
    BY <1>1
  <2> HIDE DEF g, rest
  <2> QED  BY <2>1, <2>2
<1>3. \A k \in 1 .. Len(v) : rest[k] = v[k]
  <2>1. \A k \in 1 .. Len(v) : k \in 1 .. m
    BY <1>1
  <2> HIDE DEF rest
  <2> QED  BY <1>2, <2>1
<1>4. rest[Len(v) + 1] = 0
  <2>1. Len(v) + 1 \in 1 .. m /\ p + (Len(v) + 1) = p + Len(v) + 1
    BY <1>1
  <2> HIDE DEF rest
  <2> QED  BY <1>2, <2>1
<1> DEFINE N == CHOOSE n \in 0 .. Len(rest) : Ends(n)
<1>5. Pack!ZText(p) = SubSeq(rest, 1, N)
  BY DEF Pack!ZText
<1> HIDE DEF rest
<1>6. Len(v) \in 0 .. Len(rest) /\ Ends(Len(v))
  BY <1>1, <1>2, <1>3, <1>4
<1>7. N \in 0 .. Len(rest) /\ Ends(N)
  <2> HIDE DEF Ends
  <2> QED  BY <1>6
<1> HIDE DEF N
<1>8. N = Len(v)
  <2>1. ~(N < Len(v))
    <3> SUFFICES ASSUME N < Len(v) PROVE FALSE
      OBVIOUS
    <3>1. N + 1 \in 1 .. Len(v) /\ N < Len(rest) /\ N + 1 \in DOMAIN v
      BY <1>1, <1>2, <1>7
    <3> QED  BY <1>3, <1>7, <3>1
  <2>2. ~(Len(v) < N)
    <3> SUFFICES ASSUME Len(v) < N PROVE FALSE
      OBVIOUS
    <3> DEFINE k == Len(v) + 1
    <3>1. k \in 1 .. N
      BY <1>1, <1>2, <1>7
    <3>2. rest[k] = 0
      BY <1>4
    <3>3. \A j \in 1 .. N : rest[j] # 0
      BY <1>7
    <3> HIDE DEF k
    <3> QED  BY <3>1, <3>2, <3>3, Zenon
  <2>3. N \in Nat /\ Len(v) \in Nat
    BY <1>1, <1>2, <1>7
  <2> QED  BY <2>1, <2>2, <2>3
<1> DEFINE g == SubSeq(rest, 1, N)
<1>9. g \in ByteSeq /\ Len(g) = Len(v) /\ \A k \in 1 .. Len(v) : g[k] = rest[k]
  <2> DEFINE n == Len(v)
             h == SubSeq(rest, 0 + 1, 0 + n)
  <2>1. 0 \in Nat /\ n \in Nat /\ 0 + n <= Len(rest) /\ 0 + 1 = 1 /\ 0 + n = n /\ \A k \in 1 .. n : 0 + k = k
    BY <1>1, <1>2
  <2>2. h \in ByteSeq /\ Len(h) = n /\ \A k \in 1 .. n : h[k] = rest[0 + k]
    BY <1>2, <2>1, PieceIs
  <2>3. g = h
    BY <1>8, <2>1
  <2> HIDE DEF g, h
  <2> QED  BY <2>1, <2>2, <2>3
<1> HIDE DEF g
<1>10. g = [k \in 1 .. Len(v) |-> g[k]] /\ v = [k \in 1 .. Len(v) |-> v[k]]
  BY <1>9, BytesIn
<1>11. g = v
  BY <1>3, <1>9, <1>10
<1> QED  BY <1>5, <1>11 DEF g

(* An option reads what it wrote: no more and no less, and the value.       *)
LEMMA ReadsBack ==
    ASSUME packed \in ByteSeq, NEW o, IsOption(o), ~Pack!IsSetting(o), NEW a \in Place, NEW b \in Place, NEW w,
           Took(o, a, b, packed, w), Pack!TakesValue(o) => Pack!Fits(o, w[b.count])
    PROVE  LET p == Pack!Start(o, a.size, a.align) IN
           /\ p \in Nat /\ b.size = p + Pack!Extent(o, p, a.little) /\ b.size <= Len(packed)
           /\ Pack!TakesValue(o) => Pack!Unpacked(o, p, a.little) = Pack!Kept(o, w[b.count])
<1> DEFINE p == Pack!Start(o, a.size, a.align)
           v == Taken(o, w, b)
           le == a.little
           f == Pack!Field(o, v, le)
<1>1. /\ o.n \in Nat /\ o.k \in {"x", "X", "int", "num", "c", "z", "s"}
      /\ o.k \in {"int", "num", "s"} => o.n \in 1 .. 16
  BY DEF IsOption, Pack!Option, Pack!IsSetting
<1>2. p \in Nat
  BY StartIs DEF Place
<1>3. /\ Pack!TakesValue(o) => v \in Pack!ValuesFor(o) /\ v = w[b.count] /\ Pack!Fits(o, v)
      /\ b.size = p + Len(f) /\ b.size <= Len(packed)
      /\ \A k \in 1 .. Len(f) : packed[p + k] = f[k]
  BY DEF Took, Taken
<1>4. f \in ByteSeq /\ Len(f) = FieldLen(o, v) /\ FieldLen(o, v) \in Nat
  BY <1>3, FieldIs
<1>5. p + Len(f) <= Len(packed) /\ Len(packed) \in Nat /\ Len(f) \in Nat
  BY <1>3, <1>4, BytesIn
<1> HIDE DEF p, v, f, le
<1>6. ASSUME NEW skip \in Nat, NEW g \in ByteSeq, skip + Len(g) <= Len(f), \A k \in 1 .. Len(g) : f[skip + k] = g[k]
      PROVE  Pack!Bytes(p + skip, Len(g)) = g
  <2>1. Len(g) \in Nat /\ packed \in ByteSeq
    BY <1>6, BytesIn
  <2>2. p + skip \in Nat /\ (p + skip) + Len(g) <= Len(packed)
    BY <1>2, <1>5, <1>6, <2>1
  <2>3. \A k \in 1 .. Len(g) : packed[(p + skip) + k] = g[k]
    <3>1. ASSUME NEW k \in 1 .. Len(g) PROVE packed[(p + skip) + k] = g[k]
      <4>1. k \in Nat /\ k >= 1 /\ skip + k <= Len(f) /\ p + (skip + k) = (p + skip) + k
        <5>1. skip \in Nat /\ skip + Len(g) <= Len(f)
          BY <1>6
        <5> QED  BY <1>2, <1>5, <2>1, <3>1, <5>1
      <4>2. skip + k \in 1 .. Len(f)
        BY <1>5, <1>6, <4>1
      <4>3. packed[p + (skip + k)] = f[skip + k] /\ f[skip + k] = g[k]
        BY <1>3, <1>6, <3>1, <4>2
      <4> QED  BY <4>1, <4>3
    <3> QED  BY <3>1
  <2>4. SubSeq(packed, (p + skip) + 1, (p + skip) + Len(g)) = g
    BY <1>6, <2>1, <2>2, <2>3, SliceIs
  <2> QED  BY <2>4 DEF Pack!Bytes
<1>7. Pack!Bytes(p, Len(f)) = f
  <2>1. 0 \in Nat /\ 0 + Len(f) <= Len(f) /\ \A k \in 1 .. Len(f) : f[0 + k] = f[k]
    BY <1>5
  <2>2. Pack!Bytes(p + 0, Len(f)) = f /\ p + 0 = p
    BY <1>2, <1>4, <1>6, <2>1
  <2> QED  BY <2>2
<1> SUFFICES /\ Len(f) = Pack!Extent(o, p, le)
             /\ Pack!TakesValue(o) => Pack!Unpacked(o, p, le) = Pack!Kept(o, v)
  BY <1>2, <1>3 DEF p, le
<1>8. CASE o.k \in {"x", "X"}
  BY <1>4, <1>8 DEF FieldLen, Pack!Extent, Pack!TakesValue
<1>9. CASE o.k = "int"
  <2>1. IsInt64(v) /\ Pack!TakesValue(o)
    BY <1>3, <1>9, ValuesAre DEF Pack!TakesValue
  <2>2. f = Pack!WriteInt(v, o.n, le) /\ Len(f) = o.n
    BY <1>4, <1>9 DEF Pack!Field, FieldLen, f
  <2>3. Pack!ReadInt(Pack!InOrder(f, le), o.signed) = Pack!Kept(o, v)
    BY <1>1, <1>9, <2>1, <2>2, ReadIs
  <2> QED  BY <1>7, <1>9, <2>2, <2>3 DEF Pack!Extent, Pack!Unpacked
<1>10. CASE o.k = "num"
  <2>1. v \in ByteSeq /\ Len(v) = o.n
    BY <1>3, <1>10, ValuesAre DEF Pack!TakesValue
  <2>2. f = Pack!InOrder(v, le) /\ Len(f) = o.n
    BY <1>4, <1>10 DEF Pack!Field, FieldLen, f
  <2>3. Pack!InOrder(f, le) = v
    BY <2>1, <2>2, InOrderIs DEF ByteSeq
  <2> QED  BY <1>7, <1>10, <2>2, <2>3 DEF Pack!Extent, Pack!Unpacked, Pack!Kept
<1>11. CASE o.k = "c"
  <2>1. v \in ByteSeq
    BY <1>3, <1>11, ValuesAre DEF Pack!TakesValue
  <2>2. f = SubSeq(v, 1, Pack!Smaller(Len(v), o.n)) \o Pack!Zeros(o.n - Pack!Smaller(Len(v), o.n)) /\ Len(f) = o.n
    BY <1>4, <1>11 DEF Pack!Field, FieldLen, f
  <2>3. f = [k \in 1 .. o.n |-> IF k <= Len(v) THEN v[k] ELSE 0]
    BY <1>1, <2>1, <2>2, CutIs
  <2>4. Pack!Kept(o, v) = f
    BY <1>11, <2>3, Zenon DEF Pack!Kept
  <2> QED  BY <1>7, <1>11, <2>2, <2>4 DEF Pack!Extent, Pack!Unpacked
<1>12. CASE o.k = "z"
  <2>1. v \in ByteSeq /\ Len(v) \in Nat /\ \A k \in DOMAIN v : v[k] # 0
    <3>1. v \in ByteSeq
      BY <1>3, <1>12, ValuesAre DEF Pack!TakesValue
    <3>2. Pack!Fits(o, v)
      BY <1>3, <1>12 DEF Pack!TakesValue
    <3> QED  BY <1>12, <3>1, <3>2, BytesIn DEF Pack!Fits
  <2> DEFINE z == Pack!Zeros(1)
  <2>2. z \in ByteSeq /\ Len(z) = 1 /\ z[1] = 0
    <3>1. 1 \in Int /\ 1 >= 0
      OBVIOUS
    <3>2. z \in ByteSeq /\ Len(z) = 1
      BY <3>1, ZerosAre
    <3> QED  BY <3>2 DEF Pack!Zeros
  <2>3. f = v \o z /\ Len(f) = Len(v) + 1
    BY <1>4, <1>12 DEF Pack!Field, FieldLen, f
  <2> HIDE DEF z
  <2>4. /\ \A k \in 1 .. Len(v) : f[k] = v[k]
        /\ \A k \in 1 .. Len(z) : f[Len(v) + k] = z[k]
    BY <2>1, <2>2, <2>3, JoinIs, Zenon
  <2>5. /\ p + Len(v) + 1 <= Len(packed)
        /\ \A k \in 1 .. Len(v) : packed[p + k] = v[k]
        /\ packed[p + Len(v) + 1] = 0
    <3>1. \A k \in 1 .. Len(v) : k \in 1 .. Len(f)
      BY <2>1, <2>3
    <3>2. Len(v) + 1 \in 1 .. Len(f) /\ p + (Len(v) + 1) = p + Len(v) + 1 /\ 1 \in 1 .. Len(z)
      BY <1>2, <2>1, <2>2, <2>3
    <3>3. packed[p + (Len(v) + 1)] = f[Len(v) + 1] /\ f[Len(v) + 1] = 0
      BY <1>3, <2>2, <2>4, <3>2
    <3> QED  BY <1>2, <1>3, <1>5, <2>1, <2>3, <2>4, <3>1, <3>2, <3>3
  <2>6. Pack!ZText(p) = v
    BY <1>2, <2>1, <2>5, ZTextIs
  <2>7. Pack!Smaller(Len(v) + 1, Len(packed) - p) = Len(v) + 1
    BY <1>2, <1>5, <2>1, <2>5 DEF Pack!Smaller
  <2> QED  BY <1>12, <2>3, <2>6, <2>7 DEF Pack!Extent, Pack!Unpacked, Pack!Kept
<1>13. CASE o.k = "s"
  <2> DEFINE c == Pack!WriteInt(Len(v), o.n, le)
  <2>1. v \in ByteSeq /\ Len(v) \in Nat /\ Len(v) \in Int /\ Len(v) < Pack!Power[Pack!Smaller(o.n, 8)]
    <3>1. v \in ByteSeq
      BY <1>3, <1>13, ValuesAre DEF Pack!TakesValue
    <3>2. Pack!Fits(o, v)
      BY <1>3, <1>13 DEF Pack!TakesValue
    <3>3. Len(v) < Pack!Power[Pack!Smaller(o.n, 8)]
      BY <1>13, <3>2 DEF Pack!Fits, Pack!WORD
    <3> QED  BY <3>1, <3>3, BytesIn
  <2>2. c \in ByteSeq /\ Len(c) = o.n /\ o.n \in Nat
    BY <1>1, <1>13, <2>1, WrittenIs DEF ByteSeq
  <2>3. Pack!Word(Pack!InOrder(c, le)) = Len(v)
    BY <1>1, <1>13, <2>1, PrefixIs
  <2>4. f = c \o v /\ Len(f) = o.n + Len(v)
    BY <1>4, <1>13 DEF Pack!Field, FieldLen, f
  <2> HIDE DEF c
  <2>5. /\ \A k \in 1 .. Len(c) : f[k] = c[k]
        /\ \A k \in 1 .. Len(v) : f[Len(c) + k] = v[k]
    BY <2>1, <2>2, <2>4, JoinIs, Zenon
  <2>6. Pack!Bytes(p, o.n) = c
    <3>1. 0 \in Nat /\ 0 + Len(c) <= Len(f) /\ p + 0 = p
      BY <1>2, <2>1, <2>2, <2>4
    <3>2. \A k \in 1 .. Len(c) : 0 + k = k
      BY <2>2
    <3>3. \A k \in 1 .. Len(c) : f[0 + k] = c[k]
      BY <2>5, <3>2
    <3>4. Pack!Bytes(p + 0, Len(c)) = c
      BY <1>6, <2>2, <3>1, <3>3
    <3> QED  BY <2>2, <3>1, <3>4
  <2>7. Pack!Bytes(p + o.n, Len(v)) = v
    <3>1. o.n + Len(v) <= Len(f) /\ \A k \in 1 .. Len(v) : f[o.n + k] = v[k]
      BY <2>1, <2>2, <2>4, <2>5
    <3>2. o.n \in Nat /\ v \in ByteSeq
      BY <2>1, <2>2
    <3> QED  BY <1>6, <3>1, <3>2
  <2>8. Pack!Prefix(o, p, le) = Len(v)
    BY <2>3, <2>6 DEF Pack!Prefix
  <2>9. ~(p + o.n > Len(packed))
    BY <1>2, <1>5, <2>1, <2>2, <2>4
  <2> QED  BY <1>13, <2>4, <2>7, <2>8, <2>9 DEF Pack!Extent, Pack!Unpacked, Pack!Kept
<1> QED  BY <1>1, <1>8, <1>9, <1>10, <1>11, <1>12, <1>13

-----------------------------------------------------------------------------
(* Formats *)

(* What the assumptions say of a format.                                   *)
LEMMA FormatIs ==
    ASSUME fmt \in Formats
    PROVE  Len(fmt) \in Nat /\ fmt \in Seq(Pack!Option) /\ DOMAIN fmt = 1 .. Len(fmt) /\ \A j \in 1 .. Len(fmt) : IsOption(fmt[j])
<1>1. fmt \in Seq(Pack!Option) /\ \A j \in DOMAIN fmt : fmt[j].k \in {"int", "num", "s"} => fmt[j].n \in 1 .. 16
  BY PackAssumption DEF Pack!IsFormat, Pack!WORD
<1> DEFINE S == Pack!Option
<1>2. fmt \in Seq(S)
  BY <1>1
<1> HIDE DEF S
<1>3. Len(fmt) \in Nat /\ DOMAIN fmt = 1 .. Len(fmt) /\ \A j \in 1 .. Len(fmt) : fmt[j] \in S
  BY <1>2
<1> QED  BY <1>1, <1>3 DEF IsOption, S

\* The options that take a value, up to each place of the format.
FieldsOf(F, n) ==
    /\ F \in [0 .. n -> Seq(Pack!Option)] /\ F[0] = <<>>
    /\ \A k \in 1 .. n : F[k] = IF Pack!TakesValue(fmt[k]) THEN Append(F[k - 1], fmt[k]) ELSE F[k - 1]

(* There is such a function, and it gives the fields.                      *)
LEMMA FieldsIs ==
    ASSUME fmt \in Formats
    PROVE  \E F : FieldsOf(F, Len(fmt)) /\ Pack!Fields = F[Len(fmt)]
<1> DEFINE n == Len(fmt)
           D == Seq(Pack!Option)
           Add(d, k) == IF Pack!TakesValue(fmt[k]) THEN Append(d, fmt[k]) ELSE d
           Line(f, k) == IF k = 0 THEN <<>> ELSE Add(f[k - 1], k)
           Is(f) == f = [k \in 0 .. n |-> Line(f, k)]
           W == CHOOSE f : Is(f)
           steps == [k \in 1 .. n |-> [d \in D |-> Add(d, k)]]
<1>1. Pack!Fields = W[n]
  BY Zenon DEF Pack!Fields
<1>2. n \in Nat /\ \A k \in 1 .. n : fmt[k] \in Pack!Option
  BY FormatIs DEF IsOption
<1>3. \A k \in 1 .. n : \A d \in D : Add(d, k) \in D
  <2> DEFINE S == Pack!Option
  <2>1. \A k \in 1 .. n : fmt[k] \in S
    BY <1>2
  <2> HIDE DEF S
  <2>2. ASSUME NEW k \in 1 .. n, NEW d \in Seq(S) PROVE Append(d, fmt[k]) \in Seq(S)
    BY <2>1
  <2> QED  BY <2>2 DEF S
<1> HIDE DEF n, Add
<1>4. \A k \in 1 .. n : \A d \in D : steps[k][d] = Add(d, k)
  OBVIOUS
<1>5. steps \in StepsOf(n, D) /\ <<>> \in D
  <2>1. steps \in StepsOf(n, D)
    <3> HIDE DEF D
    <3> QED  BY <1>3 DEF StepsOf
  <2> QED  BY <2>1
<1> HIDE DEF steps, W, D
<1>6. PICK f : f \in [0 .. n -> D] /\ f[0] = <<>> /\ \A k \in 1 .. n : f[k] = steps[k][f[k - 1]]
  <2>1. \E f : GoesUp(f, n, D, <<>>, steps)
    BY <1>2, <1>5, StepsUp
  <2> QED  BY <2>1 DEF GoesUp
<1>7. ASSUME NEW k \in 0 .. n PROVE f[k] = Line(f, k)
  <2>1. CASE k = 0
    BY <1>6, <2>1
  <2>2. CASE k # 0
    <3>1. k \in 1 .. n /\ k - 1 \in 0 .. n
      BY <1>2, <2>2
    <3>2. f[k - 1] \in D
      BY <1>6, <3>1
    <3> QED  BY <1>4, <1>6, <2>2, <3>1, <3>2
  <2> QED  BY <2>1, <2>2
<1>8. Is(W)
  <2>1. Is(f)
    <3> HIDE DEF Line
    <3> QED  BY <1>6, <1>7
  <2> HIDE DEF Is
  <2> QED  BY <2>1 DEF W
<1>9. W = [k \in 0 .. n |-> W[k]] /\ \A k \in 0 .. n : W[k] = Line(W, k)
  <2> HIDE DEF Line
  <2> QED  BY <1>8
<1>10. W[0] = <<>> /\ \A k \in 1 .. n : W[k] = Add(W[k - 1], k)
  <2>1. 0 \in 0 .. n /\ \A k \in 1 .. n : k \in 0 .. n /\ k # 0
    BY <1>2
  <2> QED  BY <1>9, <2>1
<1>11. GoesUp(W, n, D, <<>>, steps)
  <2>1. \A k \in 1 .. n : W[k - 1] \in D => W[k] = steps[k][W[k - 1]]
    BY <1>4, <1>10
  <2> HIDE DEF Is, Line
  <2> QED  BY <1>2, <1>5, <1>9, <1>10, <2>1, UpIs
<1>12. FieldsOf(W, n)
  BY <1>10, <1>11, Zenon DEF GoesUp, FieldsOf, D, Add
<1> QED  BY <1>1, <1>12 DEF n

(* What packsize counts, as the format goes. *)
Count == [size : Nat, align : Nat]
CountsOf(A, n) ==
    /\ A \in [0 .. n -> Count] /\ A[0] = [size |-> 0, align |-> 1]
    /\ \A k \in 1 .. n : A[k] = Pack!Sized(A[k - 1], fmt[k])

(* An option makes of a count a count.                                     *)
LEMMA SizedIs ==
    ASSUME NEW a \in Count, NEW o, IsOption(o)
    PROVE  Pack!Sized(a, o) \in Count
<1>1. o.n \in Nat /\ a.size \in Nat /\ a.align \in Nat
  BY DEF IsOption, Pack!Option, Count
<1>2. Pack!AlignPos(a.size, o.n, a.align) \in Nat
  BY <1>1, AlignIs
<1>3. Pack!MaxAlign(o, a.align) \in Nat
  BY <1>1 DEF Pack!MaxAlign
<1>4. \A m \in Nat : [a EXCEPT !.size = m] \in Count /\ [a EXCEPT !.align = m] \in Count
  BY DEF Count
<1>5. o.k \in {"<", ">", "!", "x", "X", "int", "num", "c", "z", "s"}
  BY DEF IsOption, Pack!Option
<1> DEFINE p == Pack!AlignPos(a.size, o.n, a.align)
<1>6. p \in Nat /\ p + o.n \in Nat /\ a.size + o.n \in Nat /\ a.size + 1 \in Nat
  BY <1>1, <1>2
<1>7. CASE o.k = "!"
  BY <1>3, <1>4, <1>7 DEF Pack!Sized
<1>8. CASE o.k = "X"
  BY <1>4, <1>6, <1>8 DEF Pack!Sized
<1>9. CASE o.k \in {"int", "num"}
  BY <1>4, <1>6, <1>9 DEF Pack!Sized
<1>10. CASE o.k \in {"c", "x"}
  BY <1>4, <1>6, <1>10 DEF Pack!Sized
<1>11. CASE o.k \in {"<", ">", "z", "s"}
  BY <1>11 DEF Pack!Sized
<1> QED  BY <1>5, <1>7, <1>8, <1>9, <1>10, <1>11

(* There is such a function, and packsize is its last size.                *)
LEMMA PackSizeIs ==
    ASSUME fmt \in Formats
    PROVE  \E A : CountsOf(A, Len(fmt)) /\ Pack!PackSize = A[Len(fmt)].size
<1> DEFINE n == Len(fmt)
           first == [size |-> 0, align |-> 1]
           Line(f, k) == IF k = 0 THEN first ELSE Pack!Sized(f[k - 1], fmt[k])
           Is(f) == f = [k \in 0 .. n |-> Line(f, k)]
           W == CHOOSE f : Is(f)
           steps == [k \in 1 .. n |-> [d \in Count |-> Pack!Sized(d, fmt[k])]]
<1>1. Pack!PackSize = W[n].size
  BY Zenon DEF Pack!PackSize
<1>2. n \in Nat
  BY FormatIs
<1>3. \A k \in 1 .. n : \A d \in Count : Pack!Sized(d, fmt[k]) \in Count
  BY FormatIs, SizedIs
<1> HIDE DEF n
<1>4. \A k \in 1 .. n : \A d \in Count : steps[k][d] = Pack!Sized(d, fmt[k])
  OBVIOUS
<1>5. steps \in StepsOf(n, Count) /\ first \in Count
  <2>1. steps \in StepsOf(n, Count)
    BY <1>3 DEF StepsOf
  <2> QED  BY <2>1 DEF Count
<1> HIDE DEF steps, W, first
<1>6. PICK f : f \in [0 .. n -> Count] /\ f[0] = first /\ \A k \in 1 .. n : f[k] = steps[k][f[k - 1]]
  <2>1. \E f : GoesUp(f, n, Count, first, steps)
    BY <1>2, <1>5, StepsUp
  <2> QED  BY <2>1 DEF GoesUp
<1>7. ASSUME NEW k \in 0 .. n PROVE f[k] = Line(f, k)
  <2>1. CASE k = 0
    BY <1>6, <2>1
  <2>2. CASE k # 0
    <3>1. k \in 1 .. n /\ k - 1 \in 0 .. n
      BY <1>2, <2>2
    <3>2. f[k - 1] \in Count
      BY <1>6, <3>1
    <3> QED  BY <1>4, <1>6, <2>2, <3>1, <3>2
  <2> QED  BY <2>1, <2>2
<1>8. Is(W)
  <2>1. Is(f)
    <3> HIDE DEF Line
    <3> QED  BY <1>6, <1>7
  <2> HIDE DEF Is
  <2> QED  BY <2>1 DEF W
<1>9. W = [k \in 0 .. n |-> W[k]] /\ \A k \in 0 .. n : W[k] = Line(W, k)
  <2> HIDE DEF Line
  <2> QED  BY <1>8
<1>10. W[0] = first /\ \A k \in 1 .. n : W[k] = Pack!Sized(W[k - 1], fmt[k])
  <2>1. 0 \in 0 .. n /\ \A k \in 1 .. n : k \in 0 .. n /\ k # 0
    BY <1>2
  <2> QED  BY <1>9, <2>1
<1>11. GoesUp(W, n, Count, first, steps)
  <2>1. \A k \in 1 .. n : W[k - 1] \in Count => W[k] = steps[k][W[k - 1]]
    BY <1>4, <1>10
  <2> HIDE DEF Is, Line
  <2> QED  BY <1>2, <1>5, <1>9, <1>10, <2>1, UpIs
<1>12. CountsOf(W, n)
  BY <1>10, <1>11, Zenon DEF GoesUp, CountsOf, first
<1> QED  BY <1>1, <1>12 DEF n

-----------------------------------------------------------------------------
(* The walk through a format *)

\* What was packed in front of the options 1 to n.
Trace(f, tr, n, bytes, w) ==
    /\ tr \in [1 .. n -> Place] /\ tr[1] = FirstPlace
    /\ \A j \in 1 .. n - 1 : Took(f[j], tr[j], tr[j + 1], bytes, w)

(* The option counts a value or not. *)
LEMMA TookCounts ==
    ASSUME NEW o, NEW a \in Place, NEW b, NEW bytes, NEW w, Took(o, a, b, bytes, w)
    PROVE  b.count = a.count + IF Pack!TakesValue(o) THEN 1 ELSE 0
<1>1. CASE Pack!IsSetting(o)
  <2>1. ~Pack!TakesValue(o)
    BY <1>1 DEF Pack!IsSetting, Pack!TakesValue
  <2>2. b.count = a.count /\ a.count \in Nat
    BY <1>1 DEF Took, Place
  <2> QED  BY <2>1, <2>2
<1>2. CASE ~Pack!IsSetting(o)
  BY <1>2 DEF Took
<1> QED  BY <1>1, <1>2

(* The value an option packed is that of its field. *)
LEMMA FieldsAre ==
    ASSUME fmt \in Formats, NEW n \in 1 .. Len(fmt) + 1, NEW tr, NEW bytes, NEW w, Trace(fmt, tr, n, bytes, w), NEW j \in 1 .. n - 1,
           Pack!TakesValue(fmt[j])
    PROVE  tr[j + 1].count \in Nat /\ Pack!Fields[tr[j + 1].count] = fmt[j]
<1> DEFINE L == Len(fmt)
<1>1. PICK F : FieldsOf(F, L) /\ Pack!Fields = F[L]
  BY FieldsIs
<1>2. L \in Nat /\ n - 1 \in 0 .. L /\ j \in 1 .. L /\ j - 1 \in 0 .. n - 1
  BY FormatIs
<1>3. tr \in [1 .. n -> Place] /\ \A k \in 1 .. n : tr[k].count \in Nat
  BY DEF Trace, Place
<1> DEFINE S == Pack!Option
<1>4. /\ F \in [0 .. L -> Seq(S)] /\ F[0] = <<>>
      /\ \A k \in 1 .. L : fmt[k] \in S /\ F[k] = IF Pack!TakesValue(fmt[k]) THEN Append(F[k - 1], fmt[k]) ELSE F[k - 1]
  BY <1>1, FormatIs DEF FieldsOf, IsOption
<1> HIDE DEF S, L
<1>5. \A k \in 0 .. L : F[k] \in Seq(S) /\ Len(F[k]) \in Nat
  <2>1. \A s \in Seq(S) : Len(s) \in Nat
    OBVIOUS
  <2> QED  BY <1>4, <2>1
<1>6. ASSUME NEW k \in 1 .. L
      PROVE  /\ Len(F[k]) = Len(F[k - 1]) + IF Pack!TakesValue(fmt[k]) THEN 1 ELSE 0
             /\ \A m \in 1 .. Len(F[k - 1]) : F[k][m] = F[k - 1][m]
             /\ Pack!TakesValue(fmt[k]) => F[k][Len(F[k])] = fmt[k]
  <2> DEFINE g == F[k - 1]
  <2>1. g \in Seq(S) /\ Len(g) \in Nat
    <3>1. k - 1 \in 0 .. L
      BY <1>2
    <3> QED  BY <1>5, <3>1
  <2>2. F[k] = IF Pack!TakesValue(fmt[k]) THEN Append(g, fmt[k]) ELSE g
    BY <1>4
  <2> HIDE DEF g
  <2>3. /\ Len(Append(g, fmt[k])) = Len(g) + 1 /\ Append(g, fmt[k])[Len(g) + 1] = fmt[k]
        /\ \A m \in 1 .. Len(g) : Append(g, fmt[k])[m] = g[m]
    BY <1>4, <2>1
  <2>4. CASE Pack!TakesValue(fmt[k])
    BY <2>1, <2>2, <2>3, <2>4 DEF g
  <2>5. CASE ~Pack!TakesValue(fmt[k])
    BY <2>1, <2>2, <2>5 DEF g
  <2> QED  BY <2>4, <2>5
<1>7. \A k \in 0 .. n - 1 : Len(F[k]) = tr[k + 1].count
  <2> DEFINE G == {k \in 0 .. n - 1 : Len(F[k]) = tr[k + 1].count}
  <2>1. 0 \in G
    <3>1. Len(F[0]) = 0 /\ tr[0 + 1].count = 0
      BY <1>4 DEF Trace, FirstPlace
    <3> QED  BY <1>2, <3>1
  <2>2. ASSUME NEW k \in 1 .. n - 1, k - 1 \in G PROVE k \in G
    <3>1. k \in 1 .. L /\ k \in 0 .. n - 1 /\ k \in 1 .. n /\ k - 1 + 1 = k
      BY <1>2
    <3>2. Took(fmt[k], tr[k], tr[k + 1], bytes, w) /\ tr[k] \in Place
      BY <1>3, <3>1 DEF Trace
    <3>3. tr[k + 1].count = tr[k].count + IF Pack!TakesValue(fmt[k]) THEN 1 ELSE 0
      BY <3>2, TookCounts
    <3>4. Len(F[k - 1]) = tr[k].count
      BY <2>2, <3>1
    <3> QED  BY <1>6, <3>1, <3>3, <3>4
  <2> HIDE DEF G
  <2>3. n - 1 \in Nat
    BY <1>2
  <2>4. \A k \in 0 .. n - 1 : k \in G
    BY <2>1, <2>2, <2>3, Up
  <2> QED  BY <2>4 DEF G
<1> DEFINE c == Len(F[j])
<1>8. c = tr[j + 1].count /\ c \in Nat /\ F[j][c] = fmt[j] /\ c >= 1
  <2>1. j \in 0 .. n - 1 /\ j \in 0 .. L /\ j - 1 \in 0 .. L
    BY <1>2
  <2>2. c = tr[j + 1].count /\ c \in Nat /\ F[j][c] = fmt[j] /\ c = Len(F[j - 1]) + 1 /\ Len(F[j - 1]) \in Nat
    BY <1>2, <1>5, <1>6, <1>7, <2>1
  <2> QED  BY <2>2
<1> HIDE DEF c
<1>9. Len(F[L]) >= c /\ F[L][c] = fmt[j]
  <2> DEFINE G == {d \in 0 .. L - j : Len(F[j + d]) >= c /\ F[j + d][c] = fmt[j]}
  <2>1. 0 \in G
    BY <1>2, <1>8 DEF c
  <2>2. ASSUME NEW d \in 1 .. L - j, d - 1 \in G PROVE d \in G
    <3> DEFINE k == j + d
    <3>1. k \in 1 .. L /\ k - 1 \in 0 .. L /\ k - 1 = j + (d - 1) /\ d \in 0 .. L - j
      BY <1>2
    <3>2. Len(F[k - 1]) >= c /\ F[k - 1][c] = fmt[j] /\ Len(F[k - 1]) \in Nat
      BY <1>5, <2>2, <3>1
    <3>3. c \in 1 .. Len(F[k - 1])
      BY <1>8, <3>2
    <3> HIDE DEF k
    <3>4. Len(F[k]) >= c /\ F[k][c] = fmt[j]
      <4>1. F[k][c] = F[k - 1][c]
        BY <1>6, <3>1, <3>3
      <4>2. Len(F[k]) = Len(F[k - 1]) + 1 \/ Len(F[k]) = Len(F[k - 1])
        <5>1. Len(F[k]) = Len(F[k - 1]) + IF Pack!TakesValue(fmt[k]) THEN 1 ELSE 0
          BY <1>6, <3>1
        <5>2. CASE Pack!TakesValue(fmt[k])
          BY <5>1, <5>2
        <5>3. CASE ~Pack!TakesValue(fmt[k])
          <6>1. Len(F[k]) = Len(F[k - 1]) + 0
            BY <5>1, <5>3
          <6> QED  BY <3>2, <6>1
        <5> QED  BY <5>2, <5>3
      <4> QED  BY <1>8, <3>2, <4>1, <4>2
    <3> QED  BY <3>1, <3>4 DEF k
  <2> HIDE DEF G
  <2>3. L - j \in Nat /\ L - j \in 0 .. L - j /\ j + (L - j) = L
    BY <1>2
  <2>4. \A d \in 0 .. L - j : d \in G
    BY <2>1, <2>2, <2>3, Up
  <2>5. L - j \in G
    BY <2>3, <2>4
  <2> QED  BY <2>3, <2>5 DEF G
<1> QED  BY <1>1, <1>8, <1>9

(* packsize counts what pack packed. *)
LEMMA SizeIsPacked ==
    ASSUME fmt \in Formats, Pack!Fixed, NEW tr, NEW bytes, NEW w, Trace(fmt, tr, Len(fmt) + 1, bytes, w)
    PROVE  Pack!PackSize = tr[Len(fmt) + 1].size
<1> DEFINE L == Len(fmt)
<1>1. PICK A : CountsOf(A, L) /\ Pack!PackSize = A[L].size
  BY PackSizeIs
<1>2. L \in Nat
  BY FormatIs
<1>3. tr \in [1 .. L + 1 -> Place]
  BY DEF Trace
<1> DEFINE G == {k \in 0 .. L : A[k].size = tr[k + 1].size /\ A[k].align = tr[k + 1].align}
<1>4. 0 \in G
  BY <1>1, <1>2 DEF CountsOf, Trace, FirstPlace
<1>5. ASSUME NEW k \in 1 .. L, k - 1 \in G PROVE k \in G
  <2> DEFINE o == fmt[k]
             a == tr[k]
             b == tr[k + 1]
             c == A[k - 1]
  <2>1. k - 1 \in 0 .. L /\ k - 1 + 1 = k /\ k \in 1 .. L + 1 /\ k \in 1 .. (L + 1) - 1 /\ k \in 0 .. L
    BY <1>2
  <2>2. IsOption(o) /\ o.k \notin {"z", "s"}
    BY FormatIs DEF Pack!Fixed
  <2>3. a \in Place /\ Took(o, a, b, bytes, w)
    BY <1>3, <2>1 DEF Trace
  <2>4. c \in Count /\ c.size = a.size /\ c.align = a.align
    BY <1>1, <1>5, <2>1 DEF CountsOf
  <2>5. A[k] = Pack!Sized(c, o)
    BY <1>1 DEF CountsOf
  <2> HIDE DEF o, a, b, c
  <2>6. Pack!Sized(c, o).size = b.size /\ Pack!Sized(c, o).align = b.align
    <3>1. o.k \in {"<", ">", "!", "x", "X", "int", "num", "c"} /\ o.n \in Nat
      BY <2>2 DEF IsOption, Pack!Option
    <3>2. c = [size |-> a.size, align |-> a.align] /\ a.size \in Nat /\ a.align \in Nat
      BY <2>3, <2>4 DEF Count, Place
    <3>3. CASE Pack!IsSetting(o)
      <4>1. b.size = a.size /\ b.align = Pack!MaxAlign(o, a.align)
        BY <2>3, <3>3 DEF Took
      <4>2. CASE o.k = "!"
        BY <3>2, <4>1, <4>2 DEF Pack!Sized
      <4>3. CASE o.k # "!"
        <5>1. Pack!Sized(c, o) = c
          BY <3>3, <4>3 DEF Pack!Sized, Pack!IsSetting
        <5>2. Pack!MaxAlign(o, a.align) = a.align
          BY <4>3 DEF Pack!MaxAlign
        <5> QED  BY <2>4, <4>1, <5>1, <5>2
      <4> QED  BY <4>2, <4>3
    <3>4. CASE ~Pack!IsSetting(o)
      <4> DEFINE v == Taken(o, w, b)
                 f == Pack!Field(o, v, a.little)
                 p == Pack!Start(o, a.size, a.align)
      <4>1. b.size = p + Len(f) /\ b.align = a.align /\ (Pack!TakesValue(o) => v \in Pack!ValuesFor(o))
        BY <2>3, <3>4 DEF Took
      <4>2. Len(f) = FieldLen(o, v)
        BY <2>2, <3>4, <4>1, FieldIs
      <4> HIDE DEF f, v
      <4>3. CASE o.k = "X"
        <5>1. b.size = Pack!AlignPos(a.size, o.n, a.align) + 0
          BY <4>1, <4>2, <4>3 DEF FieldLen, Pack!Start
        <5>2. Pack!AlignPos(a.size, o.n, a.align) \in Nat
          BY <3>1, <3>2, AlignIs
        <5>3. Pack!Sized(c, o) = [c EXCEPT !.size = Pack!AlignPos(a.size, o.n, a.align)]
          BY <2>4, <4>3 DEF Pack!Sized
        <5> QED  BY <3>2, <4>1, <5>1, <5>2, <5>3
      <4>4. CASE o.k \in {"int", "num"}
        <5>1. b.size = Pack!AlignPos(a.size, o.n, a.align) + o.n
          BY <4>1, <4>2, <4>4 DEF FieldLen, Pack!Start
        <5>2. Pack!Sized(c, o) = [c EXCEPT !.size = Pack!AlignPos(a.size, o.n, a.align) + o.n]
          BY <2>4, <4>4 DEF Pack!Sized
        <5> QED  BY <3>2, <4>1, <5>1, <5>2
      <4>5. CASE o.k = "c"
        <5>1. b.size = a.size + o.n
          BY <4>1, <4>2, <4>5 DEF FieldLen, Pack!Start
        <5>2. Pack!Sized(c, o) = [c EXCEPT !.size = a.size + o.n]
          BY <2>4, <4>5 DEF Pack!Sized
        <5> QED  BY <3>2, <4>1, <5>1, <5>2
      <4>6. CASE o.k = "x"
        <5>1. b.size = a.size + 1
          BY <4>1, <4>2, <4>6 DEF FieldLen, Pack!Start
        <5>2. Pack!Sized(c, o) = [c EXCEPT !.size = a.size + 1]
          BY <2>4, <4>6 DEF Pack!Sized
        <5> QED  BY <3>2, <4>1, <5>1, <5>2
      <4> QED  BY <3>1, <3>4, <4>3, <4>4, <4>5, <4>6 DEF Pack!IsSetting
    <3> QED  BY <3>3, <3>4
  <2> QED  BY <2>1, <2>5, <2>6 DEF b
<1> HIDE DEF G
<1>6. \A k \in 0 .. L : k \in G
  BY <1>2, <1>4, <1>5, Up
<1>7. L \in 0 .. L
  BY <1>2
<1>8. L \in G
  BY <1>6, <1>7
<1> QED  BY <1>1, <1>8 DEF G

(* What was packed stays when more is packed behind it. *)
LEMMA TookStays ==
    ASSUME NEW o, IsOption(o), NEW a \in Place, NEW b \in Place, NEW bytes \in ByteSeq, NEW w, Len(w) \in Nat,
           Took(o, a, b, bytes, w),
           NEW more, Len(more) \in Nat, Len(more) >= Len(bytes), \A k \in 1 .. Len(bytes) : more[k] = bytes[k],
           NEW x, Len(x) \in Nat, Len(x) >= Len(w), \A k \in 1 .. Len(w) : x[k] = w[k]
    PROVE  Took(o, a, b, more, x)
<1>1. b.size <= Len(bytes) /\ b.count <= Len(w) /\ b.size \in Nat /\ b.count \in Nat /\ Len(bytes) \in Nat /\ a.count \in Nat
  BY BytesIn DEF Took, Place
<1>2. b.size <= Len(more) /\ b.count <= Len(x)
  BY <1>1
<1>3. CASE Pack!IsSetting(o)
  BY <1>2, <1>3 DEF Took
<1>4. CASE ~Pack!IsSetting(o)
  <2> DEFINE v == Taken(o, w, b)
             p == Pack!Start(o, a.size, a.align)
             f == Pack!Field(o, v, a.little)
  <2>1. Taken(o, x, b) = v
    <3>1. CASE Pack!TakesValue(o)
      <4>1. b.count = a.count + 1
        BY <3>1, TookCounts
      <4>2. b.count \in 1 .. Len(w)
        BY <1>1, <4>1
      <4> QED  BY <3>1, <4>2 DEF Taken
    <3> QED  BY <3>1 DEF Taken
  <2>2. /\ Pack!TakesValue(o) => v \in Pack!ValuesFor(o)
        /\ b = [little |-> a.little, align |-> a.align, size |-> p + Len(f),
                count |-> a.count + IF Pack!TakesValue(o) THEN 1 ELSE 0]
        /\ \A k \in 1 .. Len(f) : bytes[p + k] = f[k]
    BY <1>4, Zenon DEF Took
  <2>3. p \in Nat
    BY StartIs DEF Place
  <2>4. Len(f) \in Nat
    <3>1. f \in ByteSeq
      BY <1>4, <2>2, FieldIs
    <3> QED  BY <3>1, BytesIn
  <2> HIDE DEF p, f, v
  <2>5. b.size = p + Len(f)
    BY <2>2
  <2>6. ASSUME NEW k \in 1 .. Len(f) PROVE more[p + k] = f[k]
    <3>1. p + k \in 1 .. Len(bytes)
      BY <1>1, <2>3, <2>4, <2>5
    <3> QED  BY <2>2, <3>1
  <2> QED  BY <1>2, <1>4, <2>1, <2>2, <2>6, Zenon DEF Took, v, p, f
<1> QED  BY <1>3, <1>4

(* The walk goes on by an option. *)
LEMMA TraceGrows ==
    ASSUME fmt \in Formats, NEW n \in 1 .. Len(fmt), NEW tr, NEW bytes \in ByteSeq, NEW w, Len(w) \in Nat, Trace(fmt, tr, n, bytes, w),
           NEW more, Len(more) \in Nat, Len(more) >= Len(bytes), \A k \in 1 .. Len(bytes) : more[k] = bytes[k],
           NEW x, Len(x) \in Nat, Len(x) >= Len(w), \A k \in 1 .. Len(w) : x[k] = w[k],
           NEW b \in Place, Took(fmt[n], tr[n], b, more, x)
    PROVE  \E t : Trace(fmt, t, n + 1, more, x) /\ t[n + 1] = b
<1> DEFINE t == [k \in 1 .. n + 1 |-> IF k = n + 1 THEN b ELSE tr[k]]
<1>1. n \in Nat /\ n >= 1 /\ (n + 1) - 1 = n /\ Len(fmt) \in Nat
  BY FormatIs
<1>2. tr \in [1 .. n -> Place] /\ tr[1] = FirstPlace /\ \A j \in 1 .. n - 1 : Took(fmt[j], tr[j], tr[j + 1], bytes, w)
  BY DEF Trace
<1>3. t \in [1 .. n + 1 -> Place] /\ t[n + 1] = b /\ \A k \in 1 .. n : t[k] = tr[k]
  BY <1>1, <1>2
<1> HIDE DEF t
<1>4. ASSUME NEW j \in 1 .. n PROVE Took(fmt[j], t[j], t[j + 1], more, x)
  <2>1. CASE j = n
    BY <1>3, <2>1
  <2>2. CASE j # n
    <3>1. j \in 1 .. n - 1 /\ j + 1 \in 1 .. n /\ j \in 1 .. Len(fmt)
      BY <1>1, <2>2
    <3>2. Took(fmt[j], tr[j], tr[j + 1], bytes, w) /\ IsOption(fmt[j]) /\ tr[j] \in Place /\ tr[j + 1] \in Place
      BY <1>2, <3>1, FormatIs
    <3>3. Took(fmt[j], tr[j], tr[j + 1], more, x)
      BY <3>2, TookStays
    <3> QED  BY <1>3, <3>1, <3>3
  <2> QED  BY <2>1, <2>2
<1>5. t[1] = FirstPlace
  BY <1>1, <1>2, <1>3
<1> QED  BY <1>1, <1>3, <1>4, <1>5 DEF Trace

(* What a field adds to what is packed. *)
LEMMA AddIs ==
    ASSUME NEW bytes \in ByteSeq, NEW p \in Nat, p >= Len(bytes), NEW f \in ByteSeq
    PROVE  LET more == (bytes \o Pack!Zeros(p - Len(bytes))) \o f IN
           /\ more \in ByteSeq /\ Len(more) = p + Len(f)
           /\ \A k \in 1 .. Len(bytes) : more[k] = bytes[k]
           /\ \A k \in 1 .. Len(f) : more[p + k] = f[k]
<1> DEFINE z == Pack!Zeros(p - Len(bytes))
           pad == bytes \o z
           more == pad \o f
<1>1. Len(bytes) \in Nat /\ Len(f) \in Nat /\ p - Len(bytes) \in Int /\ p - Len(bytes) >= 0
  BY BytesIn
<1>2. z \in ByteSeq /\ Len(z) = p - Len(bytes)
  BY <1>1, ZerosAre
<1> HIDE DEF z
<1>3. /\ pad \in ByteSeq /\ Len(pad) = Len(bytes) + Len(z)
      /\ \A k \in 1 .. Len(bytes) : pad[k] = bytes[k]
  BY <1>2, JoinIs
<1>4. Len(pad) = p
  BY <1>1, <1>2, <1>3
<1> HIDE DEF pad
<1>5. /\ more \in ByteSeq /\ Len(more) = Len(pad) + Len(f)
      /\ \A k \in 1 .. Len(pad) : more[k] = pad[k]
      /\ \A k \in 1 .. Len(f) : more[Len(pad) + k] = f[k]
  BY <1>3, JoinIs
<1>6. \A k \in 1 .. Len(bytes) : k \in 1 .. Len(pad)
  BY <1>1, <1>4
<1> HIDE DEF more
<1>7. /\ more \in ByteSeq /\ Len(more) = p + Len(f)
      /\ \A k \in 1 .. Len(bytes) : more[k] = bytes[k]
      /\ \A k \in 1 .. Len(f) : more[p + k] = f[k]
  BY <1>3, <1>4, <1>5, <1>6
<1> QED  BY <1>7 DEF more, pad, z

-----------------------------------------------------------------------------
(* Packing and unpacking *)

PackValue == UNION {Pack!ValuesFor(o) : o \in Pack!Option}
AllFit == \A j \in DOMAIN vals : Pack!Fits(Pack!Fields[j], vals[j])
FieldKept(j) == Pack!Kept(Pack!Fields[j], vals[j])

PackTypes ==
    /\ fmt \in Formats /\ option \in 1 .. Len(fmt) + 1
    /\ little \in BOOLEAN /\ align_max \in Nat
    /\ packed \in ByteSeq /\ vals \in Seq(PackValue)
    /\ stage \in {"pack", "unpack", "too long", "panic", "out of string", "done"}

\* Packing is behind the options that were packed.
Packing ==
    /\ pos = 0 /\ got = <<>>
    /\ \E tr : /\ Trace(fmt, tr, option, packed, vals)
               /\ tr[option] = [little |-> little, align |-> align_max, size |-> Len(packed), count |-> Len(vals)]

\* Unpacking is where packing was in front of the same option, with the values it took.
Unpacking ==
    \E tr : /\ Trace(fmt, tr, Len(fmt) + 1, packed, vals)
            /\ tr[Len(fmt) + 1].size = Len(packed) /\ tr[Len(fmt) + 1].count = Len(vals)
            /\ AllFit =>
                 /\ stage # "out of string"
                 /\ Len(got) = tr[option].count /\ got = [j \in 1 .. tr[option].count |-> FieldKept(j)]
                 /\ tr[option] = [little |-> little, align |-> align_max, size |-> pos, count |-> tr[option].count]

PackInv ==
    /\ PackTypes
    /\ stage = "pack" => Packing
    /\ stage \in {"unpack", "out of string", "done"} => Unpacking
    /\ stage = "done" => option = Len(fmt) + 1

(* Packing starts in front of the first option, with nothing packed.       *)
LEMMA PackStart ==
    ASSUME Pack!Init
    PROVE  PackInv
<1>1. /\ fmt \in Formats /\ option = 1 /\ little = TRUE /\ align_max = 1 /\ packed = <<>> /\ pos = 0 /\ vals = <<>> /\ got = <<>>
      /\ stage = "pack"
  BY DEF Pack!Init
<1>2. Len(fmt) \in Nat
  BY <1>1, FormatIs
<1>3. PackTypes
  BY <1>1, <1>2 DEF PackTypes, ByteSeq
<1>4. Packing
  <2> DEFINE tr == [k \in 1 .. 1 |-> FirstPlace]
  <2>1. Trace(fmt, tr, 1, packed, vals)
    BY DEF Trace, FirstPlace, Place
  <2>2. tr[option] = [little |-> little, align |-> align_max, size |-> Len(packed), count |-> Len(vals)]
    BY <1>1 DEF FirstPlace
  <2> HIDE DEF tr
  <2> QED  BY <1>1, <2>1, <2>2 DEF Packing
<1> QED  BY <1>1, <1>3, <1>4 DEF PackInv

(* An option of the byte order or the alignment, in packing or unpacking. *)
LEMMA SettingKeeps ==
    ASSUME PackInv, Pack!Setting
    PROVE  PackInv'
<1>1. /\ option <= Len(fmt) /\ stage \in {"pack", "unpack"} /\ Pack!IsSetting(fmt[option])
      /\ little' = Pack!Order(fmt[option], little) /\ align_max' = Pack!MaxAlign(fmt[option], align_max) /\ option' = option + 1
      /\ fmt' = fmt /\ stage' = stage /\ packed' = packed /\ pos' = pos /\ vals' = vals /\ got' = got
  BY DEF Pack!Setting, Pack!Opt
<1>2. PackTypes
  BY DEF PackInv
<1>3. option \in 1 .. Len(fmt) /\ Len(fmt) \in Nat /\ option + 1 \in 1 .. Len(fmt) + 1 /\ IsOption(fmt[option])
  <2>1. fmt \in Formats /\ option \in 1 .. Len(fmt) + 1
    BY <1>2 DEF PackTypes
  <2>2. Len(fmt) \in Nat /\ \A j \in 1 .. Len(fmt) : IsOption(fmt[j])
    BY <2>1, FormatIs
  <2> QED  BY <1>1, <2>1, <2>2
<1>4. little' \in BOOLEAN /\ align_max' \in Nat
  BY <1>1, <1>2, <1>3 DEF PackTypes, IsOption, Pack!Option, Pack!Order, Pack!MaxAlign
<1>5. PackTypes'
  BY <1>1, <1>2, <1>3, <1>4 DEF PackTypes
<1>6. Len(packed) \in Nat /\ Len(vals) \in Nat
  <2>1. packed \in ByteSeq /\ vals \in Seq(PackValue)
    BY <1>2 DEF PackTypes
  <2>2. Len(packed) \in Nat
    BY <2>1, BytesIn
  <2> HIDE DEF PackValue
  <2> QED  BY <2>1, <2>2
<1>7. CASE stage = "pack"
  <2>1. PICK tr : /\ Trace(fmt, tr, option, packed, vals)
                  /\ tr[option] = [little |-> little, align |-> align_max, size |-> Len(packed), count |-> Len(vals)]
    BY <1>7 DEF PackInv, Packing
  <2> DEFINE b == [little |-> little', align |-> align_max', size |-> Len(packed), count |-> Len(vals)]
  <2>2. b \in Place
    BY <1>4, <1>6 DEF Place
  <2>3. Took(fmt[option], tr[option], b, packed, vals)
    BY <1>1, <1>6, <2>1 DEF Took
  <2> HIDE DEF b
  <2>4. /\ packed \in ByteSeq /\ fmt \in Formats
        /\ Len(packed) >= Len(packed) /\ Len(vals) >= Len(vals)
        /\ \A k \in 1 .. Len(packed) : packed[k] = packed[k]
        /\ \A k \in 1 .. Len(vals) : vals[k] = vals[k]
    <3>1. packed \in ByteSeq /\ fmt \in Formats
      BY <1>2 DEF PackTypes
    <3> QED  BY <1>6, <3>1
  <2>5. \E t : Trace(fmt, t, option + 1, packed, vals) /\ t[option + 1] = b
    BY <1>3, <1>6, <2>1, <2>2, <2>3, <2>4, TraceGrows, SMTT(30)
  <2>6. PICK t : Trace(fmt, t, option + 1, packed, vals) /\ t[option + 1] = b
    BY <2>5
  <2>7. Trace(fmt', t, option', packed', vals')
    BY <1>1, <2>6
  <2>8. Packing'
    <3>1. t[option'] = [little |-> little', align |-> align_max', size |-> Len(packed'), count |-> Len(vals')]
      BY <1>1, <2>6 DEF b
    <3>2. pos' = 0 /\ got' = <<>>
      BY <1>1, <1>7 DEF PackInv, Packing
    <3> QED  BY <1>1, <2>7, <3>1, <3>2 DEF Packing
  <2> QED  BY <1>1, <1>5, <1>7, <2>8 DEF PackInv
<1>8. CASE stage = "unpack"
  <2>1. PICK tr : /\ Trace(fmt, tr, Len(fmt) + 1, packed, vals)
                  /\ tr[Len(fmt) + 1].size = Len(packed) /\ tr[Len(fmt) + 1].count = Len(vals)
                  /\ AllFit =>
                       /\ stage # "out of string"
                       /\ Len(got) = tr[option].count /\ got = [j \in 1 .. tr[option].count |-> FieldKept(j)]
                       /\ tr[option] = [little |-> little, align |-> align_max, size |-> pos, count |-> tr[option].count]
    BY <1>8 DEF PackInv, Unpacking
  <2>2. Took(fmt[option], tr[option], tr[option + 1], packed, vals)
    <3>1. option \in 1 .. (Len(fmt) + 1) - 1
      BY <1>3
    <3> QED  BY <2>1, <3>1 DEF Trace
  <2>3. tr[option + 1] = [little |-> Pack!Order(fmt[option], tr[option].little), align |-> Pack!MaxAlign(fmt[option], tr[option].align),
                     size |-> tr[option].size, count |-> tr[option].count]
    BY <1>1, <2>2 DEF Took
  <2>4. Trace(fmt', tr, Len(fmt') + 1, packed', vals') /\ (AllFit' <=> AllFit) /\ \A j : FieldKept(j)' = FieldKept(j)
    <3>1. fmt' = fmt /\ packed' = packed /\ vals' = vals
      BY <1>1
    <3>2. (AllFit' <=> AllFit) /\ \A j : FieldKept(j)' = FieldKept(j)
      BY <3>1 DEF AllFit, FieldKept, Pack!Fields
    <3> QED  BY <2>1, <3>1, <3>2
  <2>5. ASSUME AllFit
        PROVE  /\ stage' # "out of string"
               /\ Len(got') = tr[option + 1].count /\ got' = [j \in 1 .. tr[option + 1].count |-> FieldKept(j)]
               /\ tr[option + 1] = [little |-> little', align |-> align_max', size |-> pos', count |-> tr[option + 1].count]
    <3>1. tr[option].little = little /\ tr[option].align = align_max /\ tr[option].size = pos /\ tr[option + 1].count = tr[option].count
      <4>1. tr[option] = [little |-> little, align |-> align_max, size |-> pos, count |-> tr[option].count]
        BY <2>1, <2>5, Zenon
      <4>2. tr[option].little = little /\ tr[option].align = align_max /\ tr[option].size = pos
        BY <4>1
      <4> QED  BY <2>3, <4>2
    <3> QED  BY <1>1, <2>1, <2>3, <2>5, <3>1
  <2>6. Unpacking'
    BY <1>1, <2>1, <2>4, <2>5 DEF Unpacking
  <2> QED  BY <1>1, <1>5, <1>8, <2>6 DEF PackInv
<1> QED  BY <1>1, <1>7, <1>8

(* What a step adds to the packed string and the values. *)
LEMMA PackFieldIs ==
    ASSUME Pack!PackField
    PROVE  /\ stage = "pack" /\ option <= Len(fmt) /\ ~Pack!IsSetting(fmt[option])
           /\ \/ stage' = "too long" /\ UNCHANGED <<fmt, option, little, align_max, packed, pos, vals, got>>
              \/ \E v : LET o == fmt[option]
                            f == Pack!Field(o, v, little)
                        IN /\ IF Pack!TakesValue(o) THEN v \in Pack!ValuesFor(o) ELSE v = 0
                           /\ packed' = (packed \o Pack!Zeros(Pack!Start(o, Len(packed), align_max) - Len(packed))) \o f
                           /\ vals' = IF Pack!TakesValue(o) THEN Append(vals, v) ELSE vals
                           /\ option' = option + 1 /\ UNCHANGED <<fmt, stage, little, align_max, pos, got>>
<1> DEFINE o == fmt[option]
           p == Pack!Start(o, Len(packed), align_max)
           Long == stage' = "too long" /\ UNCHANGED <<fmt, option, little, align_max, packed, pos, vals, got>>
           Adds(v) == /\ IF Pack!TakesValue(o) THEN v \in Pack!ValuesFor(o) ELSE v = 0
                      /\ packed' = (packed \o Pack!Zeros(p - Len(packed))) \o Pack!Field(o, v, little)
                      /\ vals' = IF Pack!TakesValue(o) THEN Append(vals, v) ELSE vals
                      /\ option' = option + 1 /\ UNCHANGED <<fmt, stage, little, align_max, pos, got>>
<1>1. stage = "pack" /\ option <= Len(fmt) /\ ~Pack!IsSetting(o)
  BY DEF Pack!PackField, Pack!More, Pack!Opt
<1>2. ASSUME NEW f, Pack!Add(f)
      PROVE  \/ stage' = "too long" /\ UNCHANGED <<fmt, option, little, align_max, packed, pos, vals, got>>
             \/ /\ packed' = (packed \o Pack!Zeros(p - Len(packed))) \o f /\ option' = option + 1
                /\ UNCHANGED <<fmt, stage, little, align_max, pos, got>>
  BY <1>2 DEF Pack!Add, Pack!Opt, Pack!Padded, Pack!Ends
<1>3. CASE ~Pack!TakesValue(o)
  <2>1. Pack!Add(Pack!Field(o, 0, little)) /\ vals' = vals
    BY <1>3 DEF Pack!PackField, Pack!Opt
  <2> HIDE DEF o, p
  <2>2. Long \/ Adds(0)
    BY <1>2, <1>3, <2>1
  <2> HIDE DEF Long, Adds
  <2>3. Long \/ \E v : Adds(v)
    BY <2>2
  <2> QED  BY <1>1, <2>3 DEF Long, Adds, o, p
<1>4. CASE Pack!TakesValue(o)
  <2>1. PICK v \in Pack!ValuesFor(o) :
             Pack!Add(Pack!Field(o, v, little)) /\ vals' = IF stage' = "pack" THEN Append(vals, v) ELSE vals
    BY <1>4 DEF Pack!PackField, Pack!Opt
  <2> HIDE DEF o, p
  <2>2. Long \/ Adds(v)
    BY <1>1, <1>2, <1>4, <2>1
  <2> HIDE DEF Long, Adds
  <2>3. Long \/ \E w : Adds(w)
    BY <2>2
  <2> QED  BY <1>1, <2>3 DEF Long, Adds, o, p
<1> QED  BY <1>3, <1>4

(* A field is packed behind what is packed already, or it is too long.     *)
LEMMA PackFieldKeeps ==
    ASSUME PackInv, Pack!PackField
    PROVE  PackInv'
<1>1. stage = "pack" /\ PackTypes /\ Packing /\ option <= Len(fmt) /\ ~Pack!IsSetting(fmt[option])
  BY PackFieldIs DEF PackInv
<1>2. /\ fmt \in Formats /\ Len(fmt) \in Nat /\ option \in 1 .. Len(fmt) /\ option + 1 \in 1 .. Len(fmt) + 1 /\ IsOption(fmt[option])
      /\ little \in BOOLEAN /\ align_max \in Nat
  <2>1. fmt \in Formats /\ option \in 1 .. Len(fmt) + 1 /\ little \in BOOLEAN /\ align_max \in Nat
    BY <1>1 DEF PackTypes
  <2>2. Len(fmt) \in Nat /\ \A j \in 1 .. Len(fmt) : IsOption(fmt[j])
    BY <2>1, FormatIs
  <2> QED  BY <1>1, <2>1, <2>2
<1>3. packed \in ByteSeq /\ Len(packed) \in Nat /\ vals \in Seq(PackValue) /\ Len(vals) \in Nat
  <2>1. packed \in ByteSeq /\ vals \in Seq(PackValue)
    BY <1>1 DEF PackTypes
  <2>2. Len(packed) \in Nat
    BY <2>1, BytesIn
  <2> HIDE DEF PackValue
  <2> QED  BY <2>1, <2>2
<1>4. CASE stage' = "too long" /\ UNCHANGED <<fmt, option, little, align_max, packed, pos, vals, got>>
  <2>1. PackTypes'
    BY <1>1, <1>4 DEF PackTypes
  <2> QED  BY <1>4, <2>1 DEF PackInv
<1> DEFINE o == fmt[option]
           p == Pack!Start(o, Len(packed), align_max)
<1>5. ASSUME NEW v,
             IF Pack!TakesValue(o) THEN v \in Pack!ValuesFor(o) ELSE v = 0,
             packed' = (packed \o Pack!Zeros(p - Len(packed))) \o Pack!Field(o, v, little),
             vals' = IF Pack!TakesValue(o) THEN Append(vals, v) ELSE vals,
             option' = option + 1, UNCHANGED <<fmt, stage, little, align_max, pos, got>>
      PROVE  PackInv'
  <2> DEFINE f == Pack!Field(o, v, little)
  <2>1. Pack!TakesValue(o) => v \in Pack!ValuesFor(o)
    BY <1>5
  <2>2. f \in ByteSeq /\ Len(f) \in Nat
    <3>1. f \in ByteSeq
      BY <1>1, <1>2, <2>1, FieldIs
    <3> QED  BY <3>1, BytesIn
  <2>3. p \in Nat /\ p >= Len(packed)
    BY <1>2, <1>3, StartIs
  <2> HIDE DEF f, p, o
  <2>4. /\ packed' \in ByteSeq /\ Len(packed') = p + Len(f)
        /\ \A k \in 1 .. Len(packed) : packed'[k] = packed[k]
        /\ \A k \in 1 .. Len(f) : packed'[p + k] = f[k]
    <3> DEFINE more == (packed \o Pack!Zeros(p - Len(packed))) \o f
    <3>1. /\ more \in ByteSeq /\ Len(more) = p + Len(f)
          /\ \A k \in 1 .. Len(packed) : more[k] = packed[k]
          /\ \A k \in 1 .. Len(f) : more[p + k] = f[k]
      BY <1>3, <2>2, <2>3, AddIs
    <3>2. packed' = more
      BY <1>5 DEF f
    <3> HIDE DEF more
    <3> QED  BY <3>1, <3>2
  <2>5. /\ vals' \in Seq(PackValue) /\ Len(vals') = Len(vals) + IF Pack!TakesValue(o) THEN 1 ELSE 0
        /\ \A k \in 1 .. Len(vals) : vals'[k] = vals[k]
        /\ Pack!TakesValue(o) => vals'[Len(vals) + 1] = v
    <3>1. CASE ~Pack!TakesValue(o)
      <4>1. vals' = vals /\ Len(vals) + 0 = Len(vals)
        BY <1>3, <1>5, <3>1
      <4> QED  BY <1>3, <3>1, <4>1
    <3>2. CASE Pack!TakesValue(o)
      <4>1. v \in PackValue
        BY <1>2, <2>1, <3>2 DEF PackValue, IsOption, o
      <4>2. vals' = Append(vals, v)
        BY <1>5, <3>2
      <4> HIDE DEF PackValue
      <4> QED  BY <1>3, <3>2, <4>1, <4>2
    <3> QED  BY <3>1, <3>2
  <2>6. Len(packed') \in Nat /\ Len(packed') >= Len(packed) /\ Len(vals') \in Nat /\ Len(vals') >= Len(vals)
    <3>1. Len(vals') = Len(vals) + 1 \/ Len(vals') = Len(vals)
      BY <1>3, <2>5
    <3> QED  BY <1>3, <2>2, <2>3, <2>4, <3>1
  <2> DEFINE b == [little |-> little, align |-> align_max, size |-> Len(packed'), count |-> Len(vals')]
  <2>7. b \in Place
    BY <1>2, <2>6 DEF Place
  <2>8. PICK tr : /\ Trace(fmt, tr, option, packed, vals)
                  /\ tr[option] = [little |-> little, align |-> align_max, size |-> Len(packed), count |-> Len(vals)]
    BY <1>1 DEF Packing
  <2>9. Took(fmt[option], tr[option], b, packed', vals')
    <3> DEFINE a == tr[option]
    <3>1. a.little = little /\ a.align = align_max /\ a.size = Len(packed) /\ a.count = Len(vals)
      BY <2>8
    <3>2. b.size = p + Len(f) /\ b.count = Len(vals) + IF Pack!TakesValue(o) THEN 1 ELSE 0
      BY <2>4, <2>5
    <3>3. Taken(o, vals', b) = v
      <4>1. CASE Pack!TakesValue(o)
        <5>1. b.count = Len(vals) + 1
          BY <3>2, <4>1
        <5> QED  BY <2>5, <4>1, <5>1 DEF Taken
      <4>2. CASE ~Pack!TakesValue(o)
        BY <1>5, <4>2 DEF Taken
      <4> QED  BY <4>1, <4>2
    <3>4. Pack!Start(o, a.size, a.align) = p /\ Pack!Field(o, v, a.little) = f
      BY <3>1 DEF p, f
    <3>5. b = [little |-> a.little, align |-> a.align, size |-> p + Len(f),
               count |-> a.count + IF Pack!TakesValue(o) THEN 1 ELSE 0]
      BY <2>4, <2>5, <3>1
    <3>6. b.size <= Len(packed') /\ b.count <= Len(vals')
      BY <2>6
    <3>7. ~Pack!IsSetting(o)
      BY <1>1 DEF o
    <3> HIDE DEF a, b
    <3>8. Took(o, a, b, packed', vals')
      BY <2>1, <2>4, <3>3, <3>4, <3>5, <3>6, <3>7 DEF Took
    <3> QED  BY <3>8 DEF o, a
  <2> HIDE DEF b
  <2>10. \E t : Trace(fmt, t, option + 1, packed', vals') /\ t[option + 1] = b
    <3> DEFINE more == packed'
               x == vals'
    <3>1. /\ Len(more) \in Nat /\ Len(more) >= Len(packed) /\ \A k \in 1 .. Len(packed) : more[k] = packed[k]
          /\ Len(x) \in Nat /\ Len(x) >= Len(vals) /\ \A k \in 1 .. Len(vals) : x[k] = vals[k]
      BY <2>4, <2>5, <2>6
    <3>2. Took(fmt[option], tr[option], b, more, x) /\ Trace(fmt, tr, option, packed, vals)
      BY <2>8, <2>9
    <3> HIDE DEF more, x
    <3>0. fmt \in Formats /\ option \in 1 .. Len(fmt) /\ packed \in ByteSeq /\ Len(vals) \in Nat /\ b \in Place
      BY <1>2, <1>3, <2>7
    <3>3. \E t : Trace(fmt, t, option + 1, more, x) /\ t[option + 1] = b
      BY <3>0, <3>1, <3>2, TraceGrows
    <3> QED  BY <3>3 DEF more, x
  <2>11. PICK t : Trace(fmt, t, option + 1, packed', vals') /\ t[option + 1] = b
    BY <2>10
  <2>12. Packing'
    <3>1. Trace(fmt', t, option', packed', vals')
      BY <1>5, <2>11
    <3>2. t[option'] = [little |-> little', align |-> align_max', size |-> Len(packed'), count |-> Len(vals')]
      BY <1>5, <2>11 DEF b
    <3>3. pos' = 0 /\ got' = <<>>
      BY <1>1, <1>5 DEF Packing
    <3> QED  BY <3>1, <3>2, <3>3 DEF Packing
  <2>13. PackTypes'
    BY <1>1, <1>2, <1>5, <2>4, <2>5 DEF PackTypes
  <2> QED  BY <1>1, <1>5, <2>12, <2>13 DEF PackInv
<1>6. \/ stage' = "too long" /\ UNCHANGED <<fmt, option, little, align_max, packed, pos, vals, got>>
      \/ \E v : /\ IF Pack!TakesValue(o) THEN v \in Pack!ValuesFor(o) ELSE v = 0
                /\ packed' = (packed \o Pack!Zeros(p - Len(packed))) \o Pack!Field(o, v, little)
                /\ vals' = IF Pack!TakesValue(o) THEN Append(vals, v) ELSE vals
                /\ option' = option + 1 /\ UNCHANGED <<fmt, stage, little, align_max, pos, got>>
  BY PackFieldIs, Zenon
<1> QED  BY <1>4, <1>5, <1>6

(* Unpacking starts where packing started, unless the result is too long.  *)
LEMMA PackDoneKeeps ==
    ASSUME PackInv, Pack!PackDone
    PROVE  PackInv'
<1>0. CASE Len(packed) > OUT_CAP
  <2>1. stage = "pack" /\ stage' = "panic" /\ UNCHANGED <<fmt, option, little, align_max, packed, pos, vals, got>>
    BY <1>0 DEF Pack!PackDone, Pack!Ends
  <2>2. PackTypes /\ PackTypes'
    BY <2>1 DEF PackInv, PackTypes
  <2> QED  BY <2>1, <2>2 DEF PackInv
<1> SUFFICES ASSUME ~(Len(packed) > OUT_CAP) PROVE PackInv'
  BY <1>0
<1>1. /\ stage = "pack" /\ option > Len(fmt) /\ stage' = "unpack" /\ option' = 1 /\ little' = TRUE /\ align_max' = 1
      /\ fmt' = fmt /\ packed' = packed /\ pos' = pos /\ vals' = vals /\ got' = got
  BY DEF Pack!PackDone
<1>2. PackTypes /\ Packing
  BY <1>1 DEF PackInv
<1>3. fmt \in Formats /\ Len(fmt) \in Nat /\ option = Len(fmt) + 1
  <2>1. fmt \in Formats /\ option \in 1 .. Len(fmt) + 1
    BY <1>2 DEF PackTypes
  <2>2. Len(fmt) \in Nat
    BY <2>1, FormatIs
  <2> QED  BY <1>1, <2>1, <2>2
<1>4. PackTypes'
  BY <1>1, <1>2, <1>3 DEF PackTypes
<1>5. PICK tr : /\ Trace(fmt, tr, option, packed, vals)
                /\ tr[option] = [little |-> little, align |-> align_max, size |-> Len(packed), count |-> Len(vals)]
  BY <1>2 DEF Packing
<1>6. /\ Trace(fmt', tr, Len(fmt') + 1, packed', vals')
      /\ tr[Len(fmt') + 1].size = Len(packed') /\ tr[Len(fmt') + 1].count = Len(vals')
  BY <1>1, <1>3, <1>5
<1>7. tr[1] = [little |-> TRUE, align |-> 1, size |-> 0, count |-> 0]
  BY <1>5 DEF Trace, FirstPlace
<1>8. /\ stage' # "out of string"
      /\ Len(got') = tr[option'].count /\ got' = [j \in 1 .. tr[option'].count |-> FieldKept(j)']
      /\ tr[option'] = [little |-> little', align |-> align_max', size |-> pos', count |-> tr[option'].count]
  <2>1. got' = <<>> /\ pos' = 0
    BY <1>1, <1>2 DEF Packing
  <2>2. tr[option'] = tr[1] /\ tr[1].count = 0 /\ 1 .. 0 = {}
    BY <1>1, <1>7
  <2> QED  BY <1>1, <1>7, <2>1, <2>2
<1>9. Unpacking'
  BY <1>6, <1>8 DEF Unpacking
<1> QED  BY <1>1, <1>4, <1>9 DEF PackInv

(* One more element.                                                       *)
LEMMA AppendedIs ==
    ASSUME NEW n \in Nat, NEW s, s = [j \in 1 .. n |-> s[j]], NEW u
    PROVE  Len(Append(s, u)) = n + 1 /\ Append(s, u) = [j \in 1 .. n + 1 |-> IF j = n + 1 THEN u ELSE s[j]]
<1> DEFINE S == {s[j] : j \in 1 .. n} \cup {u}
<1>1. s \in [1 .. n -> S] /\ u \in S
  BY Zenon
<1> HIDE DEF S
<1>2. s \in Seq(S) /\ Len(s) = n
  BY <1>1
<1>3. Append(s, u) \in Seq(S) /\ Len(Append(s, u)) = n + 1
  BY <1>1, <1>2
<1>4. \A j \in 1 .. n + 1 : Append(s, u)[j] = IF j = n + 1 THEN u ELSE s[j]
  BY <1>1, <1>2
<1> DEFINE t == Append(s, u)
<1>5. t = [j \in 1 .. n + 1 |-> t[j]]
  <2> HIDE DEF t
  <2>1. t \in Seq(S) /\ Len(t) = n + 1
    BY <1>3 DEF t
  <2> QED  BY <2>1
<1> QED  BY <1>3, <1>4, <1>5

(* An option unpacks what it packed. *)
LEMMA UnpackFieldKeeps ==
    ASSUME PackInv, Pack!UnpackField
    PROVE  PackInv'
<1> DEFINE o == fmt[option]
           L == Len(fmt)
           p == Pack!Start(o, pos, align_max)
           e == Pack!Extent(o, p, little)
           GoesOn == /\ pos' = p + e /\ option' = option + 1
                     /\ got' = IF Pack!TakesValue(o) THEN Append(got, Pack!Unpacked(o, p, little)) ELSE got
                     /\ stage' = stage /\ little' = little /\ align_max' = align_max
           Stops == /\ stage' = "out of string"
                    /\ option' = option /\ little' = little /\ align_max' = align_max /\ pos' = pos /\ got' = got
<1>1. /\ stage = "unpack" /\ option <= L /\ ~Pack!IsSetting(o)
      /\ fmt' = fmt /\ packed' = packed /\ vals' = vals
      /\ IF p + e > Len(packed) THEN Stops ELSE GoesOn
  BY DEF Pack!UnpackField, Pack!More, Pack!Opt, Pack!Ends
<1>2. PackTypes /\ Unpacking
  BY <1>1 DEF PackInv
<1>3. /\ fmt \in Formats /\ L \in Nat /\ option \in 1 .. L /\ option \in 1 .. (L + 1) - 1 /\ option + 1 \in 1 .. L + 1 /\ IsOption(o)
      /\ little \in BOOLEAN /\ align_max \in Nat
  <2>1. fmt \in Formats /\ option \in 1 .. L + 1 /\ little \in BOOLEAN /\ align_max \in Nat
    BY <1>2 DEF PackTypes
  <2>2. L \in Nat /\ \A j \in 1 .. L : IsOption(fmt[j])
    BY <2>1, FormatIs
  <2>3. option <= L
    BY <1>1
  <2> HIDE DEF L
  <2>4. option \in 1 .. L /\ option \in 1 .. (L + 1) - 1 /\ option + 1 \in 1 .. L + 1
    BY <2>1, <2>2, <2>3
  <2> QED  BY <2>1, <2>2, <2>4
<1>4. packed \in ByteSeq /\ Len(packed) \in Nat /\ vals \in Seq(PackValue) /\ Len(vals) \in Nat /\ DOMAIN vals = 1 .. Len(vals)
  <2>1. packed \in ByteSeq /\ vals \in Seq(PackValue)
    BY <1>2 DEF PackTypes
  <2>2. Len(packed) \in Nat
    BY <2>1, BytesIn
  <2> HIDE DEF PackValue
  <2> QED  BY <2>1, <2>2
<1>5. PICK tr : /\ Trace(fmt, tr, L + 1, packed, vals)
                /\ tr[L + 1].size = Len(packed) /\ tr[L + 1].count = Len(vals)
                /\ AllFit =>
                     /\ stage # "out of string"
                     /\ Len(got) = tr[option].count /\ got = [j \in 1 .. tr[option].count |-> FieldKept(j)]
                     /\ tr[option] = [little |-> little, align |-> align_max, size |-> pos, count |-> tr[option].count]
  BY <1>2 DEF Unpacking
<1> DEFINE a == tr[option]
           b == tr[option + 1]
<1>7. a \in Place /\ b \in Place /\ Took(o, a, b, packed, vals)
  <2>1. Trace(fmt, tr, L + 1, packed, vals)
    BY <1>5
  <2> HIDE DEF L
  <2>2. tr \in [1 .. L + 1 -> Place] /\ option \in 1 .. L + 1
    BY <1>3, <2>1 DEF Trace
  <2> QED  BY <1>3, <2>1, <2>2 DEF Trace
<1>8. (AllFit' <=> AllFit) /\ \A j : FieldKept(j)' = FieldKept(j)
  BY <1>1 DEF AllFit, FieldKept, Pack!Fields
<1> HIDE DEF o, L, p, e, GoesOn, Stops, a, b
<1>9. ASSUME AllFit
      PROVE  /\ Len(got) = a.count /\ got = [j \in 1 .. a.count |-> FieldKept(j)]
             /\ a.little = little /\ a.align = align_max /\ a.size = pos
  <2>1. a = [little |-> little, align |-> align_max, size |-> pos, count |-> a.count]
    BY <1>5, <1>9, Zenon DEF a
  <2>2. Len(got) = a.count /\ got = [j \in 1 .. a.count |-> FieldKept(j)]
    BY <1>5, <1>9, Zenon DEF a
  <2> QED  BY <2>1, <2>2
<1>10. ASSUME AllFit
       PROVE  /\ b.size = p + e /\ ~(p + e > Len(packed)) /\ b.little = little /\ b.align = align_max
              /\ b.count = a.count + IF Pack!TakesValue(o) THEN 1 ELSE 0
              /\ Pack!TakesValue(o) => Pack!Unpacked(o, p, little) = FieldKept(b.count)
  <2>1. Pack!TakesValue(o) => Pack!Fits(o, vals[b.count]) /\ FieldKept(b.count) = Pack!Kept(o, vals[b.count])
    <3> SUFFICES ASSUME Pack!TakesValue(o) PROVE Pack!Fits(o, vals[b.count]) /\ FieldKept(b.count) = Pack!Kept(o, vals[b.count])
      OBVIOUS
    <3>1. L + 1 \in 1 .. L + 1
      BY <1>3
    <3>2. b.count \in Nat /\ Pack!Fields[b.count] = o
      <4>1. Trace(fmt, tr, Len(fmt) + 1, packed, vals) /\ option \in 1 .. (Len(fmt) + 1) - 1 /\ Len(fmt) + 1 \in 1 .. Len(fmt) + 1
        BY <1>3, <1>5, <3>1 DEF L
      <4>2. Pack!TakesValue(fmt[option])
        BY DEF o
      <4> QED  BY <1>3, <4>1, <4>2, FieldsAre DEF b, o
    <3>3. b.count = a.count + 1 /\ a.count \in Nat /\ b.count <= Len(vals)
      <4>1. b.count = a.count + 1
        BY <1>7, TookCounts
      <4> QED  BY <1>7, <4>1 DEF Place, Took
    <3>4. b.count \in DOMAIN vals
      BY <1>4, <3>2, <3>3
    <3> QED  BY <1>10, <3>2, <3>4 DEF AllFit, FieldKept
  <2>2. ~Pack!IsSetting(o)
    BY <1>1
  <2>3. LET q == Pack!Start(o, a.size, a.align) IN
        /\ q \in Nat /\ b.size = q + Pack!Extent(o, q, a.little) /\ b.size <= Len(packed)
        /\ Pack!TakesValue(o) => Pack!Unpacked(o, q, a.little) = Pack!Kept(o, vals[b.count])
    BY <1>3, <1>4, <1>7, <2>1, <2>2, ReadsBack
  <2>4. b.size = p + e /\ b.size <= Len(packed) /\ (Pack!TakesValue(o) => Pack!Unpacked(o, p, little) = Pack!Kept(o, vals[b.count]))
    BY <1>9, <1>10, <2>3 DEF p, e
  <2>5. b.little = a.little /\ b.align = a.align
    BY <1>7, <2>2 DEF Took
  <2>6. b.size \in Nat
    BY <1>7 DEF Place
  <2>7. b.count = a.count + IF Pack!TakesValue(o) THEN 1 ELSE 0
    BY <1>7, TookCounts
  <2> QED  BY <1>4, <1>9, <1>10, <2>1, <2>4, <2>5, <2>6, <2>7
<1>11. CASE p + e > Len(packed)
  <2>1. Stops /\ ~AllFit
    BY <1>1, <1>10, <1>11
  <2>2. PackTypes'
    BY <1>1, <1>2, <2>1 DEF PackTypes, Stops
  <2>3. Unpacking'
    <3>1. /\ Trace(fmt', tr, Len(fmt') + 1, packed', vals')
          /\ tr[Len(fmt') + 1].size = Len(packed') /\ tr[Len(fmt') + 1].count = Len(vals')
      BY <1>1, <1>5 DEF L
    <3>2. ~AllFit'
      BY <1>8, <2>1
    <3> QED  BY <3>1, <3>2 DEF Unpacking
  <2> QED  BY <2>1, <2>2, <2>3 DEF PackInv, Stops
<1>12. CASE ~(p + e > Len(packed))
  <2>1. GoesOn
    BY <1>1, <1>12
  <2>3. PackTypes'
    BY <1>1, <1>2, <1>3, <2>1 DEF PackTypes, GoesOn, L
  <2>4. ASSUME AllFit
        PROVE  /\ Len(got') = b.count /\ got' = [j \in 1 .. b.count |-> FieldKept(j)]
               /\ b = [little |-> little, align |-> align_max, size |-> pos', count |-> b.count]
    <3>1. b = [little |-> little, align |-> align_max, size |-> pos', count |-> b.count]
      <4>1. b.little = little /\ b.align = align_max /\ b.size = pos'
        BY <1>10, <2>1, <2>4 DEF GoesOn
      <4> QED  BY <1>7, <4>1 DEF Place
    <3>2. a.count \in Nat
      BY <1>7 DEF Place
    <3>3. CASE ~Pack!TakesValue(o)
      <4>1. got' = got
        BY <2>1, <3>3 DEF GoesOn
      <4>2. b.count = a.count
        <5>1. b.count = a.count + 0
          BY <1>10, <2>4, <3>3
        <5> QED  BY <3>2, <5>1
      <4> QED  BY <1>9, <2>4, <3>1, <4>1, <4>2
    <3>4. CASE Pack!TakesValue(o)
      <4> DEFINE u == Pack!Unpacked(o, p, little)
      <4>1. got' = Append(got, u) /\ b.count = a.count + 1 /\ u = FieldKept(b.count)
        BY <1>10, <2>1, <2>4, <3>4 DEF GoesOn
      <4>2. Len(got) = a.count /\ got = [j \in 1 .. a.count |-> FieldKept(j)]
        BY <1>9, <2>4
      <4> HIDE DEF u
      <4>3. Len(got') = a.count + 1 /\ got' = [j \in 1 .. a.count + 1 |-> FieldKept(j)]
        <5> DEFINE n == a.count
        <5>1. got = [j \in 1 .. n |-> got[j]] /\ \A j \in 1 .. n : got[j] = FieldKept(j)
          BY <4>2
        <5>2. Len(got') = n + 1 /\ got' = [j \in 1 .. n + 1 |-> IF j = n + 1 THEN u ELSE got[j]]
          BY <3>2, <4>1, <4>2, <5>1, AppendedIs
        <5>3. \A j \in 1 .. n + 1 : (IF j = n + 1 THEN u ELSE got[j]) = FieldKept(j)
          BY <3>2, <4>1, <5>1
        <5> QED  BY <5>2, <5>3
      <4> QED  BY <3>1, <4>1, <4>3
    <3> QED  BY <3>3, <3>4
  <2>5. Unpacking'
    <3>1. /\ Trace(fmt', tr, Len(fmt') + 1, packed', vals')
          /\ tr[Len(fmt') + 1].size = Len(packed') /\ tr[Len(fmt') + 1].count = Len(vals')
      BY <1>1, <1>5 DEF L
    <3>2. AllFit' => /\ stage' # "out of string"
                     /\ Len(got') = tr[option'].count /\ got' = [j \in 1 .. tr[option'].count |-> FieldKept(j)']
                     /\ tr[option'] = [little |-> little', align |-> align_max', size |-> pos', count |-> tr[option'].count]
      <4> SUFFICES ASSUME AllFit
                   PROVE  /\ stage' # "out of string"
                          /\ Len(got') = b.count /\ got' = [j \in 1 .. b.count |-> FieldKept(j)']
                          /\ b = [little |-> little', align |-> align_max', size |-> pos', count |-> b.count]
        BY <1>8, <2>1 DEF GoesOn, b
      <4>1. stage' # "out of string" /\ little' = little /\ align_max' = align_max
        BY <1>1, <2>1 DEF GoesOn
      <4> QED  BY <1>8, <2>4, <4>1
    <3> QED  BY <3>1, <3>2 DEF Unpacking
  <2>6. stage' = "unpack"
    BY <1>1, <2>1 DEF GoesOn
  <2> QED  BY <2>3, <2>5, <2>6 DEF PackInv
<1> QED  BY <1>11, <1>12

(* Unpacking ends behind the last option.                                  *)
LEMMA UnpackDoneKeeps ==
    ASSUME PackInv, Pack!UnpackDone
    PROVE  PackInv'
<1>1. /\ stage = "unpack" /\ option > Len(fmt) /\ stage' = "done"
      /\ fmt' = fmt /\ option' = option /\ little' = little /\ align_max' = align_max
      /\ packed' = packed /\ pos' = pos /\ vals' = vals /\ got' = got
  BY DEF Pack!UnpackDone, Pack!Ends
<1>2. PackTypes /\ Unpacking
  BY <1>1 DEF PackInv
<1>3. PackTypes'
  BY <1>1, <1>2 DEF PackTypes
<1>4. option = Len(fmt) + 1
  <2>1. fmt \in Formats /\ option \in 1 .. Len(fmt) + 1
    BY <1>2 DEF PackTypes
  <2>2. Len(fmt) \in Nat
    BY <2>1, FormatIs
  <2> QED  BY <1>1, <2>1, <2>2
<1>5. (AllFit' <=> AllFit) /\ \A j : FieldKept(j)' = FieldKept(j)
  BY <1>1 DEF AllFit, FieldKept, Pack!Fields
<1>6. PICK tr : /\ Trace(fmt, tr, Len(fmt) + 1, packed, vals)
                /\ tr[Len(fmt) + 1].size = Len(packed) /\ tr[Len(fmt) + 1].count = Len(vals)
                /\ AllFit =>
                     /\ stage # "out of string"
                     /\ Len(got) = tr[option].count /\ got = [j \in 1 .. tr[option].count |-> FieldKept(j)]
                     /\ tr[option] = [little |-> little, align |-> align_max, size |-> pos, count |-> tr[option].count]
  BY <1>2 DEF Unpacking
<1>7. AllFit' =>
        /\ stage' # "out of string"
        /\ Len(got') = tr[option'].count /\ got' = [j \in 1 .. tr[option'].count |-> FieldKept(j)']
        /\ tr[option'] = [little |-> little', align |-> align_max', size |-> pos', count |-> tr[option'].count]
  BY <1>1, <1>5, <1>6
<1>8. Unpacking'
  BY <1>1, <1>6, <1>7 DEF Unpacking
<1> QED  BY <1>1, <1>3, <1>4, <1>8 DEF PackInv

(* Every step keeps the walk.                                              *)
LEMMA PackStep ==
    ASSUME PackInv, [Pack!Next]_(Pack!vars)
    PROVE  PackInv'
<1>1. CASE UNCHANGED Pack!vars
  <2>1. /\ fmt' = fmt /\ stage' = stage /\ option' = option /\ little' = little /\ align_max' = align_max
        /\ packed' = packed /\ pos' = pos /\ vals' = vals /\ got' = got
    BY <1>1 DEF Pack!vars
  <2>2. (AllFit' <=> AllFit) /\ \A j : FieldKept(j)' = FieldKept(j)
    BY <2>1 DEF AllFit, FieldKept, Pack!Fields
  <2>3. PackTypes' /\ (Packing => Packing')
    BY <2>1 DEF PackInv, PackTypes, Packing
  <2>4. Unpacking => Unpacking'
    BY <2>1, <2>2 DEF Unpacking
  <2> QED  BY <2>1, <2>3, <2>4 DEF PackInv
<1>2. CASE Pack!Next
  BY <1>2, SettingKeeps, PackFieldKeeps, PackDoneKeeps, UnpackFieldKeeps, UnpackDoneKeeps DEF Pack!Next
<1> QED  BY <1>1, <1>2

LEMMA PackMoves ==
    [ShellNext]_shellVars => part' = part /\ (part = "pack" => [Pack!Next]_(Pack!vars))
BY DEF ShellNext, shellVars, packer, Pack!vars

LEMMA PackStarts == ShellInit => (part = "pack" => Pack!Init)
BY DEF ShellInit

(* What string.pack packed, string.unpack unpacks with the same format: it *)
(* finds every field where pack put it, whatever the byte order, the       *)
(* alignment and the padding, gives the values back, cut to their width,   *)
(* and ends at the end; and string.packsize is the size (eval.rs): for     *)
(* every format, every integer of 64 bits and every string that its field  *)
(* can hold.                                                               *)
THEOREM PackedIsUnpacked == ShellSpec => []RoundTrip
<1>1. ShellInit => (part = "pack" => PackInv)
  BY PackStarts, PackStart
<1>2. (part = "pack" => PackInv) /\ [ShellNext]_shellVars => (part = "pack" => PackInv)'
  BY PackMoves, PackStep
<1>3. ASSUME PackInv PROVE Pack!RoundTrip
  <2> SUFFICES ASSUME AllFit
               PROVE  /\ stage # "out of string"
                      /\ stage = "done" => /\ got = [j \in DOMAIN vals |-> FieldKept(j)]
                                           /\ pos = Len(packed)
                                           /\ Pack!Fixed => Pack!PackSize = Len(packed)
    BY DEF Pack!RoundTrip, AllFit, FieldKept
  <2>1. CASE stage \in {"pack", "unpack", "too long", "panic"}
    BY <2>1
  <2>2. CASE stage \in {"out of string", "done"}
    <3>1. PICK tr : /\ Trace(fmt, tr, Len(fmt) + 1, packed, vals)
                    /\ tr[Len(fmt) + 1].size = Len(packed) /\ tr[Len(fmt) + 1].count = Len(vals)
                    /\ stage # "out of string"
                    /\ got = [j \in 1 .. tr[option].count |-> FieldKept(j)]
                    /\ tr[option] = [little |-> little, align |-> align_max, size |-> pos, count |-> tr[option].count]
      BY <1>3, <2>2 DEF PackInv, Unpacking
    <3>2. option = Len(fmt) + 1
      BY <1>3, <2>2, <3>1 DEF PackInv
    <3>3. vals \in Seq(PackValue) /\ fmt \in Formats
      BY <1>3 DEF PackInv, PackTypes
    <3>4. DOMAIN vals = 1 .. Len(vals)
      <4> HIDE DEF PackValue
      <4> QED  BY <3>3
    <3>5. got = [j \in DOMAIN vals |-> FieldKept(j)]
      BY <3>1, <3>2, <3>4
    <3>6. pos = Len(packed)
      <4>1. tr[option] = [little |-> little, align |-> align_max, size |-> pos, count |-> tr[option].count]
        BY <3>1
      <4>2. tr[option].size = pos
        BY <4>1
      <4> QED  BY <3>1, <3>2, <4>2
    <3>7. Pack!Fixed => Pack!PackSize = Len(packed)
      BY <3>1, <3>3, SizeIsPacked
    <3> QED  BY <3>1, <3>5, <3>6, <3>7
  <2>3. stage \in {"pack", "unpack", "too long", "panic", "out of string", "done"}
    BY <1>3 DEF PackInv, PackTypes
  <2> QED  BY <2>1, <2>2, <2>3
<1>4. (part = "pack" => PackInv) => RoundTrip
  BY <1>3 DEF RoundTrip
<1> QED  BY <1>1, <1>2, <1>4, PTL DEF ShellSpec
=============================================================================

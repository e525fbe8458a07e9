------------------------------- MODULE Remainders -------------------------------
(***************************************************************************)
(* Lemmas about \div and %, for the two pools that pick a loop by an index. *)
(***************************************************************************)
EXTENDS Integers, TLAPS

\* Quotient and remainder, as the provers know them.
LEMMA DivMod ==
    ASSUME NEW a \in Nat, NEW n \in Nat \ {0}
    PROVE  /\ a % n \in 0..(n - 1) /\ a \div n \in Nat
           /\ a = n * (a \div n) + (a % n)
<1>1. a % n \in 0..(n - 1) OBVIOUS
<1>2. a \div n \in Nat OBVIOUS
<1>3. a = n * (a \div n) + (a % n) OBVIOUS
<1> QED BY <1>1, <1>2, <1>3

\* No remainder means a multiple.
LEMMA Multiple ==
    ASSUME NEW n \in Nat \ {0}, NEW a \in Nat, a % n = 0
    PROVE  \E q \in Nat : a = n * q
<1>1. a \div n \in Nat /\ a = n * (a \div n) + (a % n) BY DivMod, Zenon
<1>2. a = n * (a \div n) + 0 BY <1>1, Zenon
<1>3. n * (a \div n) \in Nat
  <2>1. ASSUME NEW q \in Nat PROVE n * q \in Nat OBVIOUS
  <2> QED BY <1>1, <2>1, Zenon
<1>4. ASSUME NEW p \in Nat PROVE p + 0 = p OBVIOUS
<1>5. a = n * (a \div n) BY <1>2, <1>3, <1>4, Zenon
<1> QED BY <1>1, <1>5, Zenon

\* A multiple is not less than the number.
LEMMA MultipleIsLarge ==
    ASSUME NEW n \in Nat \ {0}, NEW d \in Nat \ {0}
    PROVE  n * d >= n
<1>1. PICK e \in Nat : d = e + 1 BY d - 1 \in Nat
<1>2. n * d = n * e + n BY <1>1
<1>3. n * e \in Nat OBVIOUS
<1> QED BY <1>2, <1>3

\* There is only one quotient and remainder.
LEMMA ModIsUnique ==
    ASSUME NEW n \in Nat \ {0}, NEW q \in Nat, NEW r \in 0..(n - 1), NEW a \in Nat, a = n * q + r
    PROVE  a % n = r
<1> DEFINE p == a \div n
           s == a % n
<1>1. p \in Nat /\ s \in 0..(n - 1) /\ a = n * p + s BY DivMod
<1> HIDE DEF p, s
<1>2. CASE p < q
  <2>1. PICK d \in Nat \ {0} : q = p + d BY <1>1, <1>2, q - p \in Nat \ {0}
  <2>2. n * q = n * p + n * d BY <1>1, <2>1
  <2>3. n * d >= n /\ n * d \in Nat /\ n * p \in Nat BY <1>1, MultipleIsLarge
  <2> QED BY <1>1, <2>2, <2>3
<1>3. CASE q < p
  <2>1. PICK d \in Nat \ {0} : p = q + d BY <1>1, <1>3, p - q \in Nat \ {0}
  <2>2. n * p = n * q + n * d BY <1>1, <2>1
  <2>3. n * d >= n /\ n * d \in Nat /\ n * q \in Nat BY <1>1, MultipleIsLarge
  <2> QED BY <1>1, <2>2, <2>3
<1>4. CASE p = q BY <1>1, <1>4 DEF s
<1> QED BY <1>1, <1>2, <1>3, <1>4

\* A multiple of n does not change the remainder.
LEMMA ModShift ==
    ASSUME NEW n \in Nat \ {0}, NEW a \in Nat, NEW k \in Nat
    PROVE  (n * k + a) % n = a % n
<1> DEFINE p == a \div n
           s == a % n
<1>1. p \in Nat /\ s \in 0..(n - 1) /\ a = n * p + s BY DivMod
<1> HIDE DEF p, s
<1>2. n * k + a = n * (k + p) + s /\ k + p \in Nat /\ n * k + a \in Nat
  <2>1. n * (k + p) = n * k + n * p BY <1>1
  <2>2. n * k \in Nat /\ n * p \in Nat BY <1>1
  <2> QED BY <1>1, <2>1, <2>2
<1>3. (n * k + a) % n = s BY <1>1, <1>2, ModIsUnique
<1> QED BY <1>3 DEF s

\* The remainder of the next number.
LEMMA ModNext ==
    ASSUME NEW n \in Nat \ {0}, NEW a \in Nat
    PROVE  (a + 1) % n = ((a % n) + 1) % n
<1> DEFINE p == a \div n
           s == a % n
<1>1. p \in Nat /\ s \in 0..(n - 1) /\ a = n * p + s BY DivMod
<1> HIDE DEF p, s
<1>2. a + 1 = n * p + (s + 1) /\ s + 1 \in Nat
  <2>1. n * p \in Nat BY <1>1
  <2> QED BY <1>1, <2>1
<1>3. (n * p + (s + 1)) % n = (s + 1) % n BY <1>1, <1>2, ModShift
<1> QED BY <1>2, <1>3 DEF s
=============================================================================

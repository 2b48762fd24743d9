---------------------------- MODULE TwiBusProofs ----------------------------
(***************************************************************************)
(* Theorems about the I2C bus, for addresses, bytes and registers of any   *)
(* number, any set of other devices and long commands, any number of       *)
(* retries and stalls of the master: an undisturbed transfer keeps the     *)
(* slave in step with the master's clock, bit by bit, so that commands are *)
(* executed once and as sent and reads return consecutive registers.       *)
(*                                                                         *)
(* First induction, in a form the provers can use (over sets, not over     *)
(* predicates), for the two recursive functions the model is built from:   *)
(* the powers of two and the run of registers.  Then the inductive         *)
(* invariant, its proof action by action, and the theorems.                *)
(***************************************************************************)
EXTENDS TwiBus, WellFoundedInduction, TLAPS

(* A set of naturals that is not empty has a least element.                *)
LEMMA LeastNatural ==
  ASSUME NEW T, T \subseteq Nat, T # {}
  PROVE \E n \in T : \A m \in T : n <= m
<1> DEFINE Below == {ss \in Nat \X Nat : ss[1] < ss[2]}
<1>1. Below = OpToRel(<, Nat)
  BY Zenon DEF OpToRel
<1>2. IsWellFoundedOn(Below, Nat)
  BY <1>1, NatLessThanWellFounded
<1>3. PICK n \in T : \A m \in T : <<m, n>> \notin Below
  <2> HIDE DEF Below
  <2> QED
    BY <1>2, WFMin
<1>4. ASSUME NEW m \in T PROVE n <= m
  <2>1. m \in Nat /\ n \in Nat
    OBVIOUS
  <2>2. <<m, n>> \in Nat \X Nat /\ <<m, n>>[1] = m /\ <<m, n>>[2] = n
    BY <2>1
  <2>3. ~(m < n)
    BY <1>3, <2>2, Zenon
  <2> QED
    BY <2>1, <2>3
<1> QED
  BY <1>4

(* Induction: a set with 0 and with the successor of each of its naturals  *)
(* has them all.                                                           *)
LEMMA SetInduction ==
  ASSUME NEW S, 0 \in S, \A n \in Nat : n \in S => n + 1 \in S
  PROVE Nat \subseteq S
<1> DEFINE T == Nat \ S
<1>1. SUFFICES ASSUME T # {} PROVE FALSE
  OBVIOUS
<1>2. PICK n \in T : \A m \in T : n <= m
  <2>1. T \subseteq Nat OBVIOUS
  <2> HIDE DEF T
  <2> QED BY <1>1, <2>1, LeastNatural
<1>3. n # 0 /\ n \in Nat
  OBVIOUS
<1>4. n - 1 \in Nat /\ n - 1 \notin T
  BY <1>2, <1>3
<1>5. n - 1 \in S
  BY <1>4
<1> QED BY <1>3, <1>4, <1>5

(* A function that is started at one value and stepped from each value to  *)
(* the next exists: what a recursive function needs to be what its         *)
(* definition says.                                                        *)
LEMMA Iteration ==
  ASSUME NEW S, NEW first \in S, NEW step \in [S -> S]
  PROVE  \E f \in [Nat -> S] : f[0] = first /\ \A n \in Nat : f[n + 1] = step[f[n]]
<1> DEFINE Prefix(n, f) ==
      /\ f \in [0 .. n -> S] /\ f[0] = first
      /\ \A i \in 0 .. n - 1 : f[i + 1] = step[f[i]]
<1>1. ASSUME NEW n \in Nat, NEW f, NEW g, NEW m \in Nat, m >= n, Prefix(n, f), Prefix(m, g)
      PROVE  \A i \in 0 .. n : f[i] = g[i]
  <2> DEFINE Agree == {i \in Nat : i <= n => f[i] = g[i]}
  <2>1. 0 \in Agree
    BY <1>1
  <2>2. ASSUME NEW i \in Nat, i \in Agree PROVE i + 1 \in Agree
    <3> SUFFICES ASSUME i + 1 <= n PROVE f[i + 1] = g[i + 1]
      OBVIOUS
    <3>1. i \in 0 .. n - 1 /\ i \in 0 .. m - 1
      BY <1>1
    <3>2. f[i] = g[i]
      BY <2>2, <3>1
    <3> QED
      BY <1>1, <3>1, <3>2
  <2>3. Nat \subseteq Agree
    <3> HIDE DEF Agree
    <3> QED
      BY <2>1, <2>2, SetInduction
  <2> QED
    BY <2>3
<1>2. \A n \in Nat : \E f : Prefix(n, f)
  <2> DEFINE Some == {n \in Nat : \E f : Prefix(n, f)}
  <2>1. 0 \in Some
    <3>1. Prefix(0, [i \in 0 .. 0 |-> first])
      OBVIOUS
    <3> QED
      BY <3>1
  <2>2. ASSUME NEW n \in Nat, n \in Some PROVE n + 1 \in Some
    <3>1. PICK f : Prefix(n, f)
      BY <2>2
    <3> DEFINE g == [i \in 0 .. n + 1 |-> IF i <= n THEN f[i] ELSE step[f[n]]]
    <3>2. f[n] \in S
      BY <3>1
    <3>3. g \in [0 .. n + 1 -> S]
      BY <3>1, <3>2
    <3>4. g[0] = first
      BY <3>1
    <3>5. ASSUME NEW i \in 0 .. (n + 1) - 1 PROVE g[i + 1] = step[g[i]]
      <4>1. CASE i < n
        <5>1. i \in 0 .. n - 1 /\ i \in 0 .. n + 1 /\ i + 1 \in 0 .. n + 1 /\ i <= n /\ i + 1 <= n
          BY <4>1
        <5> QED
          BY <3>1, <5>1
      <4>2. CASE i = n
        BY <4>2
      <4> QED
        BY <4>1, <4>2
    <3>6. Prefix(n + 1, g)
      BY <3>3, <3>4, <3>5
    <3> QED
      BY <3>6
  <2>3. Nat \subseteq Some
    <3> HIDE DEF Some
    <3> QED
      BY <2>1, <2>2, SetInduction
  <2> QED
    BY <2>3
<1> DEFINE prefix == [n \in Nat |-> CHOOSE f : Prefix(n, f)]
<1>3. \A n \in Nat : Prefix(n, prefix[n])
  <2> HIDE DEF Prefix
  <2> QED
    BY <1>2
<1> DEFINE limit == [n \in Nat |-> prefix[n][n]]
<1> HIDE DEF prefix
<1>4. limit \in [Nat -> S]
  BY <1>3
<1>5. limit[0] = first
  BY <1>3
<1>6. ASSUME NEW n \in Nat PROVE limit[n + 1] = step[limit[n]]
  <2>1. Prefix(n, prefix[n]) /\ Prefix(n + 1, prefix[n + 1])
    BY <1>3
  <2>2. prefix[n + 1][n] = prefix[n][n]
    <3>1. n + 1 \in Nat /\ n + 1 >= n /\ n \in 0 .. n
      OBVIOUS
    <3> HIDE DEF Prefix
    <3>2. \A i \in 0 .. n : prefix[n][i] = prefix[n + 1][i]
      BY <1>1, <2>1, <3>1
    <3> QED
      BY <3>1, <3>2
  <2>3. n \in 0 .. (n + 1) - 1
    OBVIOUS
  <2>4. prefix[n + 1][n + 1] = step[prefix[n + 1][n]]
    BY <2>1, <2>3
  <2> QED
    BY <2>2, <2>4
<1> QED
  BY <1>4, <1>5, <1>6

-----------------------------------------------------------------------------
(* Pow2 is what its definition says (the shifts of gpio_twi.c are written  *)
(* with it).                                                               *)
LEMMA PowersOfTwo ==
    /\ Pow2 \in [Nat -> Nat \ {0}]
    /\ Pow2[0] = 1 /\ \A n \in Nat : Pow2[n + 1] = 2 * Pow2[n]
<1> DEFINE Positive == Nat \ {0}
           step == [x \in Positive |-> 2 * x]
<1>1. PICK f \in [Nat -> Positive] : f[0] = 1 /\ \A n \in Nat : f[n + 1] = step[f[n]]
  <2>1. step \in [Positive -> Positive]
    OBVIOUS
  <2>2. \A one \in Positive : \E g \in [Nat -> Positive] :
           g[0] = one /\ \A n \in Nat : g[n + 1] = step[g[n]]
    <3> HIDE DEF Positive, step
    <3> QED
      BY <2>1, Iteration
  <2>3. 1 \in Positive
    OBVIOUS
  <2> QED
    BY <2>2, <2>3
<1> DEFINE Unfolds(g) == g = [n \in Nat |-> IF n = 0 THEN 1 ELSE 2 * g[n - 1]]
<1>2. Unfolds(f)
  <2>1. ASSUME NEW n \in Nat, n # 0 PROVE f[n] = 2 * f[n - 1]
    <3>1. n - 1 \in Nat /\ n = (n - 1) + 1
      BY <2>1
    <3>2. f[(n - 1) + 1] = step[f[n - 1]]
      BY <1>1, <3>1
    <3> QED
      BY <3>1, <3>2
  <2> QED
    BY <1>1, <2>1
<1>3. Unfolds(Pow2)
  <2>1. Pow2 = CHOOSE g : Unfolds(g)
    BY DEF Pow2
  <2> HIDE DEF Unfolds
  <2> QED
    BY <1>2, <2>1
<1>4. Pow2[0] = 1 /\ \A n \in Nat : Pow2[n + 1] = 2 * Pow2[n]
  BY <1>3
<1>5. \A n \in Nat : Pow2[n] \in Nat \ {0}
  <2> DEFINE PositiveAt == {n \in Nat : Pow2[n] \in Nat \ {0}}
  <2>1. 0 \in PositiveAt /\ \A n \in Nat : n \in PositiveAt => n + 1 \in PositiveAt
    BY <1>4
  <2>2. Nat \subseteq PositiveAt
    <3> HIDE DEF PositiveAt
    <3> QED
      BY <2>1, SetInduction
  <2> QED
    BY <2>2
<1>6. Pow2 \in [Nat -> Nat \ {0}]
  BY <1>3, <1>5
<1> QED
  BY <1>4, <1>6

(* Powers of two multiply: a byte is split into the bits heard and those   *)
(* still to come.                                                          *)
LEMMA PowerOfSum ==
    \A m, n \in Nat : Pow2[m + n] = Pow2[m] * Pow2[n]
<1> TAKE m \in Nat
<1> DEFINE Sums == {n \in Nat : Pow2[m + n] = Pow2[m] * Pow2[n]}
<1>1. 0 \in Sums
  BY PowersOfTwo
<1>2. ASSUME NEW n \in Nat, n \in Sums PROVE n + 1 \in Sums
  <2>1. /\ Pow2[m] \in Nat /\ Pow2[n] \in Nat
        /\ Pow2[m + (n + 1)] = 2 * Pow2[m + n] /\ Pow2[n + 1] = 2 * Pow2[n]
    <3>1. m + n \in Nat /\ m + (n + 1) = (m + n) + 1
      OBVIOUS
    <3> QED BY <3>1, PowersOfTwo
  <2>2. \A x, y \in Nat : 2 * (x * y) = x * (2 * y)
    OBVIOUS
  <2> QED
    BY <1>2, <2>1, <2>2
<1>3. Nat \subseteq Sums
  <2> HIDE DEF Sums
  <2> QED
    BY <1>1, <1>2, SetInduction
<1> QED
  BY <1>3

(* Division with remainder.                                                *)
LEMMA Division ==
    ASSUME NEW v \in Nat, NEW d \in Nat \ {0}
    PROVE  v \div d \in Nat /\ v % d \in 0 .. d - 1 /\ v = d * (v \div d) + (v % d)
OBVIOUS

(* Quotient and remainder are unique.                                      *)
LEMMA Quotient ==
    ASSUME NEW d \in Nat \ {0}, NEW q \in Nat, NEW r \in 0 .. d - 1
    PROVE  (d * q + r) \div d = q /\ (d * q + r) % d = r
OBVIOUS

(* A shift by one place drops one bit.                                     *)
LEMMA Halved ==
    ASSUME NEW v \in Nat, NEW d \in Nat \ {0}
    PROVE  v \div d = 2 * (v \div (2 * d)) + ((v \div d) % 2)
<1> DEFINE q == v \div (2 * d)
           r == v % (2 * d)
<1>1. q \in Nat /\ r \in 0 .. 2 * d - 1 /\ v = (2 * d) * q + r
  <2>1. 2 * d \in Nat \ {0}
    OBVIOUS
  <2> QED
    BY <2>1, Division
<1> HIDE DEF q, r
<1>2. CASE r < d
  <2>1. v = d * (2 * q) + r /\ r \in 0 .. d - 1
    BY <1>1, <1>2
  <2>2. v \div d = 2 * q
    BY <1>1, <2>1
  <2> QED
    BY <1>1, <2>2 DEF q
<1>3. CASE r >= d
  <2>1. v = d * (2 * q + 1) + (r - d) /\ r - d \in 0 .. d - 1
    BY <1>1, <1>3
  <2>2. v \div d = 2 * q + 1
    BY <1>1, <2>1
  <2> QED
    BY <1>1, <2>2 DEF q
<1> QED
  BY <1>1, <1>2, <1>3

(* The values of a byte. *)
UByte == 0 .. UINT8 - 1

(* The commands and the reads keep reg_buf_position in a byte, and every   *)
(* register is a byte (communication_handler.c).                           *)
LEMMA RegisterPositions ==
    /\ UINT8 \in Nat \ {0} /\ 0 \in UByte
    /\ \A p \in UByte : Regs!NextPosition(p) \in UByte
    /\ \A p \in UByte : \A c : After(c, p) \in UByte
    /\ \A p \in UByte : Contents(p) \subseteq UByte
<1>1. UINT8 \in Nat \ {0}
  BY TwiBusAssumption, PowersOfTwo DEF UINT8
<1>2. \A n \in Nat : n % UINT8 \in UByte
  BY <1>1 DEF UByte
<1>3. \A p \in UByte : Regs!Incremented(p) \in UByte
  BY <1>2 DEF UByte, Regs!Incremented
<1>4. \A p \in UByte : Regs!Decremented(p) \in UByte
  BY <1>1 DEF UByte, Regs!Decremented
<1>5. \A p \in UByte : Contents(p) \subseteq UByte
  <2> SUFFICES ASSUME NEW p \in UByte, p < REG_BUF_SIZE PROVE send_buff[p] \in UByte
    BY DEF Contents, UByte, Regs!ReadFrom, Regs!Byte
  <2>1. p \in 0 .. REG_BUF_SIZE - 1 /\ p \in Nat
    BY TwiBusAssumption DEF UByte
  <2>2. send_buff[p] = p % UINT8
    BY <2>1 DEF send_buff
  <2> QED
    BY <1>2, <2>1, <2>2
<1>6. ASSUME NEW p \in UByte, NEW c PROVE After(c, p) \in UByte
  <2>1. {0, Regs!Incremented(p), Regs!Decremented(p), p,
         MODEM_POWER_STATE_POSITION, CURRENT_SLEEP_DURATION_POSITION} \subseteq UByte
    BY <1>1, <1>3, <1>4, <1>6, TwiBusAssumption DEF UByte
  <2> QED
    BY <2>1 DEF After
<1> QED
  BY <1>1, <1>3, <1>5, <1>6 DEF UByte, Regs!NextPosition

(* The registers of a read: the position it starts at, then always the     *)
(* following one, wrapping at the end of the buffer.                       *)
LEMMA RunUnfolds ==
    ASSUME NEW p \in UByte, NEW n \in Nat \ {0}
    PROVE  /\ Link!Run(p, n)[1] = p
           /\ \A i \in 1 .. n - 1 :
                 Link!Run(p, n)[i + 1] = Regs!NextPosition(Link!Run(p, n)[i])
<1> DEFINE Unfolds(g) == g = [i \in 1 .. n |-> IF i = 1 THEN p ELSE Regs!NextPosition(g[i - 1])]
           step == [x \in UByte |-> Regs!NextPosition(x)]
<1>1. Link!Run(p, n) = CHOOSE g : Unfolds(g)
  BY DEF Link!Run
<1>2. step \in [UByte -> UByte]
  BY RegisterPositions
<1>3. PICK f \in [Nat -> UByte] : f[0] = p /\ \A k \in Nat : f[k + 1] = step[f[k]]
  <2> HIDE DEF step
  <2> QED
    BY <1>2, Iteration
<1> DEFINE g == [i \in 1 .. n |-> f[i - 1]]
<1>4. Unfolds(g)
  <2>1. ASSUME NEW i \in 1 .. n, i # 1 PROVE g[i] = Regs!NextPosition(g[i - 1])
    <3>1. i - 2 \in Nat /\ i - 1 \in 1 .. n /\ (i - 2) + 1 = i - 1 /\ (i - 1) - 1 = i - 2
      BY <2>1
    <3>2. f[(i - 2) + 1] = Regs!NextPosition(f[i - 2])
      BY <1>3, <3>1
    <3> QED
      BY <3>1, <3>2
  <2>2. 1 \in 1 .. n /\ g[1] = p
    BY <1>3
  <2> QED
    BY <2>1, <2>2
<1>5. Unfolds(Link!Run(p, n))
  <2> HIDE DEF Unfolds
  <2> QED
    BY <1>1, <1>4
<1>6. ASSUME NEW i \in 1 .. n - 1
      PROVE  Link!Run(p, n)[i + 1] = Regs!NextPosition(Link!Run(p, n)[i])
  <2>1. i + 1 \in 1 .. n /\ i + 1 # 1 /\ (i + 1) - 1 = i
    OBVIOUS
  <2> QED
    BY <1>5, <2>1
<1> QED
  BY <1>5, <1>6

(* A value that is received bit by bit, the highest first: what has been   *)
(* received after k + 1 of its w bits.                                     *)
LEMMA NextBit ==
    ASSUME NEW v \in Nat, NEW w \in Nat, NEW k \in 0 .. w - 1
    PROVE  /\ Bit(v, k, w) \in {0, 1}
           /\ v \div Pow2[w - k] \in Nat
           /\ v \div Pow2[w - (k + 1)] = 2 * (v \div Pow2[w - k]) + Bit(v, k, w)
<1> DEFINE d == Pow2[w - (k + 1)]
<1>1. w - (k + 1) \in Nat /\ w - 1 - k = w - (k + 1) /\ w - k = (w - (k + 1)) + 1
  OBVIOUS
<1>2. d \in Nat \ {0} /\ Pow2[w - k] = 2 * d
  BY <1>1, PowersOfTwo
<1>3. Bit(v, k, w) = (v \div d) % 2
  BY <1>1 DEF Bit
<1> HIDE DEF d
<1>4. v \div d = 2 * (v \div (2 * d)) + ((v \div d) % 2)
  BY <1>2, Halved
<1>5. v \div d \in Nat /\ v \div (2 * d) \in Nat
  <2>1. 2 * d \in Nat \ {0}
    BY <1>2
  <2> QED
    BY <1>2, <2>1, Division
<1>6. (v \div d) % 2 \in {0, 1}
  BY <1>5
<1> QED
  BY <1>2, <1>3, <1>4, <1>5, <1>6 DEF d

(* Before its first bit nothing of a value is received, after its last one *)
(* all of it.                                                              *)
LEMMA NoneAndAllBits ==
    ASSUME NEW w \in Nat, NEW v \in 0 .. Pow2[w] - 1
    PROVE  v \div Pow2[w - 0] = 0 /\ v \div Pow2[w - w] = v
<1>1. Pow2[w] \in Nat \ {0} /\ Pow2[0] = 1 /\ w - 0 = w /\ w - w = 0 /\ v \in Nat
  BY PowersOfTwo
<1>2. v \div 1 = v
  BY <1>1
<1>3. \A d \in Nat \ {0} : \A x \in 0 .. d - 1 : x \div d = 0
  OBVIOUS
<1> QED
  BY <1>1, <1>2, <1>3

(* The same for the low bits of a byte that held another value before: the *)
(* higher ones leave it at the top.                                        *)
LEMMA NextCommandBit ==
    ASSUME NEW c \in UByte, NEW byte \in UByte, NEW k \in 0 .. BYTE_BITS - 1, NEW h \in Int,
           c = h * Pow2[k] + (byte \div Pow2[BYTE_BITS - k])
    PROVE  \E g \in Int : (2 * c + Bit(byte, k, BYTE_BITS)) % UINT8
                            = g * Pow2[k + 1] + (byte \div Pow2[BYTE_BITS - (k + 1)])
<1> DEFINE R == Pow2[BYTE_BITS - (k + 1)]
           x == 2 * c + Bit(byte, k, BYTE_BITS)
           t == byte \div R
<1>1. BYTE_BITS - (k + 1) \in Nat /\ BYTE_BITS \in Nat /\ k \in Nat
      /\ BYTE_BITS = (k + 1) + (BYTE_BITS - (k + 1)) /\ byte \in Nat /\ c \in Nat
  BY TwiBusAssumption, RegisterPositions DEF UByte
<1>2. /\ Pow2[k] \in Nat /\ Pow2[k + 1] = 2 * Pow2[k] /\ R \in Nat
      /\ UINT8 = Pow2[k + 1] * R /\ UINT8 \in Nat \ {0}
  <2>1. UINT8 = Pow2[(k + 1) + (BYTE_BITS - (k + 1))]
    BY <1>1 DEF UINT8
  <2>2. k + 1 \in Nat
    BY <1>1
  <2>3. Pow2[(k + 1) + (BYTE_BITS - (k + 1))] = Pow2[k + 1] * Pow2[BYTE_BITS - (k + 1)]
    BY <1>1, <2>2, PowerOfSum
  <2> QED
    BY <1>1, <2>1, <2>3, PowersOfTwo, RegisterPositions
<1>3. /\ Bit(byte, k, BYTE_BITS) \in {0, 1}
      /\ byte \div Pow2[BYTE_BITS - k] \in Nat
      /\ t = 2 * (byte \div Pow2[BYTE_BITS - k]) + Bit(byte, k, BYTE_BITS)
  BY <1>1, NextBit
<1>4. x \in Nat /\ x = 2 * (h * Pow2[k]) + t
  <2> DEFINE m == h * Pow2[k]
             b == Bit(byte, k, BYTE_BITS)
             u == byte \div Pow2[BYTE_BITS - k]
  <2>1. m \in Int /\ b \in {0, 1} /\ u \in Nat /\ c \in Nat
    BY <1>1, <1>2, <1>3
  <2>2. c = m + u /\ t = 2 * u + b
    BY <1>3
  <2>3. x = 2 * c + b /\ 2 * (h * Pow2[k]) = 2 * m
    OBVIOUS
  <2> HIDE DEF m, b, u, t, x
  <2>4. x \in Nat /\ x = 2 * m + t
    BY <2>1, <2>2, <2>3
  <2> QED
    BY <2>3, <2>4
<1>5. x % UINT8 \in Nat /\ x \div UINT8 \in Nat /\ x = UINT8 * (x \div UINT8) + (x % UINT8)
  <2>1. \A v \in Nat, d \in Nat \ {0} :
           v % d \in Nat /\ v \div d \in Nat /\ v = d * (v \div d) + (v % d)
    OBVIOUS
  <2> HIDE DEF x
  <2> QED
    BY <1>2, <1>4, <2>1
<1> DEFINE g == h - R * (x \div UINT8)
<1>6. x % UINT8 = g * Pow2[k + 1] + t
  <2> DEFINE q == x \div UINT8
             P == Pow2[k]
  <2>1. t \in Int
    BY <1>3
  <2> HIDE DEF R, t, x
  <2>2. q \in Int /\ x % UINT8 = x - UINT8 * q
    BY <1>2, <1>4, <1>5
  <2>3. P \in Int /\ R \in Int /\ UINT8 = (2 * P) * R /\ Pow2[k + 1] = 2 * P
    BY <1>2
  <2> HIDE DEF q, P
  <2>4. x - UINT8 * q = (2 * (h * P) + t) - ((2 * P) * R) * q
    BY <1>4, <2>3 DEF P
  <2>5. (2 * (h * P) + t) - ((2 * P) * R) * q = (h - R * q) * (2 * P) + t
    BY <2>1, <2>2, <2>3
  <2> QED
    BY <2>2, <2>3, <2>4, <2>5 DEF q
<1>7. g \in Int
  <2> HIDE DEF R, x
  <2> QED
    BY <1>2, <1>5
<1> QED
  BY <1>6, <1>7

(* After its last bit command_byte holds the byte sent, and nothing of the *)
(* one before.                                                             *)
LEMMA WholeCommand ==
    ASSUME NEW c \in UByte, NEW byte \in UByte, NEW h \in Int,
           c = h * Pow2[BYTE_BITS] + (byte \div Pow2[BYTE_BITS - BYTE_BITS])
    PROVE  c = byte
<1>1. BYTE_BITS \in Nat /\ UINT8 = Pow2[BYTE_BITS] /\ UINT8 \in Nat \ {0}
  BY TwiBusAssumption, RegisterPositions DEF UINT8
<1>2. byte \div Pow2[BYTE_BITS - BYTE_BITS] = byte
  BY <1>1, NoneAndAllBits DEF UByte
<1>3. \A u \in Nat \ {0} : \A i, j \in 0 .. u - 1 : i = h * u + j => i = j
  <2> SUFFICES ASSUME NEW u \in Nat \ {0}, NEW i \in 0 .. u - 1, NEW j \in 0 .. u - 1,
                      i = h * u + j
               PROVE  h = 0
    OBVIOUS
  <2>1. CASE h >= 1
    <3>1. h * u >= u
      BY <2>1
    <3> QED
      BY <3>1
  <2>2. CASE h <= -1
    <3>1. h * u <= 0 - u
      BY <2>2
    <3> QED
      BY <3>1
  <2> QED
    BY <2>1, <2>2
<1> QED
  BY <1>1, <1>2, <1>3 DEF UByte

(***************************************************************************)
(* The inductive invariant, in parts.  First the types.                    *)
(***************************************************************************)
MasterTypeOK ==
    /\ op \in Operations
    /\ mphase \in {"free", "start", "address", "address_ack", "data", "data_ack", "stop",
                   "again"}
    /\ mstep \in {"setup", "rise", "fall"}
    /\ mbit \in Nat /\ tries \in Nat /\ scl \in {0, 1} /\ msda \in {0, 1}
    /\ shift \in Nat /\ got \in Seq(Nat)
    /\ acked \in {"none", "yes", "no_address", "no_data"}
    /\ stalled \in BOOLEAN /\ dead \in BOOLEAN

SlaveTypeOK ==
    /\ pc \in {"idle", "start", "address", "rw", "foreign", "ack", "command", "command_ack",
               "handling", "byte_out", "master_ack", "nack", "stop"}
    /\ level \in {0, 1} /\ bit \in Nat
    /\ addr_reg \in Nat /\ rw_operation \in {0, 1} /\ command_byte \in 0 .. UINT8 - 1
    /\ portbhistory \in {0, 1} /\ tmp_sda_tracking \in {0, 1}
    /\ drive \in {"in", "low", "high"}
    /\ out \in 0 .. UINT8 - 1 /\ reg_buf_position \in 0 .. UINT8 - 1
    /\ irq \in BOOLEAN /\ tov0 \in BOOLEAN

TransferTypeOK ==
    /\ executed \in Seq(Nat) /\ undisturbed \in BOOLEAN /\ from \in 0 .. UINT8 - 1

(* What the master does of itself: the levels of the lines at each of its  *)
(* steps, and how much it has received.                                    *)
Lines ==
    /\ mphase \in {"free", "start", "again"} => scl = 1 /\ mstep = "setup"
    /\ mphase \in {"free", "again"} => msda = 1
    /\ mphase = "start" => msda = 0
    /\ Clocking => (scl = 1 <=> mstep = "fall")
    /\ Clocking /\ mstep # "setup" => msda = NextSda
    /\ mphase = "stop" /\ mstep = "setup" => msda = 1
    /\ op.rw = "read" /\ mstep = "setup" =>
          /\ mphase = "data_ack" => msda = 1
          /\ mphase = "data" /\ (mbit > 0 \/ got = <<>>) => msda = 1

(* Where the master is: its phase, and the bit of it.                      *)
At(phase, b) == mphase = phase /\ mbit = b

Received ==
    /\ mphase = "address" => mbit <= ADDR_BITS
    /\ mphase = "data" => mbit < BYTE_BITS
    /\ mphase \in {"address_ack", "data_ack"} => mbit = 0
    /\ mphase \in {"address", "address_ack", "data_ack"} \/ At("data", 0) => shift = 0
    /\ mphase \in {"start", "address", "address_ack", "data", "data_ack"} => acked = "yes"
    /\ mphase = "again" => acked = "no_address" /\ tries < RETRIES
    /\ mphase \in {"start", "address", "address_ack", "again"} \/ acked = "no_address" =>
          got = <<>>
    /\ op.rw = "write" /\ acked # "none" => got = <<>>
    /\ op.rw = "read" =>
          /\ mphase = "data" => Len(got) < op.length
          /\ mphase = "data_ack" => Len(got) \in 1 .. op.length
          /\ mphase \in {"stop", "free"} /\ acked = "yes" => Len(got) = op.length

MasterSound == dead \/ (Lines /\ Received)

(* What the slave does of itself: when it drives SDA, and how far its      *)
(* counter goes.                                                           *)
SlaveSound ==
    /\ pc \in {"ack", "command_ack", "handling"} => drive = "low"
    /\ pc = "byte_out" => drive = IF Bit(out, bit, BYTE_BITS) = 1 THEN "high" ELSE "low"
    /\ pc \notin {"ack", "command_ack", "handling", "byte_out"} => drive = "in"
    /\ pc \in {"command", "byte_out"} => bit < BYTE_BITS
    /\ pc = "address" => bit < ADDR_BITS
    /\ pc = "foreign" => bit \in {0, 1}
    /\ pc \in {"idle", "start", "rw", "ack", "command_ack", "master_ack", "nack", "stop"} =>
          bit = 0
    /\ pc \in {"idle", "stop"} => level = 1
    /\ pc \in {"start", "nack"} => level = 0

(* Where the master is while the slave waits for the rise or the fall of   *)
(* the clock at which the master is in the given phase and bit.            *)
High(phase, b) == At(phase, b) /\ mstep = "fall"
Fell(phase, b) == At(phase, b) /\ mstep = "setup"

DataEnds == IF bit + 1 < BYTE_BITS THEN Fell("data", bit + 1) ELSE Fell("data_ack", 0)

InStep ==
    /\ pc = "start" => mphase = "start" \/ Fell("address", 0)
    /\ pc = "address" =>
          IF level = 1 THEN At("address", bit)
          ELSE High("address", bit) \/ Fell("address", bit + 1)
    /\ pc = "rw" \/ (pc = "foreign" /\ bit = 0) =>
          IF level = 1 THEN At("address", ADDR_BITS)
          ELSE High("address", ADDR_BITS) \/ Fell("address_ack", 0)
    /\ pc = "foreign" /\ bit = 1 =>
          IF level = 1 THEN At("address_ack", 0)
          ELSE High("address_ack", 0) \/ Fell("data", 0) \/ (mphase = "stop" /\ mstep = "setup")
    /\ pc = "ack" =>
          IF level = 1 THEN At("address_ack", 0)
          ELSE High("address_ack", 0) \/ Fell("data", 0)
    /\ pc \in {"command", "byte_out"} =>
          IF level = 1 THEN At("data", bit) ELSE High("data", bit) \/ DataEnds
    /\ pc = "command_ack" =>
          IF level = 1 THEN mphase = "data_ack"
          ELSE (mphase = "data_ack" /\ mstep = "fall") \/ (mphase = "stop" /\ mstep = "setup")
    /\ pc = "master_ack" =>
          IF level = 1 THEN mphase = "data_ack"
          ELSE (mphase = "data_ack" /\ mstep = "fall" /\ ~IsLast) \/ Fell("data", 0)
    /\ pc = "nack" =>
          /\ IsLast
          /\ (mphase = "data_ack" /\ mstep = "fall") \/ (mphase = "stop" /\ mstep = "setup")
    /\ pc = "stop" => mphase = "stop" /\ mstep = "setup"
    /\ pc = "handling" => mphase \in {"stop", "free"}

(* What the slave has heard of the address and of the direction.           *)
Heard ==
    /\ pc = "start" => addr_reg = 0
    /\ pc = "address" => addr_reg = op.addr \div Pow2[ADDR_BITS - (bit + 1 - level)]
    /\ pc = "foreign" => op.addr # SLAVE_ADRESS
    /\ pc = "rw" => op.addr = SLAVE_ADRESS
    /\ pc = "ack" \/ (pc = "rw" /\ level = 0) =>
          op.addr = SLAVE_ADRESS /\ (rw_operation = 1 <=> op.rw = "read")
    /\ pc \in {"command", "command_ack", "handling"} => OwnWrite
    /\ pc \in {"byte_out", "master_ack", "nack", "stop"} => OwnRead

(* The bits of the command heard so far are the low bits of command_byte,  *)
(* which still holds some of an earlier one above them.                    *)
CommandHeard ==
    /\ pc = "command" =>
          \E h \in Int : command_byte = h * Pow2[bit + 1 - level]
                                      + (op.byte \div Pow2[BYTE_BITS - (bit + 1 - level)])
    /\ pc = "command_ack" => command_byte = op.byte

(* The registers a read returns, and how far it is.                        *)
ReadRun == Link!Run(from, op.length)

GotRegisters == \A i \in 1 .. Len(got) : got[i] \in Contents(ReadRun[i])

ReadOn ==
    /\ OwnRead /\ pc \in {"byte_out", "master_ack", "nack", "stop"} => GotRegisters
    /\ pc = "byte_out" =>
          /\ out \in Contents(reg_buf_position)
          /\ mphase = "data" =>
                /\ reg_buf_position = ReadRun[Len(got) + 1]
                /\ shift = out \div Pow2[BYTE_BITS - mbit]
          /\ mphase = "data_ack" => reg_buf_position = ReadRun[Len(got)]
    /\ pc = "ack" /\ mphase = "data" => got = <<>>
    /\ pc = "master_ack" =>
          IF level = 1 THEN reg_buf_position = ReadRun[Len(got)]
          ELSE reg_buf_position = ReadRun[Len(got) + 1]
    /\ pc \in {"nack", "stop"} => reg_buf_position = ReadRun[Len(got)]

(* What has become of the transfer.                                        *)
Untouched == executed = <<>> /\ reg_buf_position = from

Served ==
    /\ acked = "yes"
    /\ op.rw = "write" =>
          executed = <<op.byte>> /\ reg_buf_position = After(op.byte, from)
    /\ op.rw = "read" =>
          executed = <<>> /\ GotRegisters /\ reg_buf_position = ReadRun[op.length]

Missed == tries = 0 /\ Untouched

Outcome ==
    /\ pc \in {"start", "address", "rw", "foreign", "ack", "command", "command_ack"} => Untouched
    /\ pc \in {"byte_out", "master_ack", "nack", "stop"} => executed = <<>>
    /\ pc \in {"nack", "stop"} /\ mphase = "stop" => acked = "yes"
    /\ pc = "command_ack" /\ mphase = "stop" => acked = "yes"
    /\ pc = "handling" => Served
    /\ pc = "idle" /\ op.addr # SLAVE_ADRESS => Untouched
    /\ pc = "idle" /\ op.addr = SLAVE_ADRESS =>
          /\ mphase = "start" => Untouched
          /\ mphase \in {"address", "address_ack", "again"} => Missed
          /\ mphase \notin {"data", "data_ack"}
          /\ mphase = "stop" => Served \/ (Missed /\ acked = "no_address")
          /\ mphase = "free" => Served

(* What a slave outside the routine makes of the edges: it sees the start  *)
(* condition unless portbhistory was stale, and no other edge looks like   *)
(* one to it.                                                              *)
Watches ==
    /\ pc # "idle" => portbhistory = 0
    /\ pc = "idle" =>
          /\ Clocking => portbhistory = 0 \/ sda = 1 \/ (scl = 0 /\ irq)
          /\ mphase = "again" => irq \/ portbhistory = 1
          /\ mphase = "start" => irq \/ portbhistory = 0
          /\ mphase = "start" /\ tries > 0 => irq /\ portbhistory = 1

Undisturbed ==
    /\ tov0 /\ ~stalled /\ ~dead
    /\ InStep /\ Heard /\ CommandHeard /\ ReadOn /\ Outcome /\ Watches

BusInv ==
    /\ MasterTypeOK /\ SlaveTypeOK /\ TransferTypeOK
    /\ MasterSound /\ SlaveSound
    /\ dead => stalled
    /\ undisturbed => Undisturbed

-----------------------------------------------------------------------------
(* The constants, as the proofs use them. *)
LEMMA ConstantTypes ==
    /\ ADDR_BITS \in Nat \ {0} /\ BYTE_BITS \in Nat \ {0} /\ RETRIES \in Nat \ {0}
    /\ UINT8 \in Nat \ {0} /\ SLAVE_ADRESS \notin FOREIGN
    /\ \A o \in Operations :
          /\ o.addr \in 0 .. Pow2[ADDR_BITS] - 1 /\ o.rw \in {"read", "write"}
          /\ o.byte \in 0 .. UINT8 - 1 /\ o.length \in Nat \ {0}
BY TwiBusAssumption, RegisterPositions

(* The line has one of two levels.                                         *)
LEMMA SdaIsABit == MasterTypeOK => sda \in {0, 1}
BY DEF sda, MasterTypeOK

(* The types, step by step of the slave. *)
LEMMA SlaveStepTypes ==
    ASSUME MasterTypeOK, SlaveTypeOK, TransferTypeOK, SlaveSound, Slave
    PROVE  SlaveTypeOK' /\ TransferTypeOK' /\ SlaveSound'
<1> USE ConstantTypes, SdaIsABit
   DEF SlaveTypeOK, SlaveSound, Through, WaitIn, received, remembered, UByte
<1>1. /\ UNCHANGED <<tov0, masterVars, failures, undisturbed, from>>
      /\ executed' = executed \/ (HandleCommand /\ executed' = Append(executed, command_byte))
  BY DEF Slave
<1>2. TransferTypeOK' /\ tov0' \in BOOLEAN
  BY <1>1 DEF TransferTypeOK
<1>3. CASE StartCondition
  BY <1>2, <1>3 DEF StartCondition
<1>4. CASE OtherPinChange
  BY <1>2, <1>4 DEF OtherPinChange
<1>5. CASE StartEnds
  BY <1>2, <1>5 DEF StartEnds
<1>6. CASE AddressBit
  BY <1>2, <1>6 DEF AddressBit
<1>7. CASE AddressBitEnds
  BY <1>2, <1>7 DEF AddressBitEnds
<1>8. CASE ReadWriteBit
  BY <1>2, <1>8 DEF ReadWriteBit
<1>9. CASE Acknowledge
  BY <1>2, <1>9 DEF Acknowledge
<1>10. CASE ClockRises
  BY <1>2, <1>10 DEF ClockRises
<1>11. CASE AcknowledgeEnds
  BY <1>2, <1>11, RegisterPositions DEF AcknowledgeEnds, SendRegister, Shift
<1>12. CASE SentBitEnds
  BY <1>2, <1>12 DEF SentBitEnds, Shift
<1>13. CASE MasterAck
  BY <1>2, <1>13, RegisterPositions DEF MasterAck
<1>14. CASE NextRegister
  BY <1>2, <1>14, RegisterPositions DEF NextRegister, SendRegister, Shift
<1>15. CASE NackEnds
  BY <1>2, <1>15 DEF NackEnds
<1>16. CASE ReadEnds
  BY <1>2, <1>16 DEF ReadEnds, Exit, StopSeen
<1>17. CASE CommandBit
  BY <1>2, <1>17 DEF CommandBit
<1>18. CASE CommandBitEnds
  BY <1>2, <1>18 DEF CommandBitEnds
<1>19. CASE ForeignClockEnds
  <2>1. Exit => irq' \in BOOLEAN
    BY DEF Exit
  <2>2. CASE bit = 0
    BY <1>2, <1>19, <2>2 DEF ForeignClockEnds
  <2>3. CASE bit # 0
    <3>1. Exit /\ UNCHANGED <<received, remembered, out, reg_buf_position>>
      BY <1>19, <2>3 DEF ForeignClockEnds
    <3>2. pc' = "idle" /\ level' = 1 /\ bit' = 0 /\ drive' = "in" /\ irq' \in BOOLEAN
      BY <2>1, <3>1 DEF Exit
    <3> QED
      BY <1>2, <3>1, <3>2
  <2> QED
    BY <2>2, <2>3
<1>20. CASE HandleCommand
  BY <1>2, <1>20, RegisterPositions DEF HandleCommand, Exit
<1>21. CASE LongCommandEnds
  BY <1>2, <1>21 DEF LongCommandEnds, Exit
<1> QED
  BY <1>3, <1>4, <1>5, <1>6, <1>7, <1>8, <1>9, <1>10, <1>11, <1>12, <1>13, <1>14, <1>15,
     <1>16, <1>17, <1>18, <1>19, <1>20, <1>21 DEF Slave, Listen

(* The types, step by step of the master. *)
LEMMA MasterStepTypes ==
    ASSUME MasterTypeOK, Lines, Received, MasterBegins \/ MasterContinues, UNCHANGED failures
    PROVE  MasterTypeOK' /\ Lines' /\ Received'
<1> USE ConstantTypes, SdaIsABit DEF MasterTypeOK, failures, At
<1>1. op \in Operations /\ op.addr \in Nat /\ op.byte \in Nat /\ op.rw \in {"read", "write"}
      /\ op.length \in Nat \ {0}
  BY RegisterPositions
<1>2. Clocking => NextSda \in {0, 1}
  <2>1. mphase = "address" /\ mbit < ADDR_BITS => Bit(op.addr, mbit, ADDR_BITS) \in {0, 1}
    <3>1. mbit < ADDR_BITS => mbit \in 0 .. ADDR_BITS - 1
      OBVIOUS
    <3> QED
      BY <1>1, <3>1, NextBit
  <2>2. mphase = "data" => Bit(op.byte, mbit, BYTE_BITS) \in {0, 1}
    <3>1. mphase = "data" => mbit \in 0 .. BYTE_BITS - 1
      BY DEF Received
    <3> QED
      BY <1>1, <3>1, NextBit
  <2> QED
    BY <2>1, <2>2 DEF NextSda
<1>3. CASE MasterBegins
  BY <1>3 DEF MasterBegins, Lines, Received, Clocking
<1>4. CASE MasterRetries
  BY <1>4 DEF MasterRetries, Lines, Received, Clocking
<1>5. CASE MasterStarts
  BY <1>5 DEF MasterStarts, Lines, Received, Clocking
<1>6. CASE SetSda
  <2>1. NextSda' = NextSda
    BY <1>6 DEF SetSda, NextSda, IsLast
  <2>2. MasterTypeOK'
    BY <1>2, <1>6 DEF SetSda
  <2>3. Lines'
    BY <1>6, <2>1 DEF SetSda, Lines, Clocking
  <2>4. Received'
    BY <1>6 DEF SetSda, Received
  <2> QED
    BY <2>2, <2>3, <2>4
<1>7. CASE RaiseScl
  <2>1. NextSda' = NextSda
    BY <1>7 DEF RaiseScl, NextSda, IsLast
  <2>2. MasterTypeOK'
    BY <1>2, <1>7 DEF RaiseScl
  <2>3. Lines'
    BY <1>7, <2>1 DEF RaiseScl, Lines, Clocking
  <2>4. Received'
    BY <1>7 DEF RaiseScl, Received
  <2> QED
    BY <2>2, <2>3, <2>4
<1>8. CASE AddressClockEnds
  <2>1. MasterTypeOK'
    BY <1>8 DEF AddressClockEnds, LowerScl
  <2>2. Lines'
    BY <1>8 DEF AddressClockEnds, LowerScl, Lines, Clocking
  <2>3. Received'
    BY <1>8 DEF AddressClockEnds, LowerScl, Received
  <2> QED
    BY <2>1, <2>2, <2>3
<1>9. CASE AddressAckEnds
  <2>1. MasterTypeOK'
    BY <1>9 DEF AddressAckEnds, LowerScl
  <2>2. Lines'
    BY <1>9 DEF AddressAckEnds, LowerScl, Lines, Clocking, NextSda
  <2>3. Received'
    BY <1>1, <1>9 DEF AddressAckEnds, LowerScl, Received
  <2> QED
    BY <2>1, <2>2, <2>3
<1>10. CASE DataClockEnds
  <2>1. 2 * shift + sda \in Nat /\ Append(got, 2 * shift + sda) \in Seq(Nat)
    OBVIOUS
  <2>2. MasterTypeOK'
    <3>1. shift' = 0 \/ shift' = 2 * shift + sda
      BY <1>10 DEF DataClockEnds
    <3>2. got' = got \/ got' = Append(got, 2 * shift + sda)
      BY <1>10 DEF DataClockEnds
    <3>3. /\ mphase' \in {"data", "data_ack"} /\ mstep' = "setup" /\ mbit' \in Nat /\ scl' = 0
          /\ UNCHANGED <<op, tries, msda, acked, failures>>
      BY <1>10 DEF DataClockEnds, LowerScl
    <3>4. shift' \in Nat
      BY <2>1, <3>1
    <3>5. got' \in Seq(Nat)
      BY <2>1, <3>2
    <3> QED
      BY <3>3, <3>4, <3>5
  <2>3. Lines'
    <3>1. op.rw = "read" => msda = 1
      BY <1>10 DEF DataClockEnds, LowerScl, Lines, Clocking, NextSda
    <3>2. /\ scl' = 0 /\ mstep' = "setup" /\ mphase' \in {"data", "data_ack"}
          /\ UNCHANGED <<op, msda>>
      BY <1>10 DEF DataClockEnds, LowerScl
    <3> QED
      BY <3>1, <3>2 DEF Lines, Clocking
  <2>4. Received'
    BY <1>1, <1>10 DEF DataClockEnds, LowerScl, Received
  <2> QED
    BY <2>2, <2>3, <2>4
<1>11. CASE DataAckEnds
  <2>1. MasterTypeOK'
    BY <1>11 DEF DataAckEnds, LowerScl
  <2>2. Lines'
    BY <1>11 DEF DataAckEnds, LowerScl, Lines, Received, Clocking, NextSda, IsLast
  <2>3. Received'
    BY <1>1, <1>11 DEF DataAckEnds, LowerScl, Received, IsLast
  <2> QED
    BY <2>1, <2>2, <2>3
<1>12. CASE MasterStops
  <2>1. MasterTypeOK'
    BY <1>12 DEF MasterStops
  <2>2. Lines'
    BY <1>12 DEF MasterStops, Lines, Clocking
  <2>3. Received'
    BY <1>1, <1>12 DEF MasterStops, Received
  <2> QED
    BY <2>1, <2>2, <2>3
<1> QED
  BY <1>3, <1>4, <1>5, <1>6, <1>7, <1>8, <1>9, <1>10, <1>11, <1>12 DEF MasterContinues

(* An undisturbed slave never waits for a clock of a bus that is free: its *)
(* waits end with the edge they are for, not by time-out.                  *)
LEMMA SlaveFollows ==
    ASSUME BusInv, undisturbed
    PROVE  /\ pc \notin {"idle", "handling"} => mphase # "free"
           /\ \A p, l : p \notin {"idle", "handling"} /\ Through(p, l) =>
                 pc = p /\ level = l /\ scl = l
<1>1. pc \notin {"idle", "handling"} => mphase # "free"
  BY DEF BusInv, Undisturbed, InStep, SlaveTypeOK, SlaveSound, At, High, Fell, DataEnds
<1>2. tov0 /\ ~stalled
  BY DEF BusInv, Undisturbed
<1> QED
  BY <1>1, <1>2 DEF Through, Released, quiet

(* What the slave finds on the bus: the other devices leave SDA alone.     *)
LEMMA LevelOfSda ==
    /\ op.addr = SLAVE_ADRESS \/ mphase \notin {"address_ack", "data", "data_ack"} =>
          (pulled <=> msda = 0)
    /\ ~pulled /\ drive # "low" => sda = 1
    /\ pulled \/ drive = "low" => sda = 0
BY ConstantTypes DEF pulled, OtherPullsLow, sda

(* A step of the slave in an undisturbed transfer, whichever wait of the   *)
(* routine it ends, leaves the slave in step, with the bits it has heard   *)
(* and the outcome so far.                                                 *)
LEMMA SlaveStepKeepsSync ==
    ASSUME BusInv, undisturbed, Slave
    PROVE  Undisturbed'
<1> USE ConstantTypes, SdaIsABit, LevelOfSda, SlaveFollows
   DEF SlaveTypeOK, WaitIn, received, remembered,
    At, High, Fell, DataEnds, OwnWrite, OwnRead, Untouched, Missed, Clocking, masterVars,
    failures, IsLast
<1>1. /\ MasterTypeOK /\ SlaveTypeOK /\ TransferTypeOK /\ Lines /\ Received /\ SlaveSound
      /\ tov0 /\ ~stalled /\ ~dead
      /\ InStep /\ Heard /\ CommandHeard /\ ReadOn /\ Outcome /\ Watches
      /\ UNCHANGED <<tov0, masterVars, failures, undisturbed, from>>
  BY DEF BusInv, Undisturbed, MasterSound, Slave
<1>2. CASE StartCondition /\ UNCHANGED executed
  <2>1. mphase = "start"
    BY <1>1, <1>2 DEF StartCondition, StartSeen, MasterTypeOK, Watches, Lines, SlaveSound
  <2>2. InStep'
    BY <1>1, <1>2, <2>1 DEF StartCondition, StartSeen, InStep, Lines, SlaveSound
  <2>3. Heard'
    BY <1>1, <1>2, <2>1 DEF StartCondition, StartSeen, Heard, InStep, Lines, SlaveSound
  <2>4. CommandHeard'
    BY <1>1, <1>2, <2>1 DEF StartCondition, StartSeen, CommandHeard, Heard, InStep
  <2>5. ReadOn'
    BY <1>1, <1>2, <2>1
       DEF StartCondition, StartSeen, ReadOn, Heard, InStep, GotRegisters, ReadRun, Lines
  <2>6. Outcome'
    BY <1>1, <1>2, <2>1 DEF StartCondition, StartSeen, Outcome, Heard, InStep, Lines, Received,
       Served, GotRegisters, ReadRun
  <2>7. Watches'
    BY <1>1, <1>2, <2>1 DEF StartCondition, StartSeen, Watches, InStep, Lines
  <2> QED
    BY <1>1, <2>2, <2>3, <2>4, <2>5, <2>6, <2>7 DEF Undisturbed
<1>3. CASE OtherPinChange /\ UNCHANGED executed
  <2>1. /\ sda' = sda /\ (mphase = "start" => sda = 0) /\ (mphase = "again" => sda = 1)
        /\ portbhistory' = sda /\ pc = "idle" /\ pc' = "idle" /\ irq' = FALSE
        /\ ~(portbhistory # sda /\ sda = 0 /\ scl = 1)
    BY <1>1, <1>3 DEF OtherPinChange, StartSeen, Lines, SlaveSound, sda, pulled, OtherPullsLow
  <2>2. InStep'
    BY <1>1, <1>3 DEF OtherPinChange, StartSeen, InStep, Lines, SlaveSound
  <2>3. Heard'
    BY <1>1, <1>3 DEF OtherPinChange, StartSeen, Heard, InStep, Lines, SlaveSound
  <2>4. CommandHeard'
    BY <1>1, <1>3 DEF OtherPinChange, StartSeen, CommandHeard, Heard, InStep
  <2>5. ReadOn'
    BY <1>1, <1>3
       DEF OtherPinChange, StartSeen, ReadOn, Heard, InStep, GotRegisters, ReadRun, Lines
  <2>6. Outcome'
    BY <1>1, <1>3 DEF OtherPinChange, StartSeen, Outcome, Heard, InStep, Lines, Received,
       Served, GotRegisters, ReadRun
  <2>7. Watches'
    BY <1>1, <1>3, <2>1 DEF OtherPinChange, StartSeen, Watches, InStep, Lines
  <2> QED
    BY <1>1, <2>2, <2>3, <2>4, <2>5, <2>6, <2>7 DEF Undisturbed
<1>4. CASE StartEnds /\ UNCHANGED executed
  <2>1. op.addr \div Pow2[ADDR_BITS - 0] = 0 /\ bit = 0
    BY <1>1, <1>4, NoneAndAllBits DEF MasterTypeOK, StartEnds, SlaveSound
  <2>2. InStep'
    BY <1>1, <1>4 DEF StartEnds, InStep, Lines, SlaveSound
  <2>3. Heard'
    BY <1>1, <1>4, <2>1 DEF StartEnds, Heard, InStep, Lines, SlaveSound
  <2>4. CommandHeard'
    BY <1>1, <1>4 DEF StartEnds, CommandHeard, Heard, InStep
  <2>5. ReadOn'
    BY <1>1, <1>4 DEF StartEnds, ReadOn, Heard, InStep, GotRegisters, ReadRun, Lines
  <2>6. Outcome'
    BY <1>1, <1>4
       DEF StartEnds, Outcome, Heard, InStep, Lines, Received, Served, GotRegisters, ReadRun
  <2>7. Watches'
    BY <1>1, <1>4 DEF StartEnds, Watches, InStep, Lines
  <2> QED
    BY <1>1, <2>2, <2>3, <2>4, <2>5, <2>6, <2>7 DEF Undisturbed
<1>5. CASE AddressBit /\ UNCHANGED executed
  <2>1. /\ bit \in 0 .. ADDR_BITS - 1 /\ op.addr \in Nat
        /\ pc = "address" /\ level = 1 /\ mphase = "address" /\ mbit = bit /\ mstep = "fall"
        /\ level' = 0 /\ pc' = "address" /\ bit' = bit
    BY <1>1, <1>5 DEF AddressBit, InStep, Lines, SlaveSound, MasterTypeOK
  <2>2. sda = Bit(op.addr, bit, ADDR_BITS)
    <3>1. msda = Bit(op.addr, bit, ADDR_BITS) /\ drive = "in"
      BY <1>1, <2>1 DEF Lines, NextSda, SlaveSound
    <3> QED
      BY <1>1, <2>1, <3>1, NextBit DEF MasterTypeOK
  <2>3. addr_reg' = op.addr \div Pow2[ADDR_BITS - (bit + 1)]
    <3>1. addr_reg = op.addr \div Pow2[ADDR_BITS - bit]
      BY <1>1, <2>1 DEF Heard
    <3>2. addr_reg' = 2 * addr_reg + sda
      BY <1>5 DEF AddressBit
    <3> QED
      BY <2>1, <2>2, <3>1, <3>2, NextBit
  <2>4. InStep'
    BY <1>1, <1>5 DEF AddressBit, InStep, Lines, SlaveSound
  <2>5. Heard'
    BY <1>1, <1>5, <2>1, <2>3 DEF AddressBit, Heard, InStep, Lines, SlaveSound
  <2>6. CommandHeard'
    BY <1>1, <1>5 DEF AddressBit, CommandHeard, Heard, InStep
  <2>7. ReadOn'
    BY <1>1, <1>5 DEF AddressBit, ReadOn, Heard, InStep, GotRegisters, ReadRun, Lines
  <2>8. Outcome'
    BY <1>1, <1>5
       DEF AddressBit, Outcome, Heard, InStep, Lines, Received, Served, GotRegisters, ReadRun
  <2>9. Watches'
    BY <1>1, <1>5 DEF AddressBit, Watches, InStep, Lines
  <2> QED
    BY <1>1, <2>4, <2>5, <2>6, <2>7, <2>8, <2>9 DEF Undisturbed
<1>6. CASE AddressBitEnds /\ UNCHANGED executed
  <2>1. /\ bit \in 0 .. ADDR_BITS - 1 /\ pc = "address" /\ level = 0 /\ level' = 1
        /\ addr_reg = op.addr \div Pow2[ADDR_BITS - (bit + 1)] /\ addr_reg' = addr_reg
    BY <1>1, <1>6 DEF AddressBitEnds, Heard, SlaveSound
  <2>2. bit + 1 = ADDR_BITS => addr_reg = op.addr
    <3>1. op.addr \in 0 .. Pow2[ADDR_BITS] - 1
      BY <1>1 DEF MasterTypeOK
    <3> QED
      BY <2>1, <3>1, NoneAndAllBits
  <2>3. bit + 1 < ADDR_BITS => (bit + 1) + 1 - 1 = bit + 1
    BY <2>1
  <2>4. InStep'
    BY <1>1, <1>6 DEF AddressBitEnds, InStep, Lines, SlaveSound
  <2>5. Heard'
    BY <1>1, <1>6, <2>1, <2>2, <2>3 DEF AddressBitEnds, Heard, InStep, Lines, SlaveSound
  <2>6. CommandHeard'
    BY <1>1, <1>6 DEF AddressBitEnds, CommandHeard, Heard, InStep
  <2>7. ReadOn'
    BY <1>1, <1>6 DEF AddressBitEnds, ReadOn, Heard, InStep, GotRegisters, ReadRun, Lines
  <2>8. Outcome'
    BY <1>1, <1>6
       DEF AddressBitEnds, Outcome, Heard, InStep, Lines, Received, Served, GotRegisters,
          ReadRun
  <2>9. Watches'
    BY <1>1, <1>6 DEF AddressBitEnds, Watches, InStep, Lines
  <2> QED
    BY <1>1, <2>4, <2>5, <2>6, <2>7, <2>8, <2>9 DEF Undisturbed
<1>7. CASE ReadWriteBit /\ UNCHANGED executed
  <2>1. sda = 1 <=> op.rw = "read"
    <3>1. mphase = "address" /\ mbit = ADDR_BITS /\ mstep = "fall" /\ drive = "in"
      BY <1>1, <1>7 DEF ReadWriteBit, InStep, Lines, SlaveSound
    <3>2. msda = IF op.rw = "read" THEN 1 ELSE 0
      BY <1>1, <3>1 DEF Lines, NextSda
    <3> QED
      BY <3>1, <3>2
  <2>2. InStep'
    BY <1>1, <1>7 DEF ReadWriteBit, InStep, Lines, SlaveSound
  <2>3. Heard'
    BY <1>1, <1>7, <2>1 DEF ReadWriteBit, Heard, InStep, Lines, SlaveSound
  <2>4. CommandHeard'
    BY <1>1, <1>7 DEF ReadWriteBit, CommandHeard, Heard, InStep
  <2>5. ReadOn'
    BY <1>1, <1>7 DEF ReadWriteBit, ReadOn, Heard, InStep, GotRegisters, ReadRun, Lines
  <2>6. Outcome'
    BY <1>1, <1>7
       DEF ReadWriteBit, Outcome, Heard, InStep, Lines, Received, Served, GotRegisters, ReadRun
  <2>7. Watches'
    BY <1>1, <1>7 DEF ReadWriteBit, Watches, InStep, Lines
  <2> QED
    BY <1>1, <2>2, <2>3, <2>4, <2>5, <2>6, <2>7 DEF Undisturbed
<1>8. CASE Acknowledge /\ UNCHANGED executed
  <2>1. InStep'
    BY <1>1, <1>8 DEF Acknowledge, InStep, Lines, SlaveSound
  <2>2. Heard'
    BY <1>1, <1>8 DEF Acknowledge, Heard, InStep, Lines, SlaveSound
  <2>3. CommandHeard'
    BY <1>1, <1>8 DEF Acknowledge, CommandHeard, Heard, InStep
  <2>4. ReadOn'
    BY <1>1, <1>8 DEF Acknowledge, ReadOn, Heard, InStep, GotRegisters, ReadRun, Lines
  <2>5. Outcome'
    BY <1>1, <1>8
       DEF Acknowledge, Outcome, Heard, InStep, Lines, Received, Served, GotRegisters, ReadRun
  <2>6. Watches'
    BY <1>1, <1>8 DEF Acknowledge, Watches, InStep, Lines
  <2> QED
    BY <1>1, <2>1, <2>2, <2>3, <2>4, <2>5, <2>6 DEF Undisturbed
<1>9. CASE ClockRises /\ UNCHANGED executed
  <2>1. InStep'
    BY <1>1, <1>9 DEF ClockRises, InStep, Lines, SlaveSound
  <2>2. Heard'
    BY <1>1, <1>9 DEF ClockRises, Heard, InStep, Lines, SlaveSound
  <2>3. CommandHeard'
    BY <1>1, <1>9 DEF ClockRises, CommandHeard, Heard, InStep
  <2>4. ReadOn'
    BY <1>1, <1>9 DEF ClockRises, ReadOn, Heard, InStep, GotRegisters, ReadRun, Lines
  <2>5. Outcome'
    BY <1>1, <1>9
       DEF ClockRises, Outcome, Heard, InStep, Lines, Received, Served, GotRegisters, ReadRun
  <2>6. Watches'
    BY <1>1, <1>9 DEF ClockRises, Watches, InStep, Lines
  <2> QED
    BY <1>1, <2>1, <2>2, <2>3, <2>4, <2>5, <2>6 DEF Undisturbed
<1>10. CASE AcknowledgeEnds /\ UNCHANGED executed
  <2>1. /\ op.rw \in {"read", "write"} /\ op.byte \in 0 .. UINT8 - 1 /\ op.length \in Nat \ {0}
        /\ pc = "ack" /\ bit' = 0 /\ level' = 1 /\ op.addr = SLAVE_ADRESS
        /\ (rw_operation = 1 <=> op.rw = "read") /\ Fell("data", 0)
        /\ pc' = IF op.rw = "read" THEN "byte_out" ELSE "command"
    BY <1>1, <1>10 DEF AcknowledgeEnds, SendRegister, MasterTypeOK, Heard, InStep, Lines
  <2>2. /\ got = <<>> /\ Len(got) + 1 = 1 /\ shift = 0
        /\ reg_buf_position = ReadRun[1]
    <3>1. ReadRun[1] = from
      BY <1>1, <2>1, RunUnfolds DEF TransferTypeOK, ReadRun, UByte
    <3>2. got = <<>> /\ shift = 0 /\ reg_buf_position = from
      BY <1>1, <2>1 DEF Outcome, ReadOn, Received
    <3> QED
      BY <3>1, <3>2
  <2>3. command_byte = command_byte * Pow2[bit' + 1 - level']
                     + (op.byte \div Pow2[BYTE_BITS - (bit' + 1 - level')])
    <3>1. bit' + 1 - level' = 0 /\ Pow2[0] = 1
      BY <2>1, PowersOfTwo
    <3>2. op.byte \div Pow2[BYTE_BITS - 0] = 0
      BY <2>1, NoneAndAllBits DEF UINT8
    <3>3. command_byte * 1 + 0 = command_byte
      BY <1>1
    <3> QED
      BY <3>1, <3>2, <3>3
  <2>4. op.rw = "read" => /\ out' \in Contents(reg_buf_position)
                          /\ out' \div Pow2[BYTE_BITS - 0] = 0
    <3>1. op.rw = "read" => out' \in Contents(reg_buf_position)
      BY <1>10, <2>1 DEF AcknowledgeEnds, SendRegister
    <3>2. op.rw = "read" => out' \in 0 .. UINT8 - 1
      BY <1>1, <3>1, RegisterPositions DEF UByte
    <3> QED
      BY <3>1, <3>2, NoneAndAllBits DEF UINT8
  <2>5. InStep'
    BY <1>1, <1>10 DEF AcknowledgeEnds, SendRegister, Shift, InStep, Lines, SlaveSound
  <2>6. Heard'
    BY <1>1, <1>10, <2>1
       DEF AcknowledgeEnds, SendRegister, Shift, Heard, InStep, Lines, SlaveSound
  <2>7. CommandHeard'
    BY <1>1, <1>10, <2>1, <2>3
       DEF AcknowledgeEnds, SendRegister, Shift, CommandHeard, Heard, InStep
  <2>8. ReadOn'
    BY <1>1, <1>10, <2>1, <2>2, <2>4
       DEF AcknowledgeEnds, SendRegister, Shift, ReadOn, Heard, InStep, GotRegisters, ReadRun,
          Lines
  <2>9. Outcome'
    BY <1>1, <1>10 DEF AcknowledgeEnds, SendRegister, Shift, Outcome, Heard, InStep, Lines,
       Received, Served, GotRegisters, ReadRun
  <2>10. Watches'
    BY <1>1, <1>10 DEF AcknowledgeEnds, SendRegister, Shift, Watches, InStep, Lines
  <2> QED
    BY <1>1, <2>5, <2>6, <2>7, <2>8, <2>9, <2>10 DEF Undisturbed
<1>11. CASE SentBitEnds /\ UNCHANGED executed
  <2>1. InStep'
    BY <1>1, <1>11 DEF SentBitEnds, Shift, InStep, Lines, SlaveSound
  <2>2. Heard'
    BY <1>1, <1>11 DEF SentBitEnds, Shift, Heard, InStep, Lines, SlaveSound
  <2>3. CommandHeard'
    BY <1>1, <1>11 DEF SentBitEnds, Shift, CommandHeard, Heard, InStep
  <2>4. ReadOn'
    BY <1>1, <1>11 DEF SentBitEnds, Shift, ReadOn, Heard, InStep, GotRegisters, ReadRun, Lines
  <2>5. Outcome'
    BY <1>1, <1>11
       DEF SentBitEnds, Shift, Outcome, Heard, InStep, Lines, Received, Served, GotRegisters,
          ReadRun
  <2>6. Watches'
    BY <1>1, <1>11 DEF SentBitEnds, Shift, Watches, InStep, Lines
  <2> QED
    BY <1>1, <2>1, <2>2, <2>3, <2>4, <2>5, <2>6 DEF Undisturbed
<1>12. CASE MasterAck /\ UNCHANGED executed
  <2>1. /\ pc = "master_ack" /\ level = 1 /\ mphase = "data_ack" /\ mstep = "fall" /\ OwnRead
        /\ level' = 0 /\ bit' = bit /\ Len(got) \in 1 .. op.length
    BY <1>1, <1>12 DEF MasterAck, InStep, Lines, Heard, Received
  <2>2. sda = 0 <=> ~IsLast
    <3>1. drive = "in" /\ (msda = 0 <=> ~IsLast)
      BY <1>1, <2>1 DEF SlaveSound, Lines, NextSda
    <3> QED
      BY <2>1, <3>1
  <2>3. ~IsLast => ReadRun[Len(got) + 1] = Regs!NextPosition(ReadRun[Len(got)])
    <3>1. ~IsLast => Len(got) \in 1 .. op.length - 1
      BY <1>1, <2>1 DEF MasterTypeOK
    <3> QED
      BY <1>1, <3>1, RunUnfolds DEF MasterTypeOK, TransferTypeOK, ReadRun, UByte
  <2>4. /\ IsLast => pc' = "nack" /\ reg_buf_position' = reg_buf_position
        /\ ~IsLast => /\ pc' = "master_ack"
                      /\ reg_buf_position' = Regs!NextPosition(reg_buf_position)
    BY <1>12, <2>2 DEF MasterAck
  <2>5. ~IsLast => shift = 0
    BY <1>1, <2>1 DEF Received
  <2>6. InStep'
    BY <1>1, <1>12, <2>1, <2>4 DEF MasterAck, InStep, Lines, SlaveSound
  <2>7. Heard'
    BY <1>1, <1>12 DEF MasterAck, Heard, InStep, Lines, SlaveSound
  <2>8. CommandHeard'
    BY <1>1, <1>12 DEF MasterAck, CommandHeard, Heard, InStep
  <2>9. ReadOn'
    BY <1>1, <1>12, <2>1, <2>3, <2>4, <2>5
       DEF MasterAck, ReadOn, Heard, InStep, GotRegisters, ReadRun, Lines
  <2>10. Outcome'
    BY <1>1, <1>12
       DEF MasterAck, Outcome, Heard, InStep, Lines, Received, Served, GotRegisters, ReadRun
  <2>11. Watches'
    BY <1>1, <1>12 DEF MasterAck, Watches, InStep, Lines
  <2> QED
    BY <1>1, <2>6, <2>7, <2>8, <2>9, <2>10, <2>11 DEF Undisturbed
<1>13. CASE NextRegister /\ UNCHANGED executed
  <2>1. /\ pc = "master_ack" /\ level = 0 /\ Fell("data", 0) /\ OwnRead
        /\ pc' = "byte_out" /\ level' = 1 /\ bit' = 0 /\ shift = 0
        /\ reg_buf_position = ReadRun[Len(got) + 1] /\ reg_buf_position' = reg_buf_position
        /\ out' \in Contents(reg_buf_position)
    BY <1>1, <1>13 DEF NextRegister, SendRegister, InStep, Lines, Heard, ReadOn, Received
  <2>2. out' \div Pow2[BYTE_BITS - 0] = 0
    <3>1. out' \in 0 .. UINT8 - 1
      BY <1>1, <2>1, RegisterPositions DEF UByte
    <3> QED
      BY <3>1, NoneAndAllBits DEF UINT8
  <2>3. InStep'
    BY <1>1, <1>13 DEF NextRegister, SendRegister, Shift, InStep, Lines, SlaveSound
  <2>4. Heard'
    BY <1>1, <1>13 DEF NextRegister, SendRegister, Shift, Heard, InStep, Lines, SlaveSound
  <2>5. CommandHeard'
    BY <1>1, <1>13 DEF NextRegister, SendRegister, Shift, CommandHeard, Heard, InStep
  <2>6. ReadOn'
    BY <1>1, <1>13, <2>1, <2>2
       DEF NextRegister, SendRegister, Shift, ReadOn, Heard, InStep, GotRegisters, ReadRun,
          Lines
  <2>7. Outcome'
    BY <1>1, <1>13 DEF NextRegister, SendRegister, Shift, Outcome, Heard, InStep, Lines,
       Received, Served, GotRegisters, ReadRun
  <2>8. Watches'
    BY <1>1, <1>13 DEF NextRegister, SendRegister, Shift, Watches, InStep, Lines
  <2> QED
    BY <1>1, <2>3, <2>4, <2>5, <2>6, <2>7, <2>8 DEF Undisturbed
<1>14. CASE NackEnds /\ UNCHANGED executed
  <2>1. InStep'
    BY <1>1, <1>14 DEF NackEnds, InStep, Lines, SlaveSound
  <2>2. Heard'
    BY <1>1, <1>14 DEF NackEnds, Heard, InStep, Lines, SlaveSound
  <2>3. CommandHeard'
    BY <1>1, <1>14 DEF NackEnds, CommandHeard, Heard, InStep
  <2>4. ReadOn'
    BY <1>1, <1>14 DEF NackEnds, ReadOn, Heard, InStep, GotRegisters, ReadRun, Lines
  <2>5. Outcome'
    BY <1>1, <1>14
       DEF NackEnds, Outcome, Heard, InStep, Lines, Received, Served, GotRegisters, ReadRun
  <2>6. Watches'
    BY <1>1, <1>14 DEF NackEnds, Watches, InStep, Lines
  <2> QED
    BY <1>1, <2>1, <2>2, <2>3, <2>4, <2>5, <2>6 DEF Undisturbed
<1>15. CASE ReadEnds /\ UNCHANGED executed
  <2>1. pc = "stop" /\ mphase = "stop" /\ OwnRead /\ acked = "yes" /\ Len(got) = op.length
    BY <1>1, <1>15 DEF ReadEnds, StopSeen, InStep, Heard, Outcome, Received
  <2>2. Served
    BY <1>1, <2>1 DEF Served, ReadOn, Outcome
  <2>3. Served'
    BY <1>1, <1>15, <2>2 DEF ReadEnds, Served, GotRegisters, ReadRun
  <2>4. pc' = "idle"
    BY <1>15 DEF ReadEnds, Exit
  <2>5. InStep'
    BY <1>1, <1>15 DEF ReadEnds, StopSeen, Exit, InStep, Lines, SlaveSound
  <2>6. Heard'
    BY <1>1, <1>15 DEF ReadEnds, StopSeen, Exit, Heard, InStep, Lines, SlaveSound
  <2>7. CommandHeard'
    BY <1>1, <1>15 DEF ReadEnds, StopSeen, Exit, CommandHeard, Heard, InStep
  <2>8. ReadOn'
    BY <1>1, <1>15
       DEF ReadEnds, StopSeen, Exit, ReadOn, Heard, InStep, GotRegisters, ReadRun, Lines
  <2>9. Outcome'
    BY <1>1, <1>15, <2>1, <2>3, <2>4 DEF ReadEnds, StopSeen, Exit, Outcome, Heard, InStep,
       Lines, Received, Served, GotRegisters, ReadRun
  <2>10. Watches'
    BY <1>1, <1>15 DEF ReadEnds, StopSeen, Exit, Watches, InStep, Lines
  <2> QED
    BY <1>1, <2>5, <2>6, <2>7, <2>8, <2>9, <2>10 DEF Undisturbed
<1>16. CASE CommandBit /\ UNCHANGED executed
  <2>1. /\ pc = "command" /\ level = 1 /\ mphase = "data" /\ mbit = bit /\ mstep = "fall"
        /\ OwnWrite /\ level' = 0 /\ pc' = "command" /\ bit' = bit
        /\ bit \in 0 .. BYTE_BITS - 1 /\ drive = "in"
        /\ op' = op /\ command_byte' = (2 * command_byte + sda) % UINT8
    BY <1>1, <1>16 DEF CommandBit, InStep, Lines, Heard, SlaveSound
  <2>2. sda = Bit(op.byte, bit, BYTE_BITS)
    <3>1. msda = Bit(op.byte, bit, BYTE_BITS)
      BY <1>1, <2>1 DEF Lines, NextSda
    <3>2. Bit(op.byte, bit, BYTE_BITS) \in {0, 1}
      <4>1. op.byte \in Nat /\ BYTE_BITS \in Nat
        BY <1>1 DEF MasterTypeOK
      <4> QED
        BY <2>1, <4>1, NextBit
    <3> QED
      BY <2>1, <3>1, <3>2
  <2>3. \E h \in Int :
           command_byte' = h * Pow2[bit + 1] + (op.byte \div Pow2[BYTE_BITS - (bit + 1)])
    <3>1. bit + 1 - level = bit
      BY <2>1
    <3>2. PICK h \in Int : command_byte = h * Pow2[bit] + (op.byte \div Pow2[BYTE_BITS - bit])
      BY <1>1, <2>1, <3>1 DEF CommandHeard
    <3>3. command_byte \in UByte /\ op.byte \in UByte
      BY <1>1 DEF MasterTypeOK, UByte
    <3>4. \E g \in Int : (2 * command_byte + Bit(op.byte, bit, BYTE_BITS)) % UINT8
              = g * Pow2[bit + 1] + (op.byte \div Pow2[BYTE_BITS - (bit + 1)])
      BY <2>1, <3>2, <3>3, NextCommandBit
    <3> QED
      BY <2>1, <2>2, <3>4
  <2>4. bit' + 1 - level' = bit + 1
    BY <2>1
  <2>5. InStep'
    BY <1>1, <1>16 DEF CommandBit, InStep, Lines, SlaveSound
  <2>6. Heard'
    BY <1>1, <1>16 DEF CommandBit, Heard, InStep, Lines, SlaveSound
  <2>7. CommandHeard'
    BY <1>1, <1>16, <2>1, <2>3, <2>4 DEF CommandBit, CommandHeard, Heard, InStep
  <2>8. ReadOn'
    BY <1>1, <1>16 DEF CommandBit, ReadOn, Heard, InStep, GotRegisters, ReadRun, Lines
  <2>9. Outcome'
    BY <1>1, <1>16
       DEF CommandBit, Outcome, Heard, InStep, Lines, Received, Served, GotRegisters, ReadRun
  <2>10. Watches'
    BY <1>1, <1>16 DEF CommandBit, Watches, InStep, Lines
  <2> QED
    BY <1>1, <2>5, <2>6, <2>7, <2>8, <2>9, <2>10 DEF Undisturbed
<1>17. CASE CommandBitEnds /\ UNCHANGED executed
  <2>1. /\ pc = "command" /\ level = 0 /\ bit \in 0 .. BYTE_BITS - 1 /\ level' = 1
        /\ op' = op /\ command_byte' = command_byte
        /\ bit + 1 < BYTE_BITS => pc' = "command" /\ bit' = bit + 1
        /\ ~(bit + 1 < BYTE_BITS) => pc' = "command_ack" /\ bit + 1 = BYTE_BITS
    BY <1>1, <1>17 DEF CommandBitEnds, SlaveSound
  <2>2. PICK h \in Int :
           command_byte = h * Pow2[bit + 1] + (op.byte \div Pow2[BYTE_BITS - (bit + 1)])
    <3>1. bit + 1 - level = bit + 1
      BY <2>1
    <3> QED
      BY <1>1, <2>1, <3>1 DEF CommandHeard
  <2>3. bit + 1 = BYTE_BITS => command_byte = op.byte
    <3>1. command_byte \in UByte /\ op.byte \in UByte
      BY <1>1 DEF MasterTypeOK, UByte
    <3> QED
      BY <2>2, <3>1, WholeCommand
  <2>4. bit + 1 < BYTE_BITS => bit' + 1 - level' = bit + 1
    BY <2>1
  <2>5. InStep'
    BY <1>1, <1>17 DEF CommandBitEnds, InStep, Lines, SlaveSound
  <2>6. Heard'
    BY <1>1, <1>17 DEF CommandBitEnds, Heard, InStep, Lines, SlaveSound
  <2>7. CommandHeard'
    BY <1>1, <1>17, <2>1, <2>2, <2>3, <2>4 DEF CommandBitEnds, CommandHeard, Heard, InStep
  <2>8. ReadOn'
    BY <1>1, <1>17 DEF CommandBitEnds, ReadOn, Heard, InStep, GotRegisters, ReadRun, Lines
  <2>9. Outcome'
    BY <1>1, <1>17
       DEF CommandBitEnds, Outcome, Heard, InStep, Lines, Received, Served, GotRegisters,
          ReadRun
  <2>10. Watches'
    BY <1>1, <1>17 DEF CommandBitEnds, Watches, InStep, Lines
  <2> QED
    BY <1>1, <2>5, <2>6, <2>7, <2>8, <2>9, <2>10 DEF Undisturbed
<1>18. CASE ForeignClockEnds /\ UNCHANGED executed
  <2>1. InStep'
    BY <1>1, <1>18 DEF ForeignClockEnds, Exit, InStep, Lines, SlaveSound
  <2>2. Heard'
    BY <1>1, <1>18 DEF ForeignClockEnds, Exit, Heard, InStep, Lines, SlaveSound
  <2>3. CommandHeard'
    BY <1>1, <1>18 DEF ForeignClockEnds, Exit, CommandHeard, Heard, InStep
  <2>4. ReadOn'
    BY <1>1, <1>18
       DEF ForeignClockEnds, Exit, ReadOn, Heard, InStep, GotRegisters, ReadRun, Lines
  <2>5. Outcome'
    BY <1>1, <1>18 DEF ForeignClockEnds, Exit, Outcome, Heard, InStep, Lines, Received, Served,
       GotRegisters, ReadRun
  <2>6. Watches'
    BY <1>1, <1>18 DEF ForeignClockEnds, Exit, Watches, InStep, Lines
  <2> QED
    BY <1>1, <2>1, <2>2, <2>3, <2>4, <2>5, <2>6 DEF Undisturbed
<1>19. CASE HandleCommand /\ executed' = Append(executed, command_byte)
  <2>1. /\ pc = "command_ack" /\ mphase = "stop" /\ mstep = "setup" /\ OwnWrite
        /\ command_byte = op.byte /\ acked = "yes" /\ Untouched /\ op' = op /\ acked' = acked
        /\ pc' \in {"handling", "idle"}
    <3>1. pc = "command_ack" /\ level = 0 /\ scl = 0
      BY <1>19 DEF HandleCommand
    <3>2. mphase = "stop" /\ mstep = "setup"
      BY <1>1, <3>1 DEF InStep, Lines
    <3>3. OwnWrite /\ command_byte = op.byte /\ Untouched
      BY <1>1, <3>1 DEF Heard, CommandHeard, Outcome
    <3>4. acked = "yes"
      BY <1>1, <3>1, <3>2 DEF Outcome
    <3>5. pc' \in {"handling", "idle"}
      BY <1>19 DEF HandleCommand, Exit
    <3> QED
      BY <1>1, <3>1, <3>2, <3>3, <3>4, <3>5
  <2>2. Served'
    <3>1. executed' = Append(<<>>, op.byte)
      BY <1>19, <2>1
    <3>2. reg_buf_position' = After(op.byte, from)
      BY <1>19, <2>1 DEF HandleCommand
    <3>3. from' = from
      BY <1>1
    <3> QED
      BY <2>1, <3>1, <3>3, <3>2 DEF Served
  <2>3. InStep'
    BY <1>1, <1>19, <2>1 DEF HandleCommand, Exit, InStep, Lines, SlaveSound
  <2>4. Heard'
    BY <1>1, <1>19 DEF HandleCommand, Exit, Heard, InStep, Lines, SlaveSound
  <2>5. CommandHeard'
    BY <1>1, <1>19 DEF HandleCommand, Exit, CommandHeard, Heard, InStep
  <2>6. ReadOn'
    BY <1>1, <1>19 DEF HandleCommand, Exit, ReadOn, Heard, InStep, GotRegisters, ReadRun, Lines
  <2>7. Outcome'
    BY <1>1, <1>19, <2>1, <2>2 DEF HandleCommand, Exit, Outcome, Heard, InStep, Lines,
       Received, Served, GotRegisters, ReadRun
  <2>8. Watches'
    BY <1>1, <1>19 DEF HandleCommand, Exit, Watches, InStep, Lines
  <2> QED
    BY <1>1, <2>3, <2>4, <2>5, <2>6, <2>7, <2>8 DEF Undisturbed
<1>20. CASE LongCommandEnds /\ UNCHANGED executed
  <2>1. InStep'
    BY <1>1, <1>20 DEF LongCommandEnds, Exit, InStep, Lines, SlaveSound
  <2>2. Heard'
    BY <1>1, <1>20 DEF LongCommandEnds, Exit, Heard, InStep, Lines, SlaveSound
  <2>3. CommandHeard'
    BY <1>1, <1>20 DEF LongCommandEnds, Exit, CommandHeard, Heard, InStep
  <2>4. ReadOn'
    BY <1>1, <1>20
       DEF LongCommandEnds, Exit, ReadOn, Heard, InStep, GotRegisters, ReadRun, Lines
  <2>5. Outcome'
    BY <1>1, <1>20 DEF LongCommandEnds, Exit, Outcome, Heard, InStep, Lines, Received, Served,
       GotRegisters, ReadRun
  <2>6. Watches'
    BY <1>1, <1>20 DEF LongCommandEnds, Exit, Watches, InStep, Lines
  <2> QED
    BY <1>1, <2>1, <2>2, <2>3, <2>4, <2>5, <2>6 DEF Undisturbed
<1> QED
  BY <1>2, <1>3, <1>4, <1>5, <1>6, <1>7, <1>8, <1>9, <1>10, <1>11, <1>12, <1>13, <1>14, <1>15,
     <1>16, <1>17, <1>18, <1>19, <1>20 DEF Slave, Listen

(* The slave has done what it does before the master's next edge: where    *)
(* the two then are.                                                       *)
LEMMA SlaveInWait ==
    ASSUME BusInv, undisturbed, ~Ready
    PROVE  /\ pc = "idle" => ~irq
           /\ pc = "start" => mphase = "start" /\ mstep = "setup"
           /\ pc \notin {"idle", "start", "handling"} =>
                 (mstep = "fall" <=> level = 0) /\ Clocking
           /\ pc = "address" => At("address", bit)
           /\ pc = "rw" \/ (pc = "foreign" /\ bit = 0) => At("address", ADDR_BITS)
           /\ pc = "ack" \/ (pc = "foreign" /\ bit = 1) => At("address_ack", 0)
           /\ pc \in {"command", "byte_out"} => At("data", bit)
           /\ pc \in {"command_ack", "master_ack", "nack"} => mphase = "data_ack"
           /\ pc = "master_ack" /\ level = 0 => ~IsLast
           /\ pc = "nack" => IsLast /\ level = 0
           /\ pc = "handling" => mphase \in {"stop", "free"}
           /\ pc # "stop"
<1>1. /\ SlaveTypeOK /\ MasterTypeOK /\ Lines /\ Received /\ SlaveSound /\ InStep /\ tov0
  BY DEF BusInv, Undisturbed, MasterSound
<1>2. pc \notin {"idle", "handling", "stop"} => scl # level
  BY <1>1 DEF Ready, Released
<1>3. pc # "stop"
  BY <1>1 DEF Ready, StopSeen, InStep, Fell, At, Lines, Clocking, MasterTypeOK
<1>4. pc = "idle" => ~irq
  BY DEF Ready
<1>5. pc \notin {"idle", "handling", "stop"} => (scl = 1 <=> level = 0)
  BY <1>1, <1>2 DEF SlaveTypeOK, MasterTypeOK
<1>6. pc = "start" => mphase = "start" /\ mstep = "setup"
  BY <1>1, <1>5 DEF InStep, Fell, At, Lines, Clocking, SlaveSound
<1>7. pc \notin {"idle", "start", "handling"} => Clocking
  BY <1>1, <1>3 DEF InStep, High, Fell, DataEnds, At, Clocking, SlaveTypeOK, SlaveSound
<1>8. pc \notin {"idle", "start", "handling"} => (mstep = "fall" <=> level = 0)
  BY <1>1, <1>3, <1>5, <1>7 DEF Lines
<1>9. level \in {0, 1} /\ (pc = "nack" => level = 0)
  BY <1>1 DEF SlaveTypeOK, SlaveSound
<1>10. /\ pc = "address" => At("address", bit)
       /\ pc = "rw" \/ (pc = "foreign" /\ bit = 0) => At("address", ADDR_BITS)
       /\ pc = "ack" \/ (pc = "foreign" /\ bit = 1) => At("address_ack", 0)
       /\ pc \in {"command", "byte_out"} => At("data", bit)
  BY <1>1, <1>8, <1>9 DEF InStep, High, Fell, DataEnds, At
<1>11. /\ pc \in {"command_ack", "master_ack", "nack"} => mphase = "data_ack"
       /\ pc = "master_ack" /\ level = 0 => ~IsLast
       /\ pc = "nack" => IsLast
       /\ pc = "handling" => mphase \in {"stop", "free"}
  BY <1>1, <1>8, <1>9 DEF InStep, Fell, At
<1> QED
  BY <1>3, <1>4, <1>6, <1>7, <1>8, <1>9, <1>10, <1>11

(* Every edge of an undisturbed transfer finds the slave in step.          *)
LEMMA MasterStepKeepsSync ==
    ASSUME BusInv, undisturbed, ~Ready, MasterContinues, SlaveWaits, PinChange,
           UNCHANGED <<failures, transfer>>
    PROVE  Undisturbed'
<1> USE ConstantTypes, SdaIsABit, LevelOfSda, SlaveInWait
    DEF At, High, Fell, DataEnds, OwnWrite, OwnRead, Untouched, Missed, Clocking, failures,
       transfer,
    SlaveWaits
<1>1. /\ MasterTypeOK /\ SlaveTypeOK /\ TransferTypeOK /\ Lines /\ Received /\ SlaveSound
      /\ tov0 /\ ~stalled /\ ~dead /\ tov0' /\ ~stalled' /\ ~dead'
      /\ InStep /\ Heard /\ CommandHeard /\ ReadOn /\ Outcome /\ Watches
  BY DEF BusInv, Undisturbed, MasterSound
<1>2. /\ pc = "idle" /\ <<scl', sda'>> # <<scl, sda>> => irq'
      /\ irq => irq'
  BY DEF PinChange
<1>3. CASE MasterRetries
  <2>1. /\ pc = "idle" /\ sda = 1 /\ sda' = 0 /\ op' = op
        /\ mphase' = "start" /\ got' = got /\ tries' > 0
    <3>1. pc = "idle"
      BY <1>1, <1>3 DEF MasterRetries, SlaveTypeOK
    <3> QED
      BY <1>1, <1>3, <3>1
         DEF MasterRetries, Lines, SlaveSound, sda, pulled, OtherPullsLow, MasterTypeOK
  <2>2. irq'
    BY <1>2, <2>1
  <2>3. InStep'
    BY <1>1, <1>3, <2>1 DEF MasterRetries, InStep, Lines, SlaveTypeOK, SlaveSound, IsLast, Heard
  <2>4. Heard'
    BY <1>1, <1>3, <2>1 DEF MasterRetries, Heard
  <2>5. CommandHeard'
    BY <1>1, <1>3, <2>1 DEF MasterRetries, CommandHeard
  <2>6. ReadOn'
    BY <1>1, <1>3, <2>1 DEF MasterRetries, ReadOn, GotRegisters, ReadRun
  <2>7. Outcome'
    BY <1>1, <1>3, <2>1
       DEF MasterRetries, Outcome, Heard, Received, Served, GotRegisters, ReadRun, SlaveTypeOK
  <2>8. Watches'
    BY <1>1, <1>3, <1>2, <2>1, <2>2 DEF MasterRetries, Watches, Lines, SlaveSound
  <2> QED
    BY <1>1, <2>3, <2>4, <2>5, <2>6, <2>7, <2>8 DEF Undisturbed
<1>4. CASE MasterStarts
  <2>1. /\ pc \in {"idle", "start"} /\ mphase = "start" /\ mphase' = "address"
        /\ mstep' = "setup" /\ mbit' = 0 /\ op' = op
        /\ got' = got /\ tries' = tries /\ level' = level
    BY <1>1, <1>4 DEF MasterStarts, SlaveTypeOK
  <2>2. pc = "idle" => tries = 0
    BY <1>1, <2>1 DEF Watches, MasterTypeOK
  <2>3. InStep'
    BY <1>1, <1>4, <2>1, <2>2
       DEF MasterStarts, InStep, Lines, SlaveTypeOK, SlaveSound, IsLast, Heard
  <2>4. Heard'
    BY <1>1, <1>4, <2>1, <2>2 DEF MasterStarts, Heard
  <2>5. CommandHeard'
    BY <1>1, <1>4, <2>1, <2>2 DEF MasterStarts, CommandHeard
  <2>6. ReadOn'
    BY <1>1, <1>4, <2>1, <2>2 DEF MasterStarts, ReadOn, GotRegisters, ReadRun
  <2>7. Outcome'
    BY <1>1, <1>4, <2>1, <2>2
       DEF MasterStarts, Outcome, Heard, Received, Served, GotRegisters, ReadRun, SlaveTypeOK
  <2>8. Watches'
    BY <1>1, <1>4, <1>2, <2>1, <2>2 DEF MasterStarts, Watches, Lines, SlaveSound
  <2> QED
    BY <1>1, <2>3, <2>4, <2>5, <2>6, <2>7, <2>8 DEF Undisturbed
<1>5. CASE SetSda
  <2>1. /\ UNCHANGED <<op, mphase, mbit, tries, scl, shift, got, acked>>
        /\ mstep = "setup" /\ mstep' = "rise" /\ scl = 0
    BY <1>1, <1>5 DEF SetSda, Lines, MasterTypeOK
  <2>2. InStep'
    BY <1>1, <1>5, <2>1 DEF SetSda, InStep, Lines, SlaveTypeOK, SlaveSound, IsLast, Heard
  <2>3. Heard'
    BY <1>1, <1>5, <2>1 DEF SetSda, Heard
  <2>4. CommandHeard'
    BY <1>1, <1>5, <2>1 DEF SetSda, CommandHeard
  <2>5. ReadOn'
    BY <1>1, <1>5, <2>1 DEF SetSda, ReadOn, GotRegisters, ReadRun
  <2>6. Outcome'
    BY <1>1, <1>5, <2>1
       DEF SetSda, Outcome, Heard, Received, Served, GotRegisters, ReadRun, SlaveTypeOK
  <2>7. Watches'
    BY <1>1, <1>5, <1>2, <2>1 DEF SetSda, Watches, Lines, SlaveSound
  <2> QED
    BY <1>1, <2>2, <2>3, <2>4, <2>5, <2>6, <2>7 DEF Undisturbed
<1>6. CASE RaiseScl
  <2>1. /\ UNCHANGED <<op, mphase, mbit, tries, msda, shift, got, acked>>
        /\ mstep = "rise" /\ mstep' = "fall" /\ scl = 0 /\ scl' = 1
        /\ sda' = sda
    <3>1. /\ UNCHANGED <<op, mphase, mbit, tries, msda, shift, got, acked>>
          /\ mstep = "rise" /\ mstep' = "fall" /\ scl' = 1
      BY <1>6 DEF RaiseScl
    <3>2. sda' = sda
      BY <3>1 DEF sda, pulled, OtherPullsLow, Bit
    <3> QED
      BY <1>1, <1>6, <3>1, <3>2 DEF RaiseScl, Lines, MasterTypeOK
  <2>2. InStep'
    BY <1>1, <1>6, <2>1 DEF RaiseScl, InStep, Lines, SlaveTypeOK, SlaveSound, IsLast, Heard
  <2>3. Heard'
    BY <1>1, <1>6, <2>1 DEF RaiseScl, Heard
  <2>4. CommandHeard'
    BY <1>1, <1>6, <2>1 DEF RaiseScl, CommandHeard
  <2>5. ReadOn'
    BY <1>1, <1>6, <2>1 DEF RaiseScl, ReadOn, GotRegisters, ReadRun
  <2>6. Outcome'
    BY <1>1, <1>6, <2>1
       DEF RaiseScl, Outcome, Heard, Received, Served, GotRegisters, ReadRun, SlaveTypeOK
  <2>7. Watches'
    BY <1>1, <1>6, <1>2, <2>1 DEF RaiseScl, Watches, Lines, SlaveSound
  <2> QED
    BY <1>1, <2>2, <2>3, <2>4, <2>5, <2>6, <2>7 DEF Undisturbed
<1>7. CASE AddressClockEnds
  <2>1. InStep'
    BY <1>1, <1>7
       DEF AddressClockEnds, LowerScl, InStep, Lines, SlaveTypeOK, SlaveSound, IsLast, Heard
  <2>2. Heard'
    BY <1>1, <1>7 DEF AddressClockEnds, LowerScl, Heard
  <2>3. CommandHeard'
    BY <1>1, <1>7 DEF AddressClockEnds, LowerScl, CommandHeard
  <2>4. ReadOn'
    BY <1>1, <1>7 DEF AddressClockEnds, LowerScl, ReadOn, GotRegisters, ReadRun
  <2>5. Outcome'
    BY <1>1, <1>7 DEF AddressClockEnds, LowerScl, Outcome, Heard, Received, Served,
       GotRegisters, ReadRun, SlaveTypeOK
  <2>6. Watches'
    BY <1>1, <1>7, <1>2 DEF AddressClockEnds, LowerScl, Watches, Lines, SlaveSound
  <2> QED
    BY <1>1, <2>1, <2>2, <2>3, <2>4, <2>5, <2>6 DEF Undisturbed
<1>8. CASE AddressAckEnds
  <2>1. /\ mphase = "address_ack" /\ mstep = "fall" /\ op' = op /\ got' = got
        /\ shift' = shift /\ tries' = tries
        /\ pc \in {"idle", "ack", "foreign"} /\ pc' = pc /\ msda = 1 /\ scl' = 0
    BY <1>1, <1>8 DEF AddressAckEnds, LowerScl, Lines, NextSda, SlaveTypeOK
  <2>2. pc = "ack" => mphase' = "data" /\ mbit' = 0 /\ mstep' = "setup" /\ got' = <<>>
    BY <1>1, <1>8, <2>1 DEF AddressAckEnds, LowerScl, SlaveSound, Received
  <2>3. pc = "idle" /\ op.addr = SLAVE_ADRESS => mphase' = "stop" /\ acked' = "no_address"
    BY <1>1, <1>8, <2>1 DEF AddressAckEnds, LowerScl, SlaveSound
  <2>4. InStep'
    BY <1>1, <1>8, <2>1, <2>2, <2>3
       DEF AddressAckEnds, LowerScl, InStep, Lines, SlaveTypeOK, SlaveSound, IsLast, Heard
  <2>5. Heard'
    BY <1>1, <1>8, <2>1, <2>2, <2>3 DEF AddressAckEnds, LowerScl, Heard
  <2>6. CommandHeard'
    BY <1>1, <1>8, <2>1, <2>2, <2>3 DEF AddressAckEnds, LowerScl, CommandHeard
  <2>7. ReadOn'
    BY <1>1, <1>8, <2>1, <2>2, <2>3 DEF AddressAckEnds, LowerScl, ReadOn, GotRegisters, ReadRun
  <2>8. Outcome'
    BY <1>1, <1>8, <2>1, <2>2, <2>3 DEF AddressAckEnds, LowerScl, Outcome, Heard, Received,
       Served, GotRegisters, ReadRun, SlaveTypeOK
  <2>9. Watches'
    BY <1>1, <1>8, <1>2, <2>1, <2>2, <2>3
       DEF AddressAckEnds, LowerScl, Watches, Lines, SlaveSound
  <2> QED
    BY <1>1, <2>4, <2>5, <2>6, <2>7, <2>8, <2>9 DEF Undisturbed
<1>9. CASE DataClockEnds
  <2>1. /\ mphase = "data" /\ mstep = "fall" /\ op' = op /\ acked' = acked /\ tries' = tries
        /\ pc \in {"idle", "command", "byte_out"} /\ pc' = pc /\ bit' = bit
        /\ mstep' = "setup" /\ scl' = 0
        /\ op.addr # SLAVE_ADRESS \/ pc # "idle"
        /\ level' = level /\ out' = out /\ reg_buf_position' = reg_buf_position /\ from' = from
        /\ mphase' \in {"data", "data_ack"}
    <3>1. /\ mphase = "data" /\ mstep = "fall" /\ op' = op /\ acked' = acked /\ tries' = tries
          /\ mstep' = "setup" /\ scl' = 0 /\ mphase' \in {"data", "data_ack"}
      BY <1>9 DEF DataClockEnds, LowerScl
    <3>2. pc \in {"idle", "command", "byte_out"}
      BY <1>1, <3>1 DEF SlaveTypeOK, SlaveSound
    <3>3. op.addr # SLAVE_ADRESS \/ pc # "idle"
      BY <1>1, <3>1 DEF Outcome
    <3> QED
      BY <3>1, <3>2, <3>3
  <2>2. pc = "byte_out" =>
            sda = Bit(out, bit, BYTE_BITS) /\ mbit = bit /\ bit \in 0 .. BYTE_BITS - 1
    <3>1. pc = "byte_out" => OwnRead /\ msda = 1 /\ mbit = bit
      BY <1>1, <2>1 DEF Heard, Lines, NextSda
    <3>2. pc = "byte_out" => bit \in 0 .. BYTE_BITS - 1 /\ out \in Nat /\ BYTE_BITS \in Nat
      BY <1>1 DEF SlaveSound, SlaveTypeOK
    <3>3. pc = "byte_out" => Bit(out, bit, BYTE_BITS) \in {0, 1}
      BY <3>2, NextBit
    <3> QED
      BY <1>1, <3>1, <3>2, <3>3 DEF SlaveSound
  <2>3. pc = "byte_out" => 2 * shift + sda = out \div Pow2[BYTE_BITS - (bit + 1)]
    <3> SUFFICES ASSUME pc = "byte_out"
                 PROVE  2 * shift + sda = out \div Pow2[BYTE_BITS - (bit + 1)]
      OBVIOUS
    <3>1. shift = out \div Pow2[BYTE_BITS - bit] /\ out \in Nat /\ BYTE_BITS \in Nat
      BY <1>1, <2>1, <2>2 DEF ReadOn, SlaveTypeOK
    <3>2. out \div Pow2[BYTE_BITS - (bit + 1)]
            = 2 * (out \div Pow2[BYTE_BITS - bit]) + Bit(out, bit, BYTE_BITS)
      BY <2>2, <3>1, NextBit
    <3> QED
      BY <2>2, <3>1, <3>2
  <2>4. pc = "byte_out" /\ ~(mbit + 1 < BYTE_BITS) =>
            got' = Append(got, out) /\ mphase' = "data_ack"
    <3>1. pc = "byte_out" => OwnRead
      BY <1>1 DEF Heard
    <3>2. pc = "byte_out" /\ ~(mbit + 1 < BYTE_BITS) => bit + 1 = BYTE_BITS
      BY <2>2
    <3>3. out \in 0 .. Pow2[BYTE_BITS] - 1 /\ BYTE_BITS \in Nat
      BY <1>1 DEF SlaveTypeOK, UINT8
    <3>4. out \div Pow2[BYTE_BITS - BYTE_BITS] = out
      BY <3>3, NoneAndAllBits
    <3>5. pc = "byte_out" /\ ~(mbit + 1 < BYTE_BITS) => 2 * shift + sda = out
      BY <2>3, <3>2, <3>4
    <3> QED
      BY <1>9, <3>1, <3>5 DEF DataClockEnds, LowerScl
  <2>5. pc = "byte_out" /\ mbit + 1 < BYTE_BITS =>
            /\ got' = got /\ mphase' = "data" /\ mbit' = bit + 1
            /\ shift' = out \div Pow2[BYTE_BITS - mbit']
    BY <1>9, <2>2, <2>3 DEF DataClockEnds, LowerScl
  <2>6. pc = "byte_out" => GotRegisters'
    <3>1. pc = "byte_out" =>
             /\ GotRegisters /\ out \in Contents(ReadRun[Len(got) + 1]) /\ ReadRun' = ReadRun
      BY <1>1, <2>1 DEF ReadOn, Heard, ReadRun
    <3>2. got \in Seq(Nat) /\ out \in Nat
      BY <1>1 DEF MasterTypeOK, SlaveTypeOK
    <3>3. CASE pc = "byte_out" /\ ~(mbit + 1 < BYTE_BITS)
      <4>1. /\ Len(got') = Len(got) + 1 /\ got'[Len(got) + 1] = out
            /\ \A i \in 1 .. Len(got) : got'[i] = got[i]
        BY <2>4, <3>2, <3>3
      <4> QED
        BY <3>1, <3>2, <3>3, <4>1 DEF GotRegisters, Contents
    <3> QED
      BY <2>5, <3>1, <3>3 DEF GotRegisters
  <2>7. InStep'
    BY <1>1, <1>9, <2>1
       DEF DataClockEnds, LowerScl, InStep, Lines, SlaveTypeOK, SlaveSound, IsLast, Heard
  <2>8. Heard'
    BY <1>1, <1>9, <2>1 DEF DataClockEnds, LowerScl, Heard
  <2>9. CommandHeard'
    BY <1>1, <1>9, <2>1 DEF DataClockEnds, LowerScl, CommandHeard
  <2>10. ReadOn'
    BY <1>1, <1>9, <2>1, <2>2, <2>4, <2>5, <2>6
       DEF DataClockEnds, LowerScl, ReadOn, GotRegisters, ReadRun
  <2>11. Outcome'
    BY <1>1, <1>9, <2>1 DEF DataClockEnds, LowerScl, Outcome, Heard, Received, Served,
       GotRegisters, ReadRun, SlaveTypeOK
  <2>12. Watches'
    BY <1>1, <1>9, <1>2, <2>1 DEF DataClockEnds, LowerScl, Watches, Lines, SlaveSound
  <2> QED
    BY <1>1, <2>7, <2>8, <2>9, <2>10, <2>11, <2>12 DEF Undisturbed
<1>10. CASE DataAckEnds
  <2>1. /\ mphase = "data_ack" /\ mstep = "fall" /\ op' = op /\ got' = got
        /\ shift' = shift /\ tries' = tries
        /\ pc \in {"idle", "command_ack", "master_ack", "nack"} /\ pc' = pc
        /\ scl' = 0 /\ level' = level /\ mstep' = "setup" /\ mbit' = 0
        /\ mphase' = IF op.rw = "read" /\ ~IsLast THEN "data" ELSE "stop"
        /\ (op.addr # SLAVE_ADRESS \/ pc # "idle") /\ acked = "yes"
    <3>1. /\ mphase = "data_ack" /\ mstep = "fall" /\ op' = op /\ got' = got /\ shift' = shift
          /\ tries' = tries /\ mstep' = "setup" /\ scl' = 0 /\ mbit' = 0
          /\ mphase' = IF op.rw = "read" /\ ~IsLast THEN "data" ELSE "stop"
      BY <1>10 DEF DataAckEnds, LowerScl
    <3>2. pc \in {"idle", "command_ack", "master_ack", "nack"}
      BY <1>1, <3>1 DEF SlaveTypeOK, SlaveSound
    <3>3. (op.addr # SLAVE_ADRESS \/ pc # "idle") /\ acked = "yes"
      BY <1>1, <3>1 DEF Outcome, Received
    <3> QED
      BY <3>1, <3>2, <3>3
  <2>2. pc = "command_ack" => acked' = "yes"
    BY <1>1, <1>10, <2>1 DEF DataAckEnds, LowerScl, SlaveSound
  <2>3. op.rw = "read" => acked' = acked
    BY <1>1, <1>10, <2>1 DEF DataAckEnds
  <2>4. InStep'
    BY <1>1, <1>10, <2>1, <2>2, <2>3
       DEF DataAckEnds, LowerScl, InStep, Lines, SlaveTypeOK, SlaveSound, IsLast, Heard
  <2>5. Heard'
    BY <1>1, <1>10, <2>1, <2>2, <2>3 DEF DataAckEnds, LowerScl, Heard
  <2>6. CommandHeard'
    BY <1>1, <1>10, <2>1, <2>2, <2>3 DEF DataAckEnds, LowerScl, CommandHeard
  <2>7. ReadOn'
    BY <1>1, <1>10, <2>1, <2>2, <2>3 DEF DataAckEnds, LowerScl, ReadOn, GotRegisters, ReadRun
  <2>8. Outcome'
    BY <1>1, <1>10, <2>1, <2>2, <2>3 DEF DataAckEnds, LowerScl, Outcome, Heard, Received,
       Served, GotRegisters, ReadRun, SlaveTypeOK
  <2>9. Watches'
    BY <1>1, <1>10, <1>2, <2>1, <2>2, <2>3 DEF DataAckEnds, LowerScl, Watches, Lines, SlaveSound
  <2> QED
    BY <1>1, <2>4, <2>5, <2>6, <2>7, <2>8, <2>9 DEF Undisturbed
<1>11. CASE MasterStops
  <2>1. /\ mphase = "stop" /\ mstep = "fall" /\ op' = op /\ got' = got
        /\ acked' = acked /\ tries' = tries
        /\ pc \in {"idle", "handling"} /\ pc' = pc /\ scl' = scl
        /\ mphase' = IF acked = "no_address" /\ tries < RETRIES THEN "again" ELSE "free"
        /\ mphase' \in {"again", "free"} /\ tries \in Nat
    <3>1. /\ mphase = "stop" /\ mstep = "fall" /\ op' = op /\ got' = got /\ acked' = acked
          /\ tries' = tries /\ scl' = scl
          /\ mphase' = IF acked = "no_address" /\ tries < RETRIES THEN "again" ELSE "free"
          /\ mphase' \in {"again", "free"}
      BY <1>11 DEF MasterStops
    <3>2. pc \in {"idle", "handling"} /\ tries \in Nat
      BY <1>1, <3>1 DEF SlaveTypeOK, MasterTypeOK, SlaveSound
    <3> QED
      BY <3>1, <3>2
  <2>2. sda = 0 /\ (pc = "idle" => sda' = 1)
    BY <1>1, <1>11, <2>1 DEF MasterStops, Lines, NextSda, SlaveSound, sda, pulled, OtherPullsLow
  <2>3. pc = "idle" => irq'
    BY <1>2, <2>2
  <2>4. pc = "handling" => mphase' = "free"
    BY <1>1, <2>1 DEF Outcome, Served
  <2>5. InStep'
    BY <1>1, <1>11, <2>1, <2>2, <2>3, <2>4
       DEF MasterStops, InStep, Lines, SlaveTypeOK, SlaveSound, IsLast, Heard
  <2>6. Heard'
    BY <1>1, <1>11, <2>1, <2>2, <2>3, <2>4 DEF MasterStops, Heard
  <2>7. CommandHeard'
    BY <1>1, <1>11, <2>1, <2>2, <2>3, <2>4 DEF MasterStops, CommandHeard
  <2>8. ReadOn'
    BY <1>1, <1>11, <2>1, <2>2, <2>3, <2>4 DEF MasterStops, ReadOn, GotRegisters, ReadRun
  <2>9. Outcome'
    BY <1>1, <1>11, <2>1, <2>2, <2>3, <2>4
       DEF MasterStops, Outcome, Heard, Received, Served, GotRegisters, ReadRun, SlaveTypeOK
  <2>10. Watches'
    BY <1>1, <1>11, <1>2, <2>1, <2>2, <2>3, <2>4 DEF MasterStops, Watches, Lines, SlaveSound
  <2> QED
    BY <1>1, <2>5, <2>6, <2>7, <2>8, <2>9, <2>10 DEF Undisturbed
<1> QED
  BY <1>3, <1>4, <1>5, <1>6, <1>7, <1>8, <1>9, <1>10, <1>11 DEF MasterContinues

(* A transfer that begins while the slave is free: it will see the start   *)
(* condition unless portbhistory is stale, and the first try is then a     *)
(* missed one.                                                             *)
LEMMA BeginInSync ==
    ASSUME BusInv, BeginTransfer, undisturbed'
    PROVE  Undisturbed'
<1> USE ConstantTypes
<1>1. /\ pc = "idle" /\ tov0 /\ ~stalled /\ ~irq /\ ~dead /\ MasterTypeOK /\ Lines /\ SlaveSound
  BY DEF BusInv, BeginTransfer, Ready, MasterSound
<1>2. /\ pc' = "idle" /\ tov0' /\ ~stalled' /\ ~dead' /\ drive' = drive /\ scl' = scl
      /\ mphase' = "start" /\ tries' = 0 /\ msda' = 0
      /\ executed' = <<>> /\ from' = reg_buf_position /\ reg_buf_position' = reg_buf_position
  BY <1>1 DEF BeginTransfer, MasterBegins, SlaveWaits, failures
<1>3. sda = 1 /\ sda' = 0
  BY <1>1, <1>2 DEF BeginTransfer, MasterBegins, Lines, SlaveSound, sda, pulled, OtherPullsLow
<1>4. irq'
  BY <1>1, <1>3 DEF BeginTransfer, PinChange
<1>5. InStep' /\ Heard' /\ CommandHeard' /\ ReadOn'
  BY <1>2 DEF InStep, Heard, CommandHeard, ReadOn
<1>6. Outcome' /\ Watches'
  BY <1>2, <1>4 DEF Outcome, Untouched, Watches, Clocking
<1> QED
  BY <1>2, <1>5, <1>6 DEF Undisturbed

(* The types, for the slave while the master moves.                        *)
LEMMA WaitTypes ==
    ASSUME BusInv, SlaveWaits, PinChange
    PROVE  SlaveTypeOK' /\ SlaveSound'
<1>1. SlaveTypeOK /\ SlaveSound /\ irq' \in BOOLEAN
  BY DEF BusInv, SlaveTypeOK, PinChange
<1>2. SlaveTypeOK'
  BY <1>1 DEF SlaveTypeOK, SlaveWaits
<1> QED
  BY <1>1, <1>2 DEF SlaveSound, SlaveWaits

(* The invariant holds at first: the slave is out of its routine, the bus  *)
(* idle.                                                                   *)
LEMMA BusInit == Init => BusInv
<1> SUFFICES ASSUME Init PROVE BusInv
  OBVIOUS
<1> USE ConstantTypes, TwiBusAssumption DEF Init, SlaveInit, MasterInit
<1>1. <<>> \in Seq(Nat) /\ 0 \in 0 .. UINT8 - 1 /\ WARM \in BOOLEAN
  OBVIOUS
<1>2. MasterTypeOK
  BY <1>1 DEF MasterTypeOK
<1>3. SlaveTypeOK
  BY <1>1 DEF SlaveTypeOK
<1>4. TransferTypeOK /\ SlaveSound /\ ~dead /\ ~undisturbed
  <2>1. executed = <<>> /\ from = 0 /\ undisturbed = FALSE
    OBVIOUS
  <2>2. TransferTypeOK
    BY <1>1, <2>1 DEF TransferTypeOK
  <2> QED
    BY <2>1, <2>2, <1>3 DEF SlaveSound
<1>5. Lines /\ Received
  BY DEF Lines, Received, At, Clocking
<1> QED
  BY <1>2, <1>4, <1>5, <1>3 DEF BusInv, MasterSound

(* Every step keeps the invariant: the slave, timer 0, the first and the   *)
(* other edges of the master, and its failures, which end what is claimed  *)
(* of the transfer.                                                        *)
LEMMA BusStep == BusInv /\ [Next]_vars => BusInv'
<1> SUFFICES ASSUME BusInv, [Next]_vars PROVE BusInv'
  OBVIOUS
<1>1. /\ MasterTypeOK /\ SlaveTypeOK /\ TransferTypeOK /\ MasterSound /\ SlaveSound
      /\ dead => stalled
      /\ undisturbed => Undisturbed
  BY DEF BusInv
<1>2. CASE Slave
  <2>1. UNCHANGED <<tov0, masterVars, failures, undisturbed, from>>
    BY <1>2 DEF Slave
  <2>2. SlaveTypeOK' /\ TransferTypeOK' /\ SlaveSound'
    BY <1>1, <1>2, SlaveStepTypes
  <2>3. MasterTypeOK' /\ MasterSound' /\ (dead => stalled)'
    BY <1>1, <2>1 DEF MasterTypeOK, MasterSound, Lines, Received, At, Clocking, NextSda, IsLast,
                      masterVars, failures
  <2>4. undisturbed' => Undisturbed'
    BY <1>2, <2>1, SlaveStepKeepsSync
  <2> QED
    BY <2>2, <2>3, <2>4 DEF BusInv
<1>3. CASE TimerOverflow
  <2>1. UNCHANGED <<slaveVars, masterVars, failures, transfer>> /\ tov0' = TRUE
    BY <1>3 DEF TimerOverflow
  <2>2. MasterTypeOK' /\ MasterSound' /\ (dead => stalled)'
    BY <1>1, <2>1 DEF MasterTypeOK, MasterSound, Lines, Received, At, Clocking, NextSda, IsLast,
                      masterVars, failures
  <2>3. SlaveTypeOK' /\ SlaveSound' /\ TransferTypeOK'
    BY <1>1, <2>1
       DEF SlaveTypeOK, SlaveSound, TransferTypeOK, slaveVars, received, remembered, transfer
  <2>4. undisturbed' => undisturbed /\ tov0 /\ FALSE
    BY <1>1, <1>3, <2>1 DEF TimerOverflow, Undisturbed, transfer
  <2> QED
    BY <2>2, <2>3, <2>4 DEF BusInv
<1>4. CASE BeginTransfer
  <2>1. ~dead /\ MasterBegins /\ SlaveWaits /\ PinChange /\ UNCHANGED failures
        /\ executed' = <<>> /\ undisturbed' \in BOOLEAN /\ from' = reg_buf_position
    BY <1>1, <1>4 DEF BeginTransfer, SlaveTypeOK
  <2>2. MasterTypeOK' /\ Lines' /\ Received'
    BY <1>1, <2>1, MasterStepTypes DEF MasterSound
  <2>3. SlaveTypeOK' /\ SlaveSound'
    BY <2>1, WaitTypes
  <2>4. TransferTypeOK'
    BY <1>1, <2>1 DEF TransferTypeOK, SlaveTypeOK
  <2>5. undisturbed' => Undisturbed'
    BY <1>4, BeginInSync
  <2> QED
    BY <1>1, <2>1, <2>2, <2>3, <2>4, <2>5 DEF BusInv, MasterSound, failures
<1>5. CASE ContinueTransfer
  <2>1. /\ ~dead /\ ~Ready /\ MasterContinues /\ SlaveWaits /\ PinChange
        /\ UNCHANGED <<failures, transfer>>
    BY <1>1, <1>5 DEF ContinueTransfer
  <2>2. MasterTypeOK' /\ Lines' /\ Received'
    BY <1>1, <2>1, MasterStepTypes DEF MasterSound
  <2>3. SlaveTypeOK' /\ SlaveSound'
    BY <2>1, WaitTypes
  <2>4. TransferTypeOK' /\ undisturbed' = undisturbed
    BY <1>1, <2>1 DEF TransferTypeOK, transfer
  <2>5. undisturbed => Undisturbed'
    BY <2>1, MasterStepKeepsSync
  <2> QED
    BY <1>1, <2>1, <2>2, <2>3, <2>4, <2>5 DEF BusInv, MasterSound, failures
<1>6. CASE MasterFails
  <2>1. undisturbed' = FALSE /\ UNCHANGED <<executed, from>>
    BY <1>6 DEF MasterFails
  <2>2. TransferTypeOK'
    BY <1>1, <2>1 DEF TransferTypeOK
  <2>3. CASE Stall /\ UNCHANGED <<slaveVars, tov0>>
    <3>1. SlaveTypeOK' /\ SlaveSound'
      BY <1>1, <2>3 DEF SlaveTypeOK, SlaveSound, slaveVars, received, remembered
    <3>2. MasterTypeOK' /\ MasterSound' /\ (dead => stalled)'
      BY <1>1, <2>3
         DEF Stall, MasterTypeOK, MasterSound, Lines, Received, At, Clocking, NextSda,
                        IsLast, masterVars
    <3> QED
      BY <2>1, <2>2, <3>1, <3>2 DEF BusInv
  <2>4. CASE Die /\ SlaveWaits /\ PinChange
    <3>1. SlaveTypeOK' /\ SlaveSound'
      BY <2>4, WaitTypes
    <3>2. MasterTypeOK' /\ MasterSound' /\ (dead => stalled)'
      BY <1>1, <2>4 DEF Die, MasterTypeOK, MasterSound
    <3> QED
      BY <2>1, <2>2, <3>1, <3>2 DEF BusInv
  <2> QED
    BY <1>6, <2>3, <2>4 DEF MasterFails
<1>7. CASE MasterResumes
  <2>1. /\ ~dead /\ stalled /\ dead' = dead /\ stalled' = FALSE
        /\ UNCHANGED <<masterVars, slaveVars, tov0, transfer>>
    BY <1>7 DEF MasterResumes, Resume
  <2>2. MasterTypeOK' /\ MasterSound'
    <3>1. MasterTypeOK'
      BY <1>1, <2>1 DEF MasterTypeOK, masterVars
    <3>2. Lines' <=> Lines
      BY <2>1 DEF Lines, Clocking, NextSda, masterVars
    <3>3. Received' <=> Received
      BY <2>1 DEF Received, At, masterVars
    <3> QED
      BY <1>1, <2>1, <3>1, <3>2, <3>3 DEF MasterSound
  <2>3. SlaveTypeOK' /\ SlaveSound' /\ TransferTypeOK'
    BY <1>1, <2>1
       DEF SlaveTypeOK, SlaveSound, TransferTypeOK, slaveVars, received, remembered, transfer
  <2>4. ~undisturbed'
    BY <1>1, <2>1 DEF Undisturbed, transfer
  <2> QED
    BY <2>1, <2>2, <2>3, <2>4 DEF BusInv
<1>8. CASE UNCHANGED vars
  <2>1. MasterTypeOK' /\ MasterSound' /\ (dead => stalled)'
    BY <1>1, <1>8
       DEF vars, MasterTypeOK, MasterSound, Lines, Received, At, Clocking, NextSda, IsLast,
                      masterVars, failures
  <2>2. SlaveTypeOK' /\ SlaveSound' /\ TransferTypeOK' /\ undisturbed' = undisturbed
    BY <1>1, <1>8
       DEF vars, SlaveTypeOK, SlaveSound, TransferTypeOK, slaveVars, received, remembered,
          transfer
  <2>3. undisturbed => Undisturbed'
    <3> SUFFICES ASSUME undisturbed PROVE Undisturbed'
      OBVIOUS
    <3> USE <1>1, <1>8 DEF vars, slaveVars, received, remembered, masterVars, failures, transfer
    <3>1. tov0' /\ ~stalled' /\ ~dead' /\ InStep' /\ Heard'
      BY DEF Undisturbed, InStep, Heard, High, Fell, At, DataEnds, IsLast, OwnWrite, OwnRead
    <3>2. CommandHeard'
      BY DEF Undisturbed, CommandHeard
    <3>3. ReadOn'
      BY DEF Undisturbed, ReadOn, OwnRead, GotRegisters, ReadRun
    <3>4. Outcome'
      BY DEF Undisturbed, Outcome, Untouched, Served, Missed, GotRegisters, ReadRun
    <3>5. Watches'
      BY DEF Undisturbed, Watches, Clocking, sda, pulled, OtherPullsLow
    <3> QED
      BY <3>1, <3>2, <3>3, <3>4, <3>5 DEF Undisturbed
  <2> QED
    BY <2>1, <2>2, <2>3 DEF BusInv
<1> QED
  BY <1>2, <1>3, <1>4, <1>5, <1>6, <1>7, <1>8 DEF Next

(* The slave of gpio_twi.c keeps in step with the clock through every      *)
(* transfer that begins while it is free and TOV0 is set, until the master *)
(* fails.                                                                  *)
THEOREM BusInvariant == Spec => []BusInv
BY BusInit, BusStep, PTL DEF Spec

(* A write to the slave is executed exactly once, as sent, over all        *)
(* retries, and a transfer to another device leaves the slave out of it    *)
(* (the routine of gpio_twi.c with handle_command).                        *)
THEOREM WritesExecuted == Spec => []ExecutesItsWritesOnly
<1>1. BusInv => ExecutesItsWritesOnly
  <2> SUFFICES ASSUME BusInv PROVE ExecutesItsWritesOnly
    OBVIOUS
  <2>1. MasterTypeOK /\ SlaveTypeOK /\ SlaveSound /\ (undisturbed => Undisturbed)
    BY DEF BusInv
  <2>2. OwnWriteExecuted
    <3> SUFFICES ASSUME mphase = "free", OwnWrite, undisturbed
                 PROVE  acked = "yes" /\ executed = <<op.byte>>
      BY DEF OwnWriteExecuted, Over
    <3>1. pc \in {"idle", "handling"}
      BY <2>1 DEF Undisturbed, InStep, High, Fell, At, DataEnds, SlaveTypeOK, SlaveSound
    <3> QED
      BY <2>1, <3>1 DEF Undisturbed, Outcome, Served, OwnWrite
  <2>3. ForeignTransferUntouched
    <3> SUFFICES ASSUME op.addr # SLAVE_ADRESS, undisturbed
                 PROVE  drive = "in" /\ executed = <<>> /\ reg_buf_position = from
      BY DEF ForeignTransferUntouched
    <3>1. pc \in {"idle", "start", "address", "foreign"}
      BY <2>1 DEF Undisturbed, Heard, OwnWrite, OwnRead, SlaveTypeOK
    <3> QED
      BY <2>1, <3>1 DEF Undisturbed, Outcome, Untouched, SlaveSound
  <2> QED
    BY <2>2, <2>3 DEF ExecutesItsWritesOnly
<1> QED
  BY <1>1, BusInvariant, PTL

(* A read is acknowledged, returns consecutive registers from the position *)
(* on and leaves the position on the last one (send_byte_to_master of      *)
(* gpio_twi.c, increment_regbuf_position).                                 *)
THEOREM ReadsInOrder == Spec => []ReadsConsecutiveRegisters
<1>1. BusInv => ReadsConsecutiveRegisters
  <2> SUFFICES ASSUME BusInv, mphase = "free", OwnRead, undisturbed, acked # "none"
               PROVE  /\ acked = "yes"
                      /\ \A i \in 1 .. op.length : got[i] \in Contents(ReadRun[i])
                      /\ reg_buf_position = ReadRun[op.length]
    BY DEF ReadsConsecutiveRegisters, Over, ReadRun
  <2>1. MasterTypeOK /\ SlaveTypeOK /\ SlaveSound /\ Undisturbed /\ Received
    BY DEF BusInv, MasterSound, Undisturbed
  <2>2. pc = "idle"
    BY <2>1 DEF Undisturbed, InStep, Heard, High, Fell, At, DataEnds, SlaveTypeOK, SlaveSound,
       OwnWrite, OwnRead
  <2>3. Served
    BY <2>1, <2>2 DEF Undisturbed, Outcome, OwnRead
  <2>4. Len(got) = op.length
    BY <2>1, <2>3 DEF Received, Served, OwnRead
  <2> QED
    BY <2>3, <2>4 DEF Served, OwnRead, GotRegisters
<1> QED
  BY <1>1, BusInvariant, PTL

(* The slave drives SDA high against a low level in one spot only, where   *)
(* it shifts out the next register of a longer read (set_sda_to_high of    *)
(* gpio_twi.c).                                                            *)
THEOREM Contention == Spec => []ContentionOnlyReadingOn
<1>1. BusInv => ContentionOnlyReadingOn
  <2> USE ConstantTypes
  <2> SUFFICES ASSUME BusInv, drive = "high", pulled, undisturbed
               PROVE  OwnRead /\ mphase = "data" /\ mbit = 0 /\ mstep = "setup" /\ 0 < Len(got)
    BY DEF ContentionOnlyReadingOn
  <2>1. MasterTypeOK /\ SlaveTypeOK /\ SlaveSound /\ Undisturbed /\ Received /\ Lines
    BY DEF BusInv, MasterSound, Undisturbed
  <2>2. pc = "byte_out"
    BY <2>1 DEF SlaveSound, SlaveTypeOK
  <2>3. OwnRead /\ msda = 0
    BY <2>1, <2>2, LevelOfSda DEF Undisturbed, Heard, OwnRead
  <2>4. mphase = "data" \/ (mphase = "data_ack" /\ mstep = "setup")
    BY <2>1, <2>2 DEF Undisturbed, InStep, High, Fell, At, DataEnds, SlaveTypeOK
  <2>5. mphase = "data" /\ mstep = "setup" /\ (mbit = 0 /\ got # <<>>)
    BY <2>1, <2>3, <2>4 DEF Lines, Clocking, NextSda, OwnRead, MasterTypeOK
  <2> QED
    BY <2>1, <2>3, <2>5 DEF MasterTypeOK
<1> QED
  BY <1>1, BusInvariant, PTL

(* The bus on which nothing is slower than a clock.                        *)
KeepsTime == WARM = TRUE /\ LONG = {} /\ STALLS = 0 /\ MORTAL = FALSE

LinkInv ==
    /\ BusInv
    /\ tov0 /\ ~stalled /\ stalls = 0 /\ pc # "handling"
    /\ undisturbed \/ (mphase = "free" /\ pc = "idle" /\ ~irq)

(* At first the bus is idle.                                               *)
LEMMA LinkInvInit == KeepsTime /\ Init => LinkInv
BY BusInit DEF KeepsTime, Init, SlaveInit, MasterInit, LinkInv

(* When nothing is slower than a clock every transfer is undisturbed.      *)
LEMMA LinkInvStep == KeepsTime /\ LinkInv /\ [Next]_vars => LinkInv'
<1> SUFFICES ASSUME KeepsTime, LinkInv, [Next]_vars PROVE LinkInv'
  OBVIOUS
<1>1. BusInv' /\ BusInv
  BY BusStep DEF LinkInv
<1>2. /\ tov0 /\ ~stalled /\ stalls = 0 /\ pc # "handling"
      /\ undisturbed \/ (mphase = "free" /\ pc = "idle" /\ ~irq)
  BY DEF LinkInv
<1>3. CASE Slave
  <2>1. UNCHANGED <<tov0, masterVars, failures, undisturbed, from>>
    BY <1>3 DEF Slave
  <2>2. pc # "idle" \/ irq
    BY <1>3
       DEF Slave, Listen, StartCondition, OtherPinChange, StartEnds, AddressBit, AddressBitEnds,
           ReadWriteBit, Acknowledge, ClockRises, AcknowledgeEnds, SentBitEnds, MasterAck,
           NextRegister,
           NackEnds, ReadEnds, StopSeen, CommandBit, CommandBitEnds, ForeignClockEnds,
           HandleCommand,
           LongCommandEnds, Through
  <2>3. pc' # "handling"
    <3>1. CASE HandleCommand
      BY <3>1 DEF KeepsTime, HandleCommand, Exit, WaitIn
    <3>2. CASE Listen
      BY <1>2, <3>2
         DEF Listen, StartCondition, OtherPinChange, StartEnds, AddressBit, AddressBitEnds,
             ReadWriteBit, Acknowledge, ClockRises, AcknowledgeEnds, SentBitEnds, MasterAck,
             NextRegister,
             NackEnds, ReadEnds, StopSeen, CommandBit, CommandBitEnds, ForeignClockEnds,
             SendRegister,
             Through, WaitIn, Exit
    <3>3. CASE LongCommandEnds
      BY <3>3 DEF LongCommandEnds, Exit, WaitIn
    <3> QED
      BY <1>3, <3>1, <3>2, <3>3 DEF Slave
  <2> QED
    BY <1>1, <1>2, <2>1, <2>2, <2>3 DEF LinkInv, failures
<1>4. CASE TimerOverflow
  BY <1>2, <1>4 DEF TimerOverflow
<1>5. CASE BeginTransfer
  <2>1. pc = "idle"
    BY <1>1, <1>2, <1>5, SlaveFollows DEF BeginTransfer, MasterBegins
  <2> QED
    BY <1>1, <1>2, <1>5, <2>1 DEF BeginTransfer, SlaveWaits, failures, LinkInv
<1>6. CASE ContinueTransfer
  <2>1. mphase # "free"
    BY <1>6
       DEF ContinueTransfer, MasterContinues, MasterRetries, MasterStarts, SetSda, RaiseScl,
           AddressClockEnds, AddressAckEnds, DataClockEnds, DataAckEnds, MasterStops, Clocking
  <2> QED
    BY <1>1, <1>2, <1>6, <2>1 DEF ContinueTransfer, SlaveWaits, failures, transfer, LinkInv
<1>7. CASE MasterFails
  BY <1>2, <1>7 DEF MasterFails, Stall, Die, KeepsTime
<1>8. CASE MasterResumes
  BY <1>2, <1>8 DEF MasterResumes, Resume
<1>9. CASE UNCHANGED vars
  BY <1>1, <1>2, <1>9 DEF vars, slaveVars, failures, transfer, masterVars, LinkInv
<1> QED
  BY <1>3, <1>4, <1>5, <1>6, <1>7, <1>8, <1>9 DEF Next

(* What is known of a transfer to the slave once it is over.               *)
OverOwn ==
    BusInv /\ pc # "handling" /\ mphase = "free" /\ undisturbed =>
        /\ OwnWrite => acked = "yes" /\ executed = <<op.byte>>
        /\ OwnRead => /\ acked = "yes" /\ Len(got) = op.length
                      /\ \A i \in 1 .. op.length : got[i] \in Contents(ReadRun[i])
                      /\ reg_buf_position = ReadRun[op.length]

(* It follows from the invariant.                                          *)
LEMMA OverOwnHolds == OverOwn
<1> SUFFICES ASSUME BusInv, pc # "handling", mphase = "free", undisturbed
             PROVE  /\ OwnWrite => acked = "yes" /\ executed = <<op.byte>>
                    /\ OwnRead => /\ acked = "yes" /\ Len(got) = op.length
                                  /\ \A i \in 1 .. op.length : got[i] \in Contents(ReadRun[i])
                                  /\ reg_buf_position = ReadRun[op.length]
  BY DEF OverOwn
<1>1. pc = "idle"
  BY SlaveFollows
<1>2. Outcome /\ Received
  BY DEF BusInv, Undisturbed, MasterSound
<1>3. OwnWrite \/ OwnRead => Served
  BY <1>1, <1>2 DEF Outcome, OwnWrite, OwnRead
<1>4. OwnRead => Len(got) = op.length
  BY <1>2, <1>3 DEF Received, Served, OwnRead
<1> QED
  BY <1>3, <1>4 DEF Served, GotRegisters, OwnWrite, OwnRead

(* The same of the state after a step.                                     *)
LEMMA OverOwnNext == OverOwn'
BY OverOwnHolds, PTL

(* Each step is one of the atomic link or leaves it alone: the first edge  *)
(* of a transfer asks, handle_command executes, an acknowledged register   *)
(* follows, the last stop closes.                                          *)
LEMMA LinkStep == KeepsTime /\ LinkInv /\ LinkInv' /\ [Next]_vars => [Link!Next]_(Link!linkVars)
<1> SUFFICES ASSUME KeepsTime, LinkInv, LinkInv', [Next]_vars PROVE [Link!Next]_(Link!linkVars)
  OBVIOUS
<1>1. /\ tov0 /\ ~stalled /\ stalls = 0 /\ pc # "handling" /\ BusInv /\ BusInv'
      /\ undisturbed \/ (mphase = "free" /\ pc = "idle" /\ ~irq)
      /\ MasterTypeOK /\ TransferTypeOK
  BY DEF LinkInv, BusInv
<1>2. ASSUME UNCHANGED <<op, executed, from, reg_buf_position>>,
             UNCHANGED <<mphase, acked, got>> \/ (mphase # "free" /\ mphase' # "free")
      PROVE  UNCHANGED Link!linkVars
  BY <1>2 DEF Link!linkVars
<1>3. CASE Slave
  <2>1. UNCHANGED <<tov0, masterVars, failures, undisturbed, from>>
    BY <1>3 DEF Slave
  <2>2. undisturbed
    BY <1>1, <1>3
       DEF Slave, Listen, StartCondition, OtherPinChange, StartEnds, AddressBit, AddressBitEnds,
           ReadWriteBit, Acknowledge, ClockRises, AcknowledgeEnds, SentBitEnds, MasterAck,
           NextRegister,
           NackEnds, ReadEnds, StopSeen, CommandBit, CommandBitEnds, ForeignClockEnds,
           HandleCommand,
           LongCommandEnds, Through
  <2>3. Heard /\ CommandHeard /\ Outcome
    BY <1>1, <2>2 DEF BusInv, Undisturbed
  <2>4. CASE HandleCommand /\ executed' = Append(executed, command_byte)
    <3>1. pc = "command_ack" /\ mphase # "free"
      BY <1>1, <2>4, <2>2, SlaveFollows DEF HandleCommand, Through
    <3>2. OwnWrite /\ command_byte = op.byte /\ executed = <<>>
      BY <2>3, <3>1 DEF Heard, CommandHeard, Outcome, Untouched
    <3>3. reg_buf_position' = After(op.byte, reg_buf_position)
      BY <2>4, <3>2 DEF HandleCommand
    <3>4. executed' # <<>>
      BY <2>4, <3>2
    <3>5. Link!Execute
      BY <2>1, <3>1, <3>2, <3>3, <3>4 DEF Link!Execute, Link!IsCommand, OwnWrite, masterVars
    <3> QED
      BY <3>5 DEF Link!Next
  <2>5. CASE MasterAck /\ UNCHANGED executed
    <3>1. pc = "master_ack" /\ mphase # "free" /\ OwnRead
      BY <1>1, <2>5, <2>2, <2>3, SlaveFollows DEF MasterAck, Through, Heard
    <3>2. CASE reg_buf_position' = Regs!NextPosition(reg_buf_position)
      <4>1. Link!Follow
        BY <2>1, <2>5, <3>1, <3>2 DEF Link!Follow, Link!IsRead, OwnRead, masterVars
      <4> QED
        BY <4>1 DEF Link!Next
    <3>3. CASE reg_buf_position' = reg_buf_position
      BY <1>2, <2>1, <2>5, <3>3 DEF masterVars
    <3> QED
      BY <2>5, <3>2, <3>3 DEF MasterAck
  <2>6. CASE ((Listen /\ ~MasterAck) \/ LongCommandEnds) /\ UNCHANGED executed
    <3>1. reg_buf_position' = reg_buf_position
      BY <2>6 DEF Listen, StartCondition, OtherPinChange, StartEnds, AddressBit, AddressBitEnds,
           ReadWriteBit, Acknowledge, ClockRises, AcknowledgeEnds, SentBitEnds, NextRegister,
           NackEnds, ReadEnds, CommandBit, CommandBitEnds, ForeignClockEnds,
           LongCommandEnds
    <3> QED
      BY <1>2, <2>1, <2>6, <3>1 DEF masterVars
  <2> QED
    BY <1>3, <2>4, <2>5, <2>6 DEF Slave, Listen
<1>4. CASE TimerOverflow
  BY <1>1, <1>4 DEF TimerOverflow
<1>5. CASE BeginTransfer
  <2>1. Link!Ask
    BY <1>5 DEF BeginTransfer, MasterBegins, SlaveWaits, Link!Ask
  <2> QED
    BY <2>1 DEF Link!Next
<1>6. CASE ContinueTransfer
  <2>1. mphase # "free" /\ UNCHANGED <<executed, undisturbed, from, reg_buf_position, op>>
    BY <1>6 DEF ContinueTransfer, transfer, SlaveWaits, MasterContinues, MasterRetries,
       MasterStarts, SetSda, RaiseScl,
           AddressClockEnds, AddressAckEnds, DataClockEnds, DataAckEnds, MasterStops, Clocking,
           LowerScl
  <2>2. CASE mphase' # "free"
    BY <1>2, <2>1, <2>2
  <2>3. CASE mphase' = "free"
    <3>1. undisturbed'
      BY <1>1, <2>1
    <3>2. /\ OwnWrite => acked' = "yes" /\ executed' = <<op.byte>>
          /\ OwnRead => /\ acked' = "yes" /\ Len(got') = op.length
                        /\ \A i \in 1 .. op.length : got'[i] \in Contents(ReadRun[i])
                        /\ reg_buf_position' = ReadRun[op.length]
      <4>1. OverOwn'
        BY OverOwnNext
      <4>2. pc' # "handling" /\ BusInv'
        BY DEF LinkInv
      <4> QED
        BY <2>1, <2>3, <3>1, <4>2, <4>1 DEF OverOwn, OwnWrite, OwnRead, ReadRun
    <3>3. Link!Close
      BY <2>1, <2>3, <3>2
         DEF Link!Close, Link!IsCommand, Link!IsRead, OwnWrite, OwnRead, ReadRun
    <3> QED
      BY <3>3 DEF Link!Next
  <2> QED
    BY <2>2, <2>3
<1>7. CASE MasterFails
  BY <1>1, <1>7 DEF MasterFails, Stall, Die, KeepsTime
<1>8. CASE MasterResumes
  BY <1>1, <1>8 DEF MasterResumes, Resume
<1>9. CASE UNCHANGED vars
  BY <1>2, <1>9 DEF vars, slaveVars, failures, transfer, masterVars
<1> QED
  BY <1>3, <1>4, <1>5, <1>6, <1>7, <1>8, <1>9 DEF Next

(* On a bus where nothing is slower than a clock the bit by bit slave      *)
(* implements the atomic link: each transfer executes its command or       *)
(* returns its registers in one piece.                                     *)
THEOREM SlaveImplementsLink == ASSUME KeepsTime PROVE Spec => ImplementsCommandLink
<1>1. Init => LinkInv
  BY LinkInvInit
<1>2. LinkInv /\ [Next]_vars => LinkInv'
  BY LinkInvStep
<1>3. Init => Link!Init
  BY DEF Init, SlaveInit, MasterInit, Link!Init
<1>4. LinkInv /\ LinkInv' /\ [Next]_vars => [Link!Next]_(Link!linkVars)
  BY LinkStep
<1> QED
  BY <1>1, <1>2, <1>3, <1>4, PTL DEF Spec, ImplementsCommandLink, Link!Spec
=============================================================================

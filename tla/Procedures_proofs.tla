--------------------------- MODULE Procedures_proofs ---------------------------
(* Proofs about Procedures: for any machine, any loads and stores, any code. *)
EXTENDS Procedures, FiniteSetTheorems, WellFoundedInduction, TLAPS

------------------------------------------------------------------------------
(* Words. *)
LEMMA ModulusIsNat == AddrMod \in Nat \ {0} /\ Radix \in Nat \ {0}
BY AddrModAssumption, RadixAssumption

LEMMA WordIsAddress == ASSUME NEW x \in Int PROVE Word(x) \in Address
BY AddrModAssumption DEF Word, Address

LEMMA AddressIsWord == ASSUME NEW a \in Address PROVE Word(a) = a
BY AddrModAssumption DEF Word, Address

(* There is only one quotient. *)
LEMMA OneQuotient ==
  ASSUME NEW M \in Nat \ {0}, NEW k \in Int, NEW s \in 0 .. M - 1, NEW m \in Int, NEW t \in 0 .. M - 1,
         M * k + s = M * m + t
  PROVE  s = t
<1>1. M * (k - m) = t - s
  OBVIOUS
<1>2. ~(k - m >= 1)
  <2>1. k - m >= 1 => M * (k - m) >= M
    OBVIOUS
  <2>2. QED
    BY <1>1, <2>1
<1>3. ~(m - k >= 1)
  <2>1. M * (m - k) = s - t
    BY <1>1
  <2>2. m - k >= 1 => M * (m - k) >= M
    OBVIOUS
  <2>3. QED
    BY <2>1, <2>2
<1>4. k = m
  BY <1>2, <1>3
<1>5. QED
  BY <1>1, <1>4

LEMMA DivMod ==
  ASSUME NEW x \in Int, NEW M \in Nat \ {0}
  PROVE  x \div M \in Int /\ x % M \in 0 .. M - 1 /\ x = M * (x \div M) + (x % M)
<1>1. x \div M \in Int
  OBVIOUS
<1>2. x % M \in 0 .. M - 1
  OBVIOUS
<1>3. x = M * (x \div M) + (x % M)
  BY Z3
<1>4. QED
  BY <1>1, <1>2, <1>3

LEMMA SameMod ==
  ASSUME NEW M \in Nat \ {0}, NEW x \in Int, NEW q \in Int PROVE (x + M * q) % M = x % M
<1> DEFINE y == x + M * q
           xd == x \div M
           xm == x % M
           yd == y \div M
           ym == y % M
<1>1. M * q \in Int /\ y \in Int /\ y = x + M * q
  OBVIOUS
<1> HIDE DEF y
<1>2. x = M * xd + xm /\ xd \in Int /\ xm \in 0 .. M - 1
  BY DivMod
<1>3. y = M * yd + ym /\ yd \in Int /\ ym \in 0 .. M - 1
  BY <1>1, DivMod
<1> HIDE DEF xd, xm, yd, ym
<1>4. M * (xd + q) = M * xd + M * q /\ xd + q \in Int
  BY <1>2
<1>5. M * xd \in Int /\ M * yd \in Int
  BY <1>2, <1>3
<1>6. M * (xd + q) + xm = M * yd + ym
  BY <1>1, <1>2, <1>3, <1>4, <1>5
<1>7. xm = ym
  BY <1>2, <1>3, <1>4, <1>6, OneQuotient
<1>8. QED
  BY <1>7 DEF xm, ym, y

LEMMA WordSum == ASSUME NEW a \in Int, NEW c \in Int PROVE Word(Word(a) + c) = Word(a + c)
<1> DEFINE q == a \div AddrMod
           w == a % AddrMod
<1>1. q \in Int /\ w \in Int /\ a = AddrMod * q + w
  BY DivMod, ModulusIsNat
<1> HIDE DEF q, w
<1>2. AddrMod * q \in Int /\ a + c = (w + c) + AddrMod * q
  BY <1>1, ModulusIsNat
<1>3. ((w + c) + AddrMod * q) % AddrMod = (w + c) % AddrMod
  <2> DEFINE x == w + c
             M == AddrMod
  <2>1. x \in Int /\ M \in Nat \ {0}
    BY <1>1, ModulusIsNat
  <2> HIDE DEF x, M
  <2>2. (x + M * q) % M = x % M
    BY <1>1, <2>1, SameMod
  <2>3. QED
    BY <2>2 DEF x, M
<1>4. QED
  BY <1>2, <1>3 DEF Word, w

(* A word-aligned address stays one, and has room for a word. *)
LEMMA AlignedSteps ==
  ASSUME NEW a \in Int, a % 4 = 0, NEW c \in Int PROVE Word(a + 4 * c) % 4 = 0
<1> DEFINE x == a + 4 * c
           q == x \div AddrMod
<1>1. AddrMod % 4 = 0 /\ AddrMod \in Nat \ {0}
  BY ProceduresAssumption, AddrModAssumption
<1>2. x \in Int /\ x % 4 = 0
  OBVIOUS
<1> HIDE DEF x
<1>3. q \in Int /\ Word(x) \in Int /\ x = AddrMod * q + Word(x)
  BY <1>1, <1>2, DivMod DEF Word
<1>4. PICK n \in Nat : AddrMod = 4 * n
  <2>1. AddrMod = 4 * (AddrMod \div 4) /\ AddrMod \div 4 \in Nat
    BY <1>1
  <2>2. QED
    BY <2>1
<1> HIDE DEF q
<1>5. AddrMod * q = 4 * (n * q) /\ n * q \in Int
  BY <1>3, <1>4
<1>6. Word(x) = x + 4 * (-(n * q))
  BY <1>2, <1>3, <1>5
<1>7. QED
  BY <1>2, <1>5, <1>6 DEF x

LEMMA AlignedHasRoom == ASSUME NEW a \in Address, a % 4 = 0 PROVE a + 4 <= AddrMod
BY ProceduresAssumption, AddrModAssumption DEF Address

------------------------------------------------------------------------------
(* The memory behind the slices. *)
Buffer(s) == [0 .. SliceLength(Machine[s]) - 1 -> 0 .. Radix - 1]
Memories ==
  {m \in [DOMAIN Machine -> UNION {Buffer(s) : s \in DOMAIN Machine}] :
     \A s \in DOMAIN Machine : m[s] \in Buffer(s)}

LEMMA LeastHit ==
  ASSUME NEW hits \in SUBSET Nat, hits # {}
  PROVE  \E k \in hits : \A l \in hits : k <= l
<1> DEFINE R == {pair \in Nat \X Nat : pair[1] < pair[2]}
<1>1. IsWellFoundedOn(R, Nat)
  BY NatLessThanWellFounded DEF OpToRel
<1>2. PICK k \in hits : \A l \in hits : <<l, k>> \notin R
  BY <1>1, WFMin
<1>3. \A l \in hits : ~(l < k)
  BY <1>2
<1>4. QED
  BY <1>3

LEMMA Granted ==
  ASSUME NEW a, NEW n, getslice(Machine, a, n) # 0
  PROVE  getslice(Machine, a, n) \in DOMAIN Machine /\ Matches(Machine[getslice(Machine, a, n)], a, n)
<1> DEFINE hits == Hits(Machine, a, n)
<1>1. hits \in SUBSET Nat
  BY MachineAssumption DEF Hits
<1>2. hits # {} /\ getslice(Machine, a, n) = CHOOSE k \in hits : \A l \in hits : k <= l
  BY DEF getslice
<1>3. getslice(Machine, a, n) \in hits
  <2> HIDE DEF hits
  <2>1. \E k \in hits : \A l \in hits : k <= l
    BY <1>1, <1>2, LeastHit
  <2>2. QED
    BY <1>2, <2>1
<1>4. QED
  BY <1>3 DEF Hits

(* An access below the top of the address space lies in the buffer of its slice. *)
LEMMA InBuffer ==
  ASSUME NEW a \in Address, NEW n \in {1, 2, 4}, a + n <= AddrMod,
         NEW s, s = getslice(Machine, a, n), s # 0, NEW k \in 0 .. n - 1
  PROVE  s \in DOMAIN Machine /\ SliceOffset(Machine[s], a) + k \in 0 .. SliceLength(Machine[s]) - 1
<1>1. s \in DOMAIN Machine /\ Matches(Machine[s], a, n)
  BY Granted
<1>2. Machine[s].begin \in Address /\ Machine[s].end \in Address
  BY <1>1, MachineAssumption
<1> DEFINE b0 == Machine[s].begin
           e0 == Machine[s].end
<1>3. (a + n - 1) % AddrMod = a + n - 1
  BY AddrModAssumption DEF Address
<1>4. a >= b0 /\ a + n - 1 < e0
  BY <1>1, <1>3 DEF Matches
<1>5. SliceLength(Machine[s]) = e0 - b0
  <2>1. e0 - b0 \in 0 .. AddrMod - 1
    BY <1>2, <1>4, AddrModAssumption DEF Address
  <2>2. (e0 - b0) % AddrMod = e0 - b0
    BY <2>1, AddrModAssumption
  <2>3. QED
    BY <2>2 DEF SliceLength
<1>6. QED
  BY <1>1, <1>2, <1>4, <1>5, AddrModAssumption DEF SliceOffset, Address

(* A value of some bytes is below the number of such values. *)
LEMMA Digit ==
  ASSUME NEW H \in Nat, NEW h \in 0 .. H - 1, NEW d \in 0 .. Radix - 1
  PROVE  h * Radix + d \in 0 .. H * Radix - 1
<1>1. h * Radix <= (H - 1) * Radix
  <2>1. (H - 1 - h) * Radix >= 0
    BY RadixAssumption
  <2>2. (H - 1 - h) * Radix = (H - 1) * Radix - h * Radix
    BY RadixAssumption
  <2>3. QED
    BY <2>1, <2>2, RadixAssumption
<1>2. (H - 1) * Radix = H * Radix - Radix
  BY RadixAssumption
<1>3. h * Radix \in Nat /\ H * Radix \in Nat
  BY RadixAssumption
<1>4. QED
  BY <1>1, <1>2, <1>3, RadixAssumption

LEMMA ValueIsAddress ==
  ASSUME NEW n \in {1, 2, 4}, NEW byte, \A k \in 0 .. n - 1 : byte[k] \in 0 .. Radix - 1
  PROVE  ValueOf(byte, n) \in Address
<1> DEFINE R2 == Radix * Radix
           R3 == R2 * Radix
<1>1. R2 \in Nat /\ R3 \in Nat /\ AddrMod = R3 * Radix /\ Radix \in Nat \ {0}
  BY RadixAssumption
<1>2. Radix <= R2 /\ R2 <= AddrMod
  <2>1. \A x, y \in Nat \ {0} : x <= x * y /\ x * y \in Nat \ {0}
    OBVIOUS
  <2>2. Radix <= R2 /\ R2 \in Nat \ {0}
    BY <1>1, <2>1
  <2>3. R2 <= R2 * Radix /\ R3 \in Nat \ {0}
    BY <1>1, <2>1, <2>2
  <2>4. R3 <= R3 * Radix
    BY <1>1, <2>1, <2>3
  <2>5. QED
    BY <1>1, <2>2, <2>3, <2>4
<1>3. CASE n = 1
  BY <1>1, <1>2, <1>3 DEF ValueOf, Address
<1>4. CASE n = 2
  <2>1. byte[1] * Radix + byte[0] \in 0 .. R2 - 1
    <3>1. byte[0] \in 0 .. Radix - 1 /\ byte[1] \in 0 .. Radix - 1
      BY <1>4
    <3>2. QED
      BY <1>1, <3>1, Digit
  <2>2. QED
    BY <1>1, <1>2, <1>4, <2>1 DEF ValueOf, Address
<1>5. CASE n = 4
  <2> DEFINE v2 == byte[3] * Radix + byte[2]
             v3 == v2 * Radix + byte[1]
             v4 == v3 * Radix + byte[0]
  <2>1. byte[0] \in 0 .. Radix - 1 /\ byte[1] \in 0 .. Radix - 1 /\ byte[2] \in 0 .. Radix - 1 /\ byte[3] \in 0 .. Radix - 1
    BY <1>5
  <2>2. v2 \in 0 .. R2 - 1
    BY <1>1, <2>1, Digit
  <2> HIDE DEF v2, R2
  <2>3. v3 \in 0 .. R3 - 1
    BY <1>1, <2>1, <2>2, Digit
  <2> HIDE DEF v3, R3
  <2>4. v4 \in 0 .. AddrMod - 1
    BY <1>1, <2>1, <2>3, Digit
  <2>5. ValueOf(byte, n) = v4
    BY <1>5 DEF ValueOf, v3, v2
  <2>6. QED
    BY <2>4, <2>5 DEF Address
<1>6. QED
  BY <1>3, <1>4, <1>5

LEMMA ReadIsAddress ==
  ASSUME mem \in Memories, NEW a \in Address, NEW n \in {1, 2, 4}, a + n <= AddrMod
  PROVE  read_n(a, n) \in Address
<1> DEFINE s == getslice(Machine, a, n)
           byte == [k \in 0 .. n - 1 |-> mem[s][SliceOffset(Machine[s], a) + k]]
<1>1. CASE s = 0
  BY <1>1, AddrModAssumption DEF read_n, Address
<1>2. CASE s # 0
  <2>1. \A k \in 0 .. n - 1 : s \in DOMAIN Machine /\ SliceOffset(Machine[s], a) + k \in 0 .. SliceLength(Machine[s]) - 1
    <3> HIDE DEF s
    <3> SUFFICES ASSUME NEW k \in 0 .. n - 1
                 PROVE  s \in DOMAIN Machine /\ SliceOffset(Machine[s], a) + k \in 0 .. SliceLength(Machine[s]) - 1
      OBVIOUS
    <3>1. QED
      BY <1>2, InBuffer DEF s
  <2>2. s \in DOMAIN Machine
    BY <1>2, Granted
  <2>3. mem[s] \in Buffer(s)
    BY <2>2 DEF Memories
  <2> HIDE DEF s
  <2>4. \A k \in 0 .. n - 1 : byte[k] \in 0 .. Radix - 1
    BY <2>1, <2>3 DEF Buffer
  <2> HIDE DEF byte
  <2>5. ValueOf(byte, n) \in Address
    BY <2>4, ValueIsAddress
  <2>6. QED
    BY <1>2, <2>5 DEF read_n, s, byte
<1>3. QED
  BY <1>1, <1>2

LEMMA ByteIsByte == ASSUME NEW v \in Int, NEW k \in 0 .. 3 PROVE ByteOf(v, k) \in 0 .. Radix - 1
<1> DEFINE c == CASE k = 0 -> 1 [] k = 1 -> Radix [] k = 2 -> Radix * Radix [] k = 3 -> Radix * Radix * Radix
<1>1. c \in Nat \ {0}
  <2>1. \A x, y \in Nat \ {0} : x * y \in Nat \ {0}
    OBVIOUS
  <2>2. Radix * Radix \in Nat \ {0}
    BY <2>1, RadixAssumption
  <2>3. Radix * Radix * Radix \in Nat \ {0}
    BY <2>1, <2>2, RadixAssumption
  <2>4. QED
    BY <2>2, <2>3, RadixAssumption
<1>2. v \div c \in Int
  <2> HIDE DEF c
  <2>1. QED
    BY <1>1, DivMod
<1>3. (v \div c) % Radix \in 0 .. Radix - 1
  BY <1>2, DivMod, RadixAssumption
<1>4. QED
  BY <1>3 DEF ByteOf

(* Byte k of the buffer behind slice s is among those an access is granted. *)
Lands(a, n, s, k) ==
  getslice(Machine, a, n) = s /\ ~Machine[s].read_only /\ Machine[s].begin + k - a \in 0 .. n - 1

(* A store puts the bytes where they belong and changes nothing else. *)
PutsBytes(m, a, n, v) ==
  \A s \in DOMAIN Machine : \A k \in 0 .. SliceLength(Machine[s]) - 1 :
    /\ Lands(a, n, s, k) => write_n(m, a, n, v)[s][k] = ByteOf(v, Machine[s].begin + k - a)
    /\ ~Lands(a, n, s, k) => write_n(m, a, n, v)[s][k] = m[s][k]

LEMMA WriteByte ==
  ASSUME NEW m \in Memories, NEW a \in Address, NEW n \in {1, 2, 4}, NEW v \in Int
  PROVE  write_n(m, a, n, v) \in Memories /\ PutsBytes(m, a, n, v)
<1> DEFINE g == getslice(Machine, a, n)
           o == SliceOffset(Machine[g], a)
           written == PutBytes(m[g], o, n, v)
           after == write_n(m, a, n, v)
<1>1. \A s \in DOMAIN Machine : m[s] \in Buffer(s)
  BY DEF Memories
<1>2. DOMAIN m = DOMAIN Machine /\ DOMAIN Machine \subseteq Nat \ {0}
  BY MachineAssumption DEF Memories
<1>3. CASE g = 0 \/ (g # 0 /\ Machine[g].read_only)
  <2>1. after = m
    BY <1>3 DEF write_n
  <2>2. \A s \in DOMAIN Machine : \A k : ~Lands(a, n, s, k)
    BY <1>2, <1>3 DEF Lands
  <2>3. QED
    BY <1>1, <2>1, <2>2 DEF PutsBytes
<1>4. CASE g # 0 /\ ~Machine[g].read_only
  <2>1. g \in DOMAIN Machine
    BY <1>4, Granted
  <2>2. m[g] \in Buffer(g) /\ DOMAIN m[g] = 0 .. SliceLength(Machine[g]) - 1
    BY <1>1, <2>1 DEF Buffer
  <2>3. Machine[g].begin \in Int /\ a \in Int
    BY <2>1, MachineAssumption DEF Address
  <2>4. o = a - Machine[g].begin /\ o \in Int
    BY <2>3 DEF SliceOffset
  <2> HIDE DEF g, o
  <2>5. \A k \in 0 .. SliceLength(Machine[g]) - 1 :
          /\ k - o = Machine[g].begin + k - a
          /\ k \in o .. o + n - 1 <=> Machine[g].begin + k - a \in 0 .. n - 1
          /\ k \in o .. o + n - 1 => k - o \in 0 .. 3
    BY <2>3, <2>4
  <2>6. \A k \in 0 .. SliceLength(Machine[g]) - 1 :
          written[k] = IF Machine[g].begin + k - a \in 0 .. n - 1
                         THEN ByteOf(v, Machine[g].begin + k - a) ELSE m[g][k]
    BY <2>2, <2>5 DEF PutBytes
  <2>7. written \in Buffer(g)
    <3>1. \A k \in 0 .. SliceLength(Machine[g]) - 1 : written[k] \in 0 .. Radix - 1
      <4> SUFFICES ASSUME NEW k \in 0 .. SliceLength(Machine[g]) - 1 PROVE written[k] \in 0 .. Radix - 1
        OBVIOUS
      <4>1. m[g][k] \in 0 .. Radix - 1
        BY <2>2 DEF Buffer
      <4>2. k \in o .. o + n - 1 => ByteOf(v, k - o) \in 0 .. Radix - 1
        BY <2>5, ByteIsByte
      <4>3. QED
        BY <2>2, <4>1, <4>2 DEF PutBytes
    <3>2. written = [k \in 0 .. SliceLength(Machine[g]) - 1 |-> written[k]]
      BY <2>2 DEF PutBytes
    <3> HIDE DEF written
    <3>3. QED
      BY <3>1, <3>2 DEF Buffer
  <2>8. after = [m EXCEPT ![g] = written]
    BY <1>4 DEF write_n, g, o
  <2> HIDE DEF written, after
  <2>9. \A s \in DOMAIN Machine : after[s] = IF s = g THEN written ELSE m[s]
    BY <1>2, <2>1, <2>8
  <2>10. \A s \in DOMAIN Machine : after[s] \in Buffer(s)
    BY <1>1, <2>7, <2>9
  <2>11. after \in Memories
    <3>1. DOMAIN after = DOMAIN Machine /\ after = [s \in DOMAIN Machine |-> after[s]]
      BY <1>2, <2>8
    <3>2. QED
      BY <2>10, <3>1 DEF Memories
  <2>12. \A s \in DOMAIN Machine : \A k \in 0 .. SliceLength(Machine[s]) - 1 :
           /\ Lands(a, n, s, k) => after[s][k] = ByteOf(v, Machine[s].begin + k - a)
           /\ ~Lands(a, n, s, k) => after[s][k] = m[s][k]
    BY <1>4, <2>6, <2>9 DEF Lands, g
  <2>13. QED
    BY <2>11, <2>12 DEF PutsBytes, after, g
<1>5. QED
  BY <1>3, <1>4

------------------------------------------------------------------------------
(* The loops over register_list: sixteen rounds, each from what the last one left. *)
LEMMA Sixteen ==
  ASSUME NEW T, 0 \in T, \A i \in 0 .. 15 : i \in T => i + 1 \in T PROVE \A i \in 0 .. 16 : i \in T
<1>1. 1 \in T /\ 2 \in T /\ 3 \in T /\ 4 \in T
  OBVIOUS
<1>2. 5 \in T /\ 6 \in T /\ 7 \in T /\ 8 \in T
  BY <1>1
<1>3. 9 \in T /\ 10 \in T /\ 11 \in T /\ 12 \in T
  BY <1>2
<1>4. 13 \in T /\ 14 \in T /\ 15 \in T /\ 16 \in T
  BY <1>3
<1>5. QED
  BY <1>1, <1>2, <1>3, <1>4

Keeps(F, S) == \A k \in 0 .. 15 : \A x \in S : F[k][x] \in S
Follows(f, start, F) == f[0] = start /\ \A i \in 1 .. 16 : f[i] = F[i - 1][f[i - 1]]

LEMMA RoundsExist ==
  ASSUME NEW S, NEW start \in S, NEW F, Keeps(F, S)
  PROVE  \E f \in [0 .. 16 -> S] : Follows(f, start, F)
<1> DEFINE Runs(f, n) == f[0] = start /\ \A i \in 1 .. n : f[i] = F[i - 1][f[i - 1]]
           T == {n \in 0 .. 16 : \E f \in [0 .. n -> S] : Runs(f, n)}
<1>1. 0 \in T
  <2> DEFINE f == [i \in 0 .. 0 |-> start]
  <2>1. f \in [0 .. 0 -> S] /\ Runs(f, 0)
    OBVIOUS
  <2> HIDE DEF f
  <2>2. QED
    BY <2>1
<1>2. \A n \in 0 .. 15 : n \in T => n + 1 \in T
  <2> SUFFICES ASSUME NEW n \in 0 .. 15, n \in T PROVE n + 1 \in T
    OBVIOUS
  <2>1. PICK f \in [0 .. n -> S] : Runs(f, n)
    OBVIOUS
  <2> DEFINE g == [i \in 0 .. n + 1 |-> IF i = n + 1 THEN F[n][f[n]] ELSE f[i]]
  <2>2. \A i \in 0 .. n : g[i] = f[i]
    OBVIOUS
  <2>3. g[n + 1] = F[n][g[n]] /\ g[n + 1] \in S
    <3>1. f[n] \in S /\ g[n] = f[n] /\ g[n + 1] = F[n][f[n]]
      BY <2>2
    <3>2. F[n][f[n]] \in S
      BY <3>1 DEF Keeps
    <3>3. QED
      BY <3>1, <3>2
  <2>4. g \in [0 .. n + 1 -> S]
    BY DEF Keeps
  <2> HIDE DEF g
  <2>5. \A i \in 1 .. n + 1 : g[i] = F[i - 1][g[i - 1]]
    <3> SUFFICES ASSUME NEW i \in 1 .. n + 1 PROVE g[i] = F[i - 1][g[i - 1]]
      OBVIOUS
    <3>1. CASE i = n + 1
      <4>1. i - 1 = n
        BY <3>1
      <4>2. QED
        BY <2>3, <3>1, <4>1
    <3>2. CASE i \in 1 .. n
      BY <2>1, <2>2, <3>2
    <3>3. QED
      BY <3>1, <3>2
  <2>6. Runs(g, n + 1)
    BY <2>1, <2>2, <2>5
  <2> HIDE DEF Runs
  <2>7. QED
    BY <2>4, <2>6
<1>3. 16 \in T
  <2> HIDE DEF T
  <2>1. QED
    BY <1>1, <1>2, Sixteen
<1>4. QED
  BY <1>3 DEF Follows

LEMMA AddressRounds ==
  ASSUME NEW base, reg[base] \in Address, NEW list, NEW up \in BOOLEAN,
         NEW addr, addr = addresses(base, list, up)
  PROVE  /\ addr[0] = reg[base]
         /\ \A i \in 1 .. 16 :
              addr[i] = IF (IF up THEN i - 1 ELSE 16 - i) \in list
                          THEN Word(addr[i - 1] + (IF up THEN 4 ELSE -4)) ELSE addr[i - 1]
<1> DEFINE step == IF up THEN 4 ELSE -4
           no(i) == IF up THEN i - 1 ELSE 16 - i
           Steps(f, i) == IF i = 0 THEN reg[base]
                          ELSE IF (IF up THEN i - 1 ELSE 16 - i) \in list
                                 THEN Word(f[i - 1] + (IF up THEN 4 ELSE -4))
                          ELSE f[i - 1]
           Chosen == CHOOSE f : f = [i \in 0 .. 16 |-> Steps(f, i)]
           F == [k \in 0 .. 15 |-> [x \in Address |-> IF no(k + 1) \in list THEN Word(x + step) ELSE x]]
<1>1. addr = Chosen
  BY DEF addresses
<1>2. \A k \in 0 .. 15 : \A x \in Address :
        F[k][x] = (IF no(k + 1) \in list THEN Word(x + step) ELSE x) /\ F[k][x] \in Address
  <2> SUFFICES ASSUME NEW k \in 0 .. 15, NEW x \in Address
               PROVE  F[k][x] = (IF no(k + 1) \in list THEN Word(x + step) ELSE x) /\ F[k][x] \in Address
    OBVIOUS
  <2>1. x + step \in Int
    BY AddrModAssumption DEF Address
  <2>2. Word(x + step) \in Address
    BY <2>1, WordIsAddress
  <2>3. QED
    BY <2>2
<1>3. \E f : f = [i \in 0 .. 16 |-> Steps(f, i)]
  <2> DEFINE start == reg[base]
  <2> HIDE DEF F, start
  <2>0. start \in Address /\ Keeps(F, Address)
    BY <1>2 DEF start, Keeps
  <2>1. PICK f \in [0 .. 16 -> Address] : Follows(f, start, F)
    BY <2>0, RoundsExist
  <2>2. \A i \in 0 .. 16 : f[i] = Steps(f, i)
    <3> SUFFICES ASSUME NEW i \in 0 .. 16, i # 0 PROVE f[i] = Steps(f, i)
      BY <2>1 DEF start, Follows
    <3>1. f[i] = F[i - 1][f[i - 1]] /\ i - 1 \in 0 .. 15 /\ (i - 1) + 1 = i /\ f[i - 1] \in Address
      BY <2>1 DEF Follows
    <3>2. F[i - 1][f[i - 1]] = IF no(i) \in list THEN Word(f[i - 1] + step) ELSE f[i - 1]
      BY <1>2, <3>1
    <3>3. QED
      BY <3>1, <3>2
  <2> HIDE DEF Steps
  <2>3. f = [i \in 0 .. 16 |-> Steps(f, i)]
    BY <2>1, <2>2
  <2>4. QED
    BY <2>3
<1> HIDE DEF Steps
<1>4. Chosen = [i \in 0 .. 16 |-> Steps(Chosen, i)]
  BY <1>3
<1> HIDE DEF Chosen
<1>5. \A i \in 0 .. 16 : addr[i] = Steps(addr, i)
  BY <1>1, <1>4
<1>6. QED
  BY <1>5 DEF Steps

(* How many registers of a list are below a register, and from it on. *)
Below(list, i) == {q \in list : q < i}
From(list, i) == {q \in list : q >= i}

LEMMA FinitePart ==
  ASSUME NEW list \in SUBSET (0 .. 15), NEW part \in SUBSET list
  PROVE  IsFiniteSet(part) /\ Cardinality(part) \in Nat
<1>1. IsFiniteSet(0 .. 15)
  <2>1. 0 \in Int /\ 15 \in Int
    OBVIOUS
  <2>2. QED
    BY <2>1, FS_Interval, Zenon
<1>2. IsFiniteSet(part)
  BY <1>1, FS_Subset
<1>3. QED
  BY <1>2, FS_CardinalityType

LEMMA CountBelow ==
  ASSUME NEW list \in SUBSET (0 .. 15), NEW i \in 0 .. 15
  PROVE  Cardinality(Below(list, i + 1)) = Cardinality(Below(list, i)) + (IF i \in list THEN 1 ELSE 0)
<1> DEFINE lower == Below(list, i)
<1>1. IsFiniteSet(lower) /\ Cardinality(lower) \in Nat
  BY FinitePart DEF Below
<1>2. i \notin lower
  BY DEF Below
<1>3. Below(list, i + 1) = IF i \in list THEN lower \cup {i} ELSE lower
  <2>1. \A q \in list : q < i + 1 <=> q < i \/ q = i
    OBVIOUS
  <2>2. QED
    BY <2>1 DEF Below
<1> HIDE DEF lower
<1>4. Cardinality(lower \cup {i}) = Cardinality(lower) + 1
  BY <1>1, <1>2, FS_AddElement
<1>5. QED
  BY <1>1, <1>3, <1>4 DEF lower

LEMMA CountFrom ==
  ASSUME NEW list \in SUBSET (0 .. 15), NEW i \in 0 .. 15
  PROVE  Cardinality(From(list, i)) = Cardinality(From(list, i + 1)) + (IF i \in list THEN 1 ELSE 0)
<1> DEFINE upper == From(list, i + 1)
<1>1. IsFiniteSet(upper) /\ Cardinality(upper) \in Nat
  BY FinitePart DEF From
<1>2. i \notin upper
  BY DEF From
<1>3. From(list, i) = IF i \in list THEN upper \cup {i} ELSE upper
  <2>1. \A q \in list : q >= i <=> q >= i + 1 \/ q = i
    OBVIOUS
  <2>2. QED
    BY <2>1 DEF From
<1> HIDE DEF upper
<1>4. Cardinality(upper \cup {i}) = Cardinality(upper) + 1
  BY <1>1, <1>2, FS_AddElement
<1>5. QED
  BY <1>1, <1>3, <1>4 DEF upper

LEMMA CountEnds ==
  ASSUME NEW list \in SUBSET (0 .. 15)
  PROVE  /\ Cardinality(Below(list, 0)) = 0 /\ Cardinality(From(list, 16)) = 0
         /\ Below(list, 16) = list /\ From(list, 0) = list
<1>0. \A q \in list : ~(q < 0) /\ ~(q >= 16) /\ q < 16 /\ q >= 0
  OBVIOUS
<1>1. Below(list, 0) = {} /\ From(list, 16) = {}
  BY <1>0 DEF Below, From
<1>2. Below(list, 16) = list /\ From(list, 0) = list
  BY <1>0 DEF Below, From
<1>3. QED
  BY <1>1, <1>2, FS_EmptySet

LEMMA CountSplit ==
  ASSUME NEW list \in SUBSET (0 .. 15), NEW i \in 0 .. 16
  PROVE  Cardinality(list) = Cardinality(Below(list, i)) + Cardinality(From(list, i))
<1>1. IsFiniteSet(Below(list, i)) /\ IsFiniteSet(From(list, i))
  BY FinitePart DEF Below, From
<1>2. Below(list, i) \cap From(list, i) = {} /\ Below(list, i) \cup From(list, i) = list
  <2>1. \A q \in list : q < i <=> ~(q >= i)
    OBVIOUS
  <2>2. QED
    BY <2>1 DEF Below, From
<1>3. Cardinality({}) = 0
  BY FS_EmptySet
<1>4. Cardinality(Below(list, i)) \in Nat /\ Cardinality(From(list, i)) \in Nat
  BY <1>1, FS_CardinalityType
<1>5. Cardinality(Below(list, i) \cup From(list, i)) =
        Cardinality(Below(list, i)) + Cardinality(From(list, i)) - Cardinality(Below(list, i) \cap From(list, i))
  BY <1>1, FS_Union
<1>6. QED
  BY <1>2, <1>3, <1>4, <1>5

(* Upwards, and downwards, the address is that many words from the base. *)
LEMMA UpwardAddresses ==
  ASSUME NEW base, reg[base] \in Address, NEW list \in SUBSET (0 .. 15)
  PROVE  \A i \in 0 .. 16 :
           addresses(base, list, TRUE)[i] = Word(reg[base] + 4 * Cardinality(Below(list, i)))
<1> DEFINE addr == addresses(base, list, TRUE)
           at(i) == Word(reg[base] + 4 * Cardinality(Below(list, i)))
           T == {i \in 0 .. 16 : addr[i] = at(i)}
<1>0. reg[base] \in Int
  BY AddrModAssumption DEF Address
<1> HIDE DEF addr
<1>1. addr[0] = reg[base] /\ \A i \in 1 .. 16 : addr[i] = IF i - 1 \in list THEN Word(addr[i - 1] + 4) ELSE addr[i - 1]
  <2> DEFINE up == TRUE
  <2>1. up \in BOOLEAN
    OBVIOUS
  <2> HIDE DEF up
  <2>2. /\ addr[0] = reg[base]
        /\ \A i \in 1 .. 16 : addr[i] = IF (IF up THEN i - 1 ELSE 16 - i) \in list
                                           THEN Word(addr[i - 1] + (IF up THEN 4 ELSE -4)) ELSE addr[i - 1]
    <3>1. addr = addresses(base, list, up)
      BY DEF addr, up
    <3>2. QED
      BY <2>1, <3>1, AddressRounds
  <2>3. QED
    BY <2>2 DEF up
<1>2. 0 \in T
  <2>1. reg[base] + 4 * Cardinality(Below(list, 0)) = reg[base]
    BY <1>0, CountEnds
  <2>2. QED
    BY <1>1, <2>1, AddressIsWord
<1>3. \A i \in 0 .. 15 : i \in T => i + 1 \in T
  <2> SUFFICES ASSUME NEW i \in 0 .. 15, addr[i] = at(i) PROVE addr[i + 1] = at(i + 1)
    OBVIOUS
  <2> DEFINE c == Cardinality(Below(list, i))
             d == Cardinality(Below(list, i + 1))
  <2>1. c \in Nat /\ d \in Nat
    BY FinitePart DEF Below
  <2>2. d = c + (IF i \in list THEN 1 ELSE 0)
    BY CountBelow
  <2>3. addr[i + 1] = IF i \in list THEN Word(addr[i] + 4) ELSE addr[i]
    <3>1. i + 1 \in 1 .. 16 /\ (i + 1) - 1 = i
      OBVIOUS
    <3>2. QED
      BY <1>1, <3>1
  <2>4. at(i) = Word(reg[base] + 4 * c) /\ at(i + 1) = Word(reg[base] + 4 * d)
    OBVIOUS
  <2> HIDE DEF c, d, at
  <2>5. CASE i \in list
    <3> DEFINE x == reg[base] + 4 * c
    <3>0. x \in Int /\ x + 4 = reg[base] + 4 * d
      BY <1>0, <2>1, <2>2, <2>5
    <3>1. Word(Word(x) + 4) = Word(x + 4)
      <4> HIDE DEF x
      <4>1. QED
        BY <3>0, WordSum
    <3>3. QED
      BY <2>3, <2>4, <2>5, <3>0, <3>1
  <2>6. CASE i \notin list
    BY <2>1, <2>2, <2>3, <2>4, <2>6
  <2>7. QED
    BY <2>5, <2>6
<1> HIDE DEF T
<1>4. \A i \in 0 .. 16 : i \in T
  BY <1>2, <1>3, Sixteen
<1>5. QED
  BY <1>4 DEF T, addr

LEMMA DownwardAddresses ==
  ASSUME NEW base, reg[base] \in Address, NEW list \in SUBSET (0 .. 15)
  PROVE  \A i \in 0 .. 16 :
           addresses(base, list, FALSE)[i] = Word(reg[base] - 4 * Cardinality(From(list, 16 - i)))
<1> DEFINE addr == addresses(base, list, FALSE)
           at(i) == Word(reg[base] - 4 * Cardinality(From(list, 16 - i)))
           T == {i \in 0 .. 16 : addr[i] = at(i)}
<1>0. reg[base] \in Int
  BY AddrModAssumption DEF Address
<1> HIDE DEF addr
<1>1. addr[0] = reg[base] /\ \A i \in 1 .. 16 : addr[i] = IF 16 - i \in list THEN Word(addr[i - 1] + (-4)) ELSE addr[i - 1]
  <2> DEFINE up == FALSE
  <2>1. up \in BOOLEAN
    OBVIOUS
  <2> HIDE DEF up
  <2>2. /\ addr[0] = reg[base]
        /\ \A i \in 1 .. 16 : addr[i] = IF (IF up THEN i - 1 ELSE 16 - i) \in list
                                           THEN Word(addr[i - 1] + (IF up THEN 4 ELSE -4)) ELSE addr[i - 1]
    <3>1. addr = addresses(base, list, up)
      BY DEF addr, up
    <3>2. QED
      BY <2>1, <3>1, AddressRounds
  <2>3. QED
    BY <2>2 DEF up
<1>2. 0 \in T
  <2>1. reg[base] - 4 * Cardinality(From(list, 16 - 0)) = reg[base]
    BY <1>0, CountEnds
  <2>2. QED
    BY <1>1, <2>1, AddressIsWord
<1>3. \A i \in 0 .. 15 : i \in T => i + 1 \in T
  <2> SUFFICES ASSUME NEW i \in 0 .. 15, addr[i] = at(i) PROVE addr[i + 1] = at(i + 1)
    OBVIOUS
  <2> DEFINE j == 15 - i
             c == Cardinality(From(list, j + 1))
             d == Cardinality(From(list, j))
  <2>0. j \in 0 .. 15 /\ 16 - i = j + 1 /\ 16 - (i + 1) = j /\ (i + 1) - 1 = i /\ i + 1 \in 1 .. 16
    OBVIOUS
  <2> HIDE DEF j
  <2>1. c \in Nat /\ d \in Nat
    BY FinitePart DEF From
  <2>2. d = c + (IF j \in list THEN 1 ELSE 0)
    BY <2>0, CountFrom
  <2>3. addr[i + 1] = IF j \in list THEN Word(addr[i] + (-4)) ELSE addr[i]
    BY <1>1, <2>0
  <2>4. at(i) = Word(reg[base] - 4 * c) /\ at(i + 1) = Word(reg[base] - 4 * d)
    BY <2>0
  <2> HIDE DEF c, d, at
  <2>5. CASE j \in list
    <3> DEFINE x == reg[base] - 4 * c
    <3>0. x \in Int /\ x + (-4) = reg[base] - 4 * d
      BY <1>0, <2>1, <2>2, <2>5
    <3>1. Word(Word(x) + (-4)) = Word(x + (-4))
      <4> HIDE DEF x
      <4>1. QED
        BY <3>0, WordSum
    <3>3. QED
      BY <2>3, <2>4, <2>5, <3>0, <3>1
  <2>6. CASE j \notin list
    BY <2>1, <2>2, <2>3, <2>4, <2>6
  <2>7. QED
    BY <2>5, <2>6
<1> HIDE DEF T
<1>4. \A i \in 0 .. 16 : i \in T
  BY <1>2, <1>3, Sixteen
<1>5. QED
  BY <1>4 DEF T, addr

------------------------------------------------------------------------------
(* The slots of a list as the listing reads it. *)
RegFile == reg \in [Registers -> Address]

LEMMA RegisterIsAddress == ASSUME RegFile, NEW r \in Registers PROVE reg[r] \in Address /\ reg[r] \in Int
BY AddrModAssumption DEF RegFile, Address

LEMMA ListOfNumbers == ASSUME NEW list \in SUBSET Registers PROVE list \in SUBSET (0 .. 15)
BY RegistersAssumption

LEMMA SlotWord ==
  ASSUME RegFile, NEW l, l.base \in Registers, l.list \in SUBSET Registers, l.down \in BOOLEAN, NEW r \in l.list
  PROVE  Slot(l, r) = Word(IF l.down THEN reg[l.base] - 4 * Cardinality(From(l.list, r))
                                     ELSE reg[l.base] + 4 * Cardinality(Below(l.list, r)))
<1> DEFINE C == Cardinality(l.list)
           c == Cardinality(Below(l.list, r))
           f == Cardinality(From(l.list, r))
           x == reg[l.base]
           low == IF l.down THEN x - 4 * C ELSE x
<1>1. l.list \in SUBSET (0 .. 15) /\ r \in 0 .. 15 /\ x \in Int
  BY RegisterIsAddress, ListOfNumbers
<1>2. C \in Nat /\ c \in Nat /\ f \in Nat
  BY <1>1, FinitePart DEF Below, From
<1>3. C = c + f
  BY <1>1, CountSplit
<1>4. Slot(l, r) = Word(Word(low) + 4 * c)
  BY DEF Slot, Lowest, Below
<1> HIDE DEF C, c, f, x
<1>5. low \in Int /\ 4 * c \in Int
  BY <1>1, <1>2
<1>6. low + 4 * c = IF l.down THEN x - 4 * f ELSE x + 4 * c
  BY <1>1, <1>2, <1>3
<1> HIDE DEF low
<1>7. Word(Word(low) + 4 * c) = Word(low + 4 * c)
  BY <1>5, WordSum
<1>8. QED
  BY <1>4, <1>6, <1>7 DEF x, f, c

LEMMA BeyondWord ==
  ASSUME RegFile, NEW l, l.base \in Registers, l.list \in SUBSET Registers, l.down \in BOOLEAN
  PROVE  Beyond(l) = addresses(l.base, l.list, ~l.down)[16]
<1>1. l.list \in SUBSET (0 .. 15) /\ reg[l.base] \in Address /\ reg[l.base] \in Int
  BY RegisterIsAddress, ListOfNumbers
<1>2. CASE l.down
  <2> DEFINE x == reg[l.base] - 4 * Cardinality(l.list)
  <2>1. x \in Int
    <3>1. l.list \in SUBSET l.list
      OBVIOUS
    <3>2. Cardinality(l.list) \in Nat
      BY <1>1, <3>1, FinitePart
    <3>3. QED
      BY <1>1, <3>2
  <2>2. Beyond(l) = Word(Word(x))
    BY <1>2 DEF Beyond, Lowest
  <2>3. addresses(l.base, l.list, FALSE)[16] = Word(reg[l.base] - 4 * Cardinality(From(l.list, 16 - 16)))
    <3>1. 16 \in 0 .. 16
      OBVIOUS
    <3>2. QED
      BY <1>1, <3>1, DownwardAddresses
  <2>4. From(l.list, 16 - 16) = l.list
    BY <1>1, CountEnds
  <2>5. Word(Word(x)) = Word(x)
    <3> HIDE DEF x
    <3>1. QED
      BY <2>1, WordIsAddress, AddressIsWord
  <2>6. (~l.down) = FALSE
    BY <1>2
  <2>7. QED
    BY <2>2, <2>3, <2>4, <2>5, <2>6
<1>3. CASE ~l.down
  <2>1. addresses(l.base, l.list, TRUE)[16] = Word(reg[l.base] + 4 * Cardinality(Below(l.list, 16)))
    <3>1. 16 \in 0 .. 16
      OBVIOUS
    <3>2. QED
      BY <1>1, <3>1, UpwardAddresses
  <2>2. Below(l.list, 16) = l.list
    BY <1>1, CountEnds
  <2>3. (~l.down) = TRUE
    BY <1>3
  <2>4. QED
    BY <1>3, <2>1, <2>2, <2>3 DEF Beyond
<1>4. QED
  BY <1>2, <1>3

(* A list that ends below the top of the address space has a place for each of its
   registers, and no two of them overlap. *)
InMemory(l) == Lowest(l) + 4 * Cardinality(l.list) <= AddrMod

LEMMA SlotsApart ==
  ASSUME RegFile, NEW l, l.base \in Registers, l.list \in SUBSET Registers, l.down \in BOOLEAN, InMemory(l)
  PROVE  /\ \A r \in l.list : Slot(l, r) \in Address /\ Slot(l, r) + 4 <= AddrMod
         /\ \A r, q \in l.list : r < q => Slot(l, r) + 4 <= Slot(l, q)
<1> DEFINE C == Cardinality(l.list)
           c(r) == Cardinality(Below(l.list, r))
           low == Lowest(l)
<1>1. l.list \in SUBSET (0 .. 15) /\ reg[l.base] \in Int
  BY RegisterIsAddress, ListOfNumbers
<1>2. C \in Nat /\ \A r \in 0 .. 16 : c(r) \in Nat
  <2>1. \A r \in 0 .. 16 : Below(l.list, r) \in SUBSET l.list
    BY DEF Below
  <2>2. QED
    BY <1>1, <2>1, FinitePart
<1>3. low \in Address
  <2>1. reg[l.base] - 4 * C \in Int
    BY <1>1, <1>2
  <2>2. QED
    BY <1>1, <2>1, WordIsAddress DEF Lowest
<1>4. \A r \in l.list : c(r) + 1 <= C
  <2> SUFFICES ASSUME NEW r \in l.list PROVE c(r) + 1 <= C
    OBVIOUS
  <2>1. r \in 0 .. 15 /\ r + 1 \in 0 .. 16
    BY <1>1
  <2>2. c(r + 1) = c(r) + 1
    BY <1>1, <1>2, <2>1, CountBelow
  <2>3. C = c(r + 1) + Cardinality(From(l.list, r + 1)) /\ Cardinality(From(l.list, r + 1)) \in Nat
    BY <1>1, <2>1, CountSplit, FinitePart DEF From
  <2> HIDE DEF C, c
  <2>4. QED
    BY <1>2, <2>1, <2>2, <2>3
<1>5. \A r \in l.list : Slot(l, r) = low + 4 * c(r)
  <2> SUFFICES ASSUME NEW r \in l.list PROVE Slot(l, r) = low + 4 * c(r)
    OBVIOUS
  <2>1. Slot(l, r) = Word(low + 4 * c(r))
    BY DEF Slot, Below
  <2>2. r \in 0 .. 16 /\ low + 4 * C <= AddrMod
    BY <1>1 DEF InMemory
  <2> HIDE DEF c, C, low
  <2>3. low + 4 * c(r) \in Address
    BY <1>2, <1>3, <1>4, <2>2, AddrModAssumption DEF Address
  <2>4. QED
    BY <2>1, <2>3, AddressIsWord
<1>6. \A r, q \in l.list : r < q => c(r) + 1 <= c(q)
  <2> SUFFICES ASSUME NEW r \in l.list, NEW q \in l.list, r < q PROVE c(r) + 1 <= c(q)
    OBVIOUS
  <2>1. r \in 0 .. 15 /\ q \in 0 .. 15
    BY <1>1
  <2>2. c(r + 1) = c(r) + 1
    BY <1>1, <1>2, <2>1, CountBelow
  <2>3. Below(l.list, r + 1) \in SUBSET Below(l.list, q)
    BY <1>1, <2>1 DEF Below
  <2>4. IsFiniteSet(Below(l.list, q))
    BY <1>1, FinitePart DEF Below
  <2>5. c(r + 1) <= c(q)
    BY <2>3, <2>4, FS_Subset
  <2>6. QED
    BY <2>2, <2>5
<1>7. \A r \in l.list : r \in 0 .. 16
  BY <1>1
<1>8. low + 4 * C <= AddrMod
  BY DEF InMemory
<1> HIDE DEF C, c, low
<1>9. \A r \in l.list : Slot(l, r) \in Address /\ Slot(l, r) + 4 <= AddrMod
  BY <1>2, <1>3, <1>4, <1>5, <1>7, <1>8, AddrModAssumption DEF Address
<1>10. \A r, q \in l.list : r < q => Slot(l, r) + 4 <= Slot(l, q)
  BY <1>2, <1>3, <1>5, <1>6, <1>7, AddrModAssumption DEF Address
<1>11. QED
  BY <1>9, <1>10

(* So has one by an aligned base, wherever it ends. *)
LEMMA SlotsAligned ==
  ASSUME RegFile, NEW l, l.base \in Registers, l.list \in SUBSET Registers, l.down \in BOOLEAN, reg[l.base] % 4 = 0
  PROVE  /\ \A r \in l.list : Slot(l, r) \in Address /\ Slot(l, r) + 4 <= AddrMod
         /\ Beyond(l) % 4 = 0
<1> DEFINE x == reg[l.base]
<1>1. l.list \in SUBSET (0 .. 15) /\ x \in Int /\ x % 4 = 0
  BY RegisterIsAddress, ListOfNumbers
<1>2. \A part \in SUBSET l.list : Cardinality(part) \in Nat
  BY <1>1, FinitePart
<1> HIDE DEF x
<1>3. \A c \in Int : Word(x + 4 * c) % 4 = 0 /\ Word(x + 4 * c) \in Address
  <2> SUFFICES ASSUME NEW c \in Int PROVE Word(x + 4 * c) % 4 = 0 /\ Word(x + 4 * c) \in Address
    OBVIOUS
  <2>1. x + 4 * c \in Int
    BY <1>1
  <2>2. QED
    BY <1>1, <2>1, AlignedSteps, WordIsAddress
<1>4. \A c \in Nat : x - 4 * c = x + 4 * (-c) /\ -c \in Int
  BY <1>1
<1>5. \A c \in Nat : Word(x - 4 * c) % 4 = 0 /\ Word(x - 4 * c) \in Address
  BY <1>3, <1>4
<1>6. ASSUME NEW r \in l.list PROVE Slot(l, r) \in Address /\ Slot(l, r) + 4 <= AddrMod
  <2>1. Below(l.list, r) \in SUBSET l.list /\ From(l.list, r) \in SUBSET l.list
    BY DEF Below, From
  <2>2. Cardinality(Below(l.list, r)) \in Nat /\ Cardinality(From(l.list, r)) \in Nat
    BY <1>2, <2>1
  <2>3. Slot(l, r) = Word(IF l.down THEN x - 4 * Cardinality(From(l.list, r))
                                    ELSE x + 4 * Cardinality(Below(l.list, r)))
    BY SlotWord DEF x
  <2>4. Slot(l, r) \in Address /\ Slot(l, r) % 4 = 0
    BY <1>3, <1>5, <2>2, <2>3
  <2>5. QED
    BY <2>4, AlignedHasRoom
<1>7. Beyond(l) % 4 = 0
  <2>1. Cardinality(l.list) \in Nat
    BY <1>2
  <2>2. CASE l.down
    <3>1. Beyond(l) = Word(Word(x - 4 * Cardinality(l.list)))
      BY <2>2 DEF Beyond, Lowest, x
    <3>2. QED
      BY <1>5, <2>1, <3>1, AddressIsWord
  <2>3. CASE ~l.down
    <3>1. Beyond(l) = Word(x + 4 * Cardinality(l.list))
      BY <2>3 DEF Beyond, x
    <3>2. QED
      BY <1>3, <2>1, <3>1
  <2>4. QED
    BY <2>2, <2>3
<1>8. QED
  BY <1>6, <1>7

------------------------------------------------------------------------------
(* What a block store leaves in memory. *)
RegNo(up, i) == IF up THEN i - 1 ELSE 16 - i

LEMMA WriteIsMemory ==
  ASSUME NEW m \in Memories, NEW a \in Address, NEW v \in Int PROVE write_n(m, a, 4, v) \in Memories
BY WriteByte

LEMMA AddressesAreAddresses ==
  ASSUME RegFile, NEW base \in Registers, NEW list \in SUBSET Registers, NEW up \in BOOLEAN, NEW i \in 0 .. 16
  PROVE  addresses(base, list, up)[i] \in Address
<1>1. reg[base] \in Address /\ reg[base] \in Int /\ list \in SUBSET (0 .. 15)
  BY RegisterIsAddress, ListOfNumbers
<1>2. \A part \in SUBSET list : Cardinality(part) \in Nat
  BY <1>1, FinitePart
<1>3. CASE up
  <2>1. addresses(base, list, TRUE)[i] = Word(reg[base] + 4 * Cardinality(Below(list, i)))
    BY <1>1, UpwardAddresses
  <2>2. Cardinality(Below(list, i)) \in Nat
    BY <1>2 DEF Below
  <2>3. reg[base] + 4 * Cardinality(Below(list, i)) \in Int
    BY <1>1, <2>2
  <2>4. up = TRUE
    BY <1>3
  <2>5. QED
    BY <2>1, <2>3, <2>4, WordIsAddress
<1>4. CASE ~up
  <2>1. addresses(base, list, FALSE)[i] = Word(reg[base] - 4 * Cardinality(From(list, 16 - i)))
    BY <1>1, DownwardAddresses
  <2>2. Cardinality(From(list, 16 - i)) \in Nat
    BY <1>2 DEF From
  <2>3. reg[base] - 4 * Cardinality(From(list, 16 - i)) \in Int
    BY <1>1, <2>2
  <2>4. up = FALSE
    BY <1>4
  <2>5. QED
    BY <2>1, <2>3, <2>4, WordIsAddress
<1>5. QED
  BY <1>3, <1>4

(* The memory after each round of storeRegisters. *)
StoresInto(after, base, list, up) ==
  /\ after[0] = mem
  /\ \A i \in 1 .. 16 :
       after[i] = IF RegNo(up, i) \in list
                    THEN write_n(after[i - 1], addresses(base, list, up)[IF up THEN i - 1 ELSE i], 4, reg[RegNo(up, i)])
                  ELSE after[i - 1]

StoresBy(after, base, list, up, writeback, length) ==
  /\ storeRegisters(base, list, up, writeback, length) =
       Outcome(IF writeback THEN [reg EXCEPT ![base] = addresses(base, list, up)[16]] ELSE reg,
               after[16], TRUE, length)
  /\ StoresInto(after, base, list, up)
  /\ \A i \in 0 .. 16 : after[i] \in Memories

LEMMA StoreRounds ==
  ASSUME RegFile, mem \in Memories, NEW base \in Registers, NEW list \in SUBSET Registers,
         NEW up \in BOOLEAN, NEW writeback, NEW length
  PROVE  \E after : StoresBy(after, base, list, up, writeback, length)
<1> DEFINE addr == addresses(base, list, up)
           Steps(f, i) == IF i = 0 THEN mem
                          ELSE IF (IF up THEN i - 1 ELSE 15 - (i - 1)) \in list
                            THEN write_n(f[i - 1], addr[IF up THEN i - 1 ELSE i], 4,
                                         reg[IF up THEN i - 1 ELSE 15 - (i - 1)])
                          ELSE f[i - 1]
           Chosen == CHOOSE f : f = [i \in 0 .. 16 |-> Steps(f, i)]
           at(i) == addr[IF up THEN i - 1 ELSE i]
           F == [k \in 0 .. 15 |-> [m \in Memories |->
                   IF RegNo(up, k + 1) \in list THEN write_n(m, at(k + 1), 4, reg[RegNo(up, k + 1)]) ELSE m]]
<1>1. \A i \in 0 .. 16 : addr[i] \in Address
  BY AddressesAreAddresses
<1>2. \A i \in 1 .. 16 : at(i) \in Address /\ i - 1 \in 0 .. 15 /\ (i - 1) + 1 = i
                          /\ (IF up THEN i - 1 ELSE 15 - (i - 1)) = RegNo(up, i)
  <2> HIDE DEF addr
  <2>1. QED
    BY <1>1 DEF RegNo
<1>3. storeRegisters(base, list, up, writeback, length) =
        Outcome(IF writeback THEN [reg EXCEPT ![base] = addr[16]] ELSE reg, Chosen[16], TRUE, length)
  BY DEF storeRegisters
<1> HIDE DEF addr
<1>4. \A r \in list : reg[r] \in Int
  BY RegisterIsAddress
<1>5. \A k \in 0 .. 15 : \A m \in Memories :
        F[k][m] = IF RegNo(up, k + 1) \in list THEN write_n(m, at(k + 1), 4, reg[RegNo(up, k + 1)]) ELSE m
  OBVIOUS
<1> HIDE DEF at
<1>6. Keeps(F, Memories)
  <2> SUFFICES ASSUME NEW k \in 0 .. 15, NEW m \in Memories PROVE F[k][m] \in Memories
    BY DEF Keeps
  <2>1. F[k][m] = IF RegNo(up, k + 1) \in list THEN write_n(m, at(k + 1), 4, reg[RegNo(up, k + 1)]) ELSE m
    BY <1>5
  <2>2. at(k + 1) \in Address
    BY <1>2
  <2> HIDE DEF F
  <2>3. CASE RegNo(up, k + 1) \in list
    <3>1. reg[RegNo(up, k + 1)] \in Int
      BY <1>4, <2>3
    <3>2. write_n(m, at(k + 1), 4, reg[RegNo(up, k + 1)]) \in Memories
      BY <2>2, <3>1, WriteIsMemory
    <3>3. QED
      BY <2>1, <2>3, <3>2
  <2>4. CASE RegNo(up, k + 1) \notin list
    BY <2>1, <2>4
  <2>5. QED
    BY <2>3, <2>4
<1>7. \A f, i : i \in 1 .. 16 /\ f[i - 1] \in Memories => Steps(f, i) = F[i - 1][f[i - 1]]
  <2> SUFFICES ASSUME NEW f, NEW i \in 1 .. 16, f[i - 1] \in Memories PROVE Steps(f, i) = F[i - 1][f[i - 1]]
    OBVIOUS
  <2>1. Steps(f, i) = IF RegNo(up, i) \in list THEN write_n(f[i - 1], at(i), 4, reg[RegNo(up, i)]) ELSE f[i - 1]
    BY <1>2 DEF at
  <2> HIDE DEF F, Steps
  <2>2. F[i - 1][f[i - 1]] = IF RegNo(up, i) \in list THEN write_n(f[i - 1], at(i), 4, reg[RegNo(up, i)]) ELSE f[i - 1]
    <3>1. i - 1 \in 0 .. 15 /\ (i - 1) + 1 = i
      BY <1>2
    <3>2. QED
      BY <1>5, <3>1
  <2>3. QED
    BY <2>1, <2>2
<1>8. \A f : Steps(f, 0) = mem
  OBVIOUS
<1> HIDE DEF F, Steps
<1>9. \E f : f = [i \in 0 .. 16 |-> Steps(f, i)]
  <2>1. PICK f \in [0 .. 16 -> Memories] : Follows(f, mem, F)
    BY <1>6, RoundsExist
  <2>2. \A i \in 0 .. 16 : f[i] = Steps(f, i)
    <3> SUFFICES ASSUME NEW i \in 0 .. 16, i # 0 PROVE f[i] = Steps(f, i)
      BY <1>8, <2>1 DEF Follows
    <3>1. f[i] = F[i - 1][f[i - 1]] /\ f[i - 1] \in Memories
      BY <2>1 DEF Follows
    <3>2. QED
      BY <1>7, <3>1
  <2>3. f = [i \in 0 .. 16 |-> Steps(f, i)]
    BY <2>1, <2>2
  <2>4. QED
    BY <2>3
<1>10. Chosen = [i \in 0 .. 16 |-> Steps(Chosen, i)]
  BY <1>9
<1> HIDE DEF Chosen
<1>11. \A i \in 0 .. 16 : Chosen[i] = Steps(Chosen, i)
  BY <1>10
<1>12. \A i \in 0 .. 16 : Chosen[i] \in Memories
  <2> DEFINE T == {i \in 0 .. 16 : Chosen[i] \in Memories}
  <2>1. 0 \in T
    BY <1>8, <1>11
  <2>2. \A i \in 0 .. 15 : i \in T => i + 1 \in T
    <3> SUFFICES ASSUME NEW i \in 0 .. 15, Chosen[i] \in Memories PROVE Chosen[i + 1] \in Memories
      OBVIOUS
    <3>1. i + 1 \in 1 .. 16 /\ (i + 1) - 1 = i
      OBVIOUS
    <3>2. Chosen[i + 1] = F[i][Chosen[i]]
      BY <1>7, <1>11, <3>1
    <3>3. QED
      BY <1>6, <3>2 DEF Keeps
  <2> HIDE DEF T
  <2>3. \A i \in 0 .. 16 : i \in T
    BY <2>1, <2>2, Sixteen
  <2>4. QED
    BY <2>3 DEF T
<1>13. StoresInto(Chosen, base, list, up)
  <2>1. Chosen[0] = mem
    BY <1>8, <1>11
  <2>2. \A i \in 1 .. 16 : Chosen[i] = IF RegNo(up, i) \in list THEN write_n(Chosen[i - 1], at(i), 4, reg[RegNo(up, i)]) ELSE Chosen[i - 1]
    BY <1>2, <1>11 DEF Steps, at
  <2>3. QED
    BY <2>1, <2>2 DEF StoresInto, at, addr
<1>14. QED
  BY <1>3, <1>12, <1>13 DEF addr, StoresBy

LEMMA WrittenByte ==
  ASSUME NEW m \in Memories, NEW a \in Address, NEW n \in {1, 2, 4}, NEW v \in Int,
         NEW s \in DOMAIN Machine, NEW k \in 0 .. SliceLength(Machine[s]) - 1
  PROVE  /\ Lands(a, n, s, k) => write_n(m, a, n, v)[s][k] = ByteOf(v, Machine[s].begin + k - a)
         /\ ~Lands(a, n, s, k) => write_n(m, a, n, v)[s][k] = m[s][k]
<1>1. PutsBytes(m, a, n, v)
  BY WriteByte
<1>2. QED
  BY <1>1 DEF PutsBytes

(* Round i of a store uses the slot of its register. *)
LEMMA RoundSlot ==
  ASSUME RegFile, NEW l, l.base \in Registers, l.list \in SUBSET Registers, l.down \in BOOLEAN,
         NEW i \in 1 .. 16, RegNo(~l.down, i) \in l.list
  PROVE  addresses(l.base, l.list, ~l.down)[IF ~l.down THEN i - 1 ELSE i] = Slot(l, RegNo(~l.down, i))
<1> DEFINE r == RegNo(~l.down, i)
<1>1. l.list \in SUBSET (0 .. 15) /\ reg[l.base] \in Address
  BY RegisterIsAddress, ListOfNumbers
<1>2. CASE l.down
  <2>1. r = 16 - i /\ (~l.down) = FALSE
    BY <1>2 DEF RegNo
  <2>2. addresses(l.base, l.list, FALSE)[i] = Word(reg[l.base] - 4 * Cardinality(From(l.list, 16 - i)))
    <3>1. i \in 0 .. 16
      OBVIOUS
    <3>2. QED
      BY <1>1, <3>1, DownwardAddresses
  <2> HIDE DEF r
  <2>3. r \in l.list
    BY DEF r
  <2>4. Slot(l, r) = Word(reg[l.base] - 4 * Cardinality(From(l.list, r)))
    BY <1>2, <2>3, SlotWord
  <2>5. QED
    BY <2>1, <2>2, <2>4 DEF r
<1>3. CASE ~l.down
  <2>1. r = i - 1 /\ (~l.down) = TRUE
    BY <1>3 DEF RegNo
  <2>2. addresses(l.base, l.list, TRUE)[i - 1] = Word(reg[l.base] + 4 * Cardinality(Below(l.list, i - 1)))
    <3>1. i - 1 \in 0 .. 16
      OBVIOUS
    <3>2. QED
      BY <1>1, <3>1, UpwardAddresses
  <2> HIDE DEF r
  <2>3. r \in l.list
    BY DEF r
  <2>4. Slot(l, r) = Word(reg[l.base] + 4 * Cardinality(Below(l.list, r)))
    BY <1>3, <2>3, SlotWord
  <2>5. QED
    BY <2>1, <2>2, <2>4 DEF r
<1>4. QED
  BY <1>2, <1>3

(* The word for r is granted, and byte k of slice s is in it. *)
Covers(l, r, s, k) ==
  /\ Machine[s].begin + k - Slot(l, r) \in 0 .. 3
  /\ getslice(Machine, Slot(l, r), 4) = s /\ ~Machine[s].read_only

(* Register r has had its round. *)
Handled(up, r, i) == IF up THEN r < i ELSE r >= 16 - i

LEMMA StoredBytes ==
  ASSUME RegFile, mem \in Memories,
         NEW l, l.base \in Registers, l.list \in SUBSET Registers, l.down \in BOOLEAN, InMemory(l),
         NEW after, StoresInto(after, l.base, l.list, ~l.down), \A i \in 0 .. 16 : after[i] \in Memories,
         NEW s \in DOMAIN Machine, NEW k \in 0 .. SliceLength(Machine[s]) - 1
  PROVE  /\ \A r \in l.list : Covers(l, r, s, k) => after[16][s][k] = ByteOf(reg[r], Machine[s].begin + k - Slot(l, r))
         /\ (\A r \in l.list : ~Covers(l, r, s, k)) => after[16][s][k] = mem[s][k]
<1> DEFINE up == ~l.down
           value(r) == ByteOf(reg[r], Machine[s].begin + k - Slot(l, r))
           done(r, i) == Handled(up, r, i) /\ Covers(l, r, s, k)
           Right(i) == /\ \A r \in l.list : done(r, i) => after[i][s][k] = value(r)
                       /\ (\A r \in l.list : ~done(r, i)) => after[i][s][k] = mem[s][k]
           T == {i \in 0 .. 16 : Right(i)}
<1>1. l.list \in SUBSET (0 .. 15) /\ up \in BOOLEAN
  BY ListOfNumbers
<1>2. \A r \in l.list : ~Handled(up, r, 0) /\ Handled(up, r, 16)
  BY <1>1 DEF Handled
<1>3. 0 \in T
  BY <1>2 DEF StoresInto
<1>4. \A r, q \in l.list : Covers(l, r, s, k) /\ Covers(l, q, s, k) => r = q
  <2>1. \A r \in l.list : Slot(l, r) \in Int /\ r \in Int
    BY <1>1, SlotsApart, AddrModAssumption DEF Address
  <2>2. \A r, q \in l.list : r < q => Slot(l, r) + 4 <= Slot(l, q)
    BY SlotsApart
  <2>3. Machine[s].begin \in Int /\ k \in Int
    BY MachineAssumption, AddrModAssumption DEF Address
  <2>4. \A r, q \in l.list : Covers(l, r, s, k) /\ Covers(l, q, s, k) => ~(r < q)
    <3> SUFFICES ASSUME NEW r \in l.list, NEW q \in l.list, Covers(l, r, s, k), Covers(l, q, s, k), r < q
                 PROVE  FALSE
      OBVIOUS
    <3>0. Machine[s].begin + k - Slot(l, r) \in 0 .. 3 /\ Machine[s].begin + k - Slot(l, q) \in 0 .. 3
      BY DEF Covers
    <3>1. Slot(l, r) + 4 <= Slot(l, q) /\ Slot(l, r) \in Int /\ Slot(l, q) \in Int
      BY <2>1, <2>2
    <3>2. ~(Slot(l, r) + 4 <= Slot(l, q))
      BY <2>3, <3>0, <3>1
    <3>3. QED
      BY <3>1, <3>2
  <2>5. QED
    BY <2>1, <2>4
<1>5. \A i \in 0 .. 15 : i \in T => i + 1 \in T
  <2> SUFFICES ASSUME NEW i \in 0 .. 15, Right(i) PROVE Right(i + 1)
    BY SMTT(30)
  <2> DEFINE r0 == RegNo(up, i + 1)
  <2>1. \A r \in 0 .. 15 : Handled(up, r, i + 1) <=> Handled(up, r, i) \/ r = r0
    BY DEF Handled, RegNo
  <2>2. \A r \in l.list : done(r, i + 1) <=> done(r, i) \/ (r = r0 /\ Covers(l, r, s, k))
    BY <1>1, <2>1
  <2>3. i + 1 \in 1 .. 16 /\ (i + 1) - 1 = i
    OBVIOUS
  <2>4. CASE r0 \notin l.list
    <3>1. after[i + 1] = after[i]
      BY <2>3, <2>4 DEF StoresInto
    <3>2. \A r \in l.list : done(r, i + 1) <=> done(r, i)
      BY <2>2, <2>4
    <3> HIDE DEF done, value
    <3>3. QED
      BY <3>1, <3>2
  <2>5. CASE r0 \in l.list
    <3> DEFINE a == Slot(l, r0)
               cell == after[i + 1][s][k]
    <3>1. addresses(l.base, l.list, up)[IF up THEN i + 1 - 1 ELSE i + 1] = a
      BY <2>3, <2>5, RoundSlot
    <3>2. after[i + 1] = write_n(after[i], a, 4, reg[r0])
      BY <2>3, <2>5, <3>1 DEF StoresInto
    <3>3. a \in Address /\ reg[r0] \in Int /\ after[i] \in Memories
      BY <2>5, SlotsApart, RegisterIsAddress
    <3>4. Lands(a, 4, s, k) <=> Covers(l, r0, s, k)
      BY DEF Lands, Covers
    <3>5. cell = IF Covers(l, r0, s, k) THEN value(r0) ELSE after[i][s][k]
      <4> DEFINE m == after[i]
                 v == reg[r0]
                 n == 4
      <4>1. m \in Memories /\ a \in Address /\ n \in {1, 2, 4} /\ v \in Int
        BY <3>3
      <4> HIDE DEF a, m, v, n
      <4>2. /\ Lands(a, n, s, k) => write_n(m, a, n, v)[s][k] = ByteOf(v, Machine[s].begin + k - a)
            /\ ~Lands(a, n, s, k) => write_n(m, a, n, v)[s][k] = m[s][k]
        BY <4>1, WrittenByte
      <4>3. cell = write_n(m, a, n, v)[s][k] /\ value(r0) = ByteOf(v, Machine[s].begin + k - a)
        BY <3>2 DEF m, v, n, a
      <4> HIDE DEF value, cell
      <4>4. QED
        BY <3>4, <4>2, <4>3 DEF m, n
    <3> HIDE DEF cell, value, r0
    <3>6. CASE Covers(l, r0, s, k)
      <4>1. cell = value(r0) /\ done(r0, i + 1)
        BY <2>2, <2>5, <3>5, <3>6
      <4>2. \A r \in l.list : done(r, i + 1) => r = r0
        BY <1>4, <2>5, <3>6
      <4>3. \A r \in l.list : done(r, i + 1) => cell = value(r)
        BY <4>1, <4>2
      <4> HIDE DEF done
      <4>4. QED
        BY <2>5, <4>1, <4>3 DEF cell
    <3>7. CASE ~Covers(l, r0, s, k)
      <4>1. cell = after[i][s][k]
        BY <3>5, <3>7
      <4>2. \A r \in l.list : done(r, i + 1) <=> done(r, i)
        BY <2>2, <3>7
      <4> HIDE DEF done
      <4>3. QED
        BY <4>1, <4>2 DEF cell
    <3>8. QED
      BY <3>6, <3>7
  <2>6. QED
    BY <2>4, <2>5
<1> HIDE DEF T
<1>6. 16 \in T
  BY <1>3, <1>5, Sixteen
<1>7. Right(16)
  BY <1>6 DEF T
<1>8. QED
  BY <1>2, <1>7

StoredAsListed(l) ==
  [s \in DOMAIN mem |-> [k \in DOMAIN mem[s] |->
     LET by == {r \in l.list : Covers(l, r, s, k)}
     IN IF by = {} THEN mem[s][k]
        ELSE LET r == CHOOSE r \in by : TRUE IN ByteOf(reg[r], Machine[s].begin + k - Slot(l, r))]]

LEMMA StoreBlock ==
  ASSUME RegFile, mem \in Memories,
         NEW l, l.base \in Registers, l.list \in SUBSET Registers, l.down \in BOOLEAN, InMemory(l),
         NEW writeback, NEW length
  PROVE  storeRegisters(l.base, l.list, ~l.down, writeback, length) =
           Outcome(IF writeback THEN [reg EXCEPT ![l.base] = Beyond(l)] ELSE reg, StoredAsListed(l), TRUE, length)
<1>1. PICK after : StoresBy(after, l.base, l.list, ~l.down, writeback, length)
  <2> DEFINE up == ~l.down
             base == l.base
             list == l.list
  <2>1. up \in BOOLEAN /\ base \in Registers /\ list \in SUBSET Registers
    OBVIOUS
  <2> HIDE DEF up, base, list
  <2>2. \E after : StoresBy(after, base, list, up, writeback, length)
    BY <2>1, StoreRounds
  <2>3. QED
    BY <2>2 DEF up, base, list
<1>2. Beyond(l) = addresses(l.base, l.list, ~l.down)[16]
  BY BeyondWord
<1> DEFINE m == after[16]
<1>3. /\ m \in Memories
      /\ DOMAIN m = DOMAIN Machine /\ DOMAIN mem = DOMAIN Machine
      /\ \A s \in DOMAIN Machine : m[s] \in Buffer(s) /\ mem[s] \in Buffer(s)
  BY <1>1 DEF Memories, StoresBy
<1>4. \A s \in DOMAIN Machine : \A k \in 0 .. SliceLength(Machine[s]) - 1 : m[s][k] = StoredAsListed(l)[s][k]
  <2> SUFFICES ASSUME NEW s \in DOMAIN Machine, NEW k \in 0 .. SliceLength(Machine[s]) - 1
               PROVE  m[s][k] = StoredAsListed(l)[s][k]
    OBVIOUS
  <2> DEFINE by == {r \in l.list : Covers(l, r, s, k)}
  <2>1. k \in DOMAIN mem[s] /\ s \in DOMAIN mem
    BY <1>3 DEF Buffer
  <2>2. StoredAsListed(l)[s][k] = IF by = {} THEN mem[s][k]
                                  ELSE ByteOf(reg[CHOOSE r \in by : TRUE],
                                              Machine[s].begin + k - Slot(l, CHOOSE r \in by : TRUE))
    BY <2>1 DEF StoredAsListed
  <2>3. /\ \A r \in l.list : Covers(l, r, s, k) => m[s][k] = ByteOf(reg[r], Machine[s].begin + k - Slot(l, r))
        /\ (\A r \in l.list : ~Covers(l, r, s, k)) => m[s][k] = mem[s][k]
    BY <1>1, StoredBytes DEF StoresBy
  <2>4. CASE by = {}
    BY <2>2, <2>3, <2>4
  <2>5. CASE by # {}
    <3> DEFINE r == CHOOSE r \in by : TRUE
    <3>1. r \in by
      BY <2>5
    <3>2. r \in l.list /\ Covers(l, r, s, k)
      BY <3>1
    <3> HIDE DEF r
    <3>3. m[s][k] = ByteOf(reg[r], Machine[s].begin + k - Slot(l, r))
      BY <2>3, <3>2
    <3>4. QED
      BY <2>2, <2>5, <3>3 DEF r
  <2>6. QED
    BY <2>4, <2>5
<1>5. \A s \in DOMAIN Machine : m[s] = StoredAsListed(l)[s]
  <2> SUFFICES ASSUME NEW s \in DOMAIN Machine PROVE m[s] = StoredAsListed(l)[s]
    OBVIOUS
  <2> DEFINE x == m[s]
             y == StoredAsListed(l)[s]
             D == 0 .. SliceLength(Machine[s]) - 1
  <2>1. x = [k \in D |-> x[k]]
    BY <1>3 DEF Buffer
  <2>2. y = [k \in D |-> y[k]]
    <3>1. DOMAIN mem[s] = D /\ s \in DOMAIN mem
      BY <1>3 DEF Buffer
    <3>2. QED
      BY <3>1 DEF StoredAsListed
  <2>3. \A k \in D : x[k] = y[k]
    BY <1>4
  <2> HIDE DEF x, y, D
  <2>4. x = y
    BY <2>1, <2>2, <2>3
  <2>5. QED
    BY <2>4 DEF x, y
<1>6. m = StoredAsListed(l)
  <2> DEFINE y == StoredAsListed(l)
  <2>1. m = [s \in DOMAIN Machine |-> m[s]]
    BY <1>3 DEF Memories
  <2>2. y = [s \in DOMAIN Machine |-> y[s]]
    BY <1>3 DEF StoredAsListed
  <2> HIDE DEF m, y
  <2>3. QED
    BY <1>5, <2>1, <2>2 DEF y
<1>7. QED
  BY <1>1, <1>2, <1>6 DEF StoresBy

(* And what a block load leaves in the registers. *)
LoadedAsListed(l) ==
  [r \in Registers |-> IF r \in l.list THEN LoadedInto(r, read_n(Slot(l, r), 4)) ELSE reg[r]]

LEMMA LoadBlock ==
  ASSUME RegFile, NEW l, l.base \in Registers, l.list \in SUBSET Registers, l.down = FALSE,
         NEW writeback, NEW length
  PROVE  loadRegisters(l.base, l.list, writeback, length) =
           Outcome(IF writeback THEN [LoadedAsListed(l) EXCEPT ![l.base] = Beyond(l)] ELSE LoadedAsListed(l),
                   mem, REG_PC \notin l.list, length)
<1> DEFINE addr == addresses(l.base, l.list, TRUE)
           Steps(f, i) == IF i = 0 THEN reg
                          ELSE IF i - 1 \in l.list
                            THEN [f[i - 1] EXCEPT ![i - 1] = LoadedInto(i - 1, read_n(addr[i - 1], 4))]
                          ELSE f[i - 1]
           Chosen == CHOOSE f : f = [i \in 0 .. 16 |-> Steps(f, i)]
           value(r) == LoadedInto(r, read_n(addr[r], 4))
           Closed(i) == [r \in Registers |-> IF r \in l.list /\ r < i THEN value(r) ELSE reg[r]]
<1>1. loadRegisters(l.base, l.list, writeback, length) =
        Outcome(IF writeback THEN [Chosen[16] EXCEPT ![l.base] = addr[16]] ELSE Chosen[16],
                mem, REG_PC \notin l.list, length)
  BY DEF loadRegisters
<1>2. Beyond(l) = addr[16]
  <2>1. l.down \in BOOLEAN /\ (~l.down) = TRUE
    OBVIOUS
  <2>2. QED
    BY <2>1, BeyondWord
<1>3. \A r \in l.list : Slot(l, r) = addr[r]
  <2> SUFFICES ASSUME NEW r \in l.list PROVE Slot(l, r) = addr[r]
    OBVIOUS
  <2>1. l.list \in SUBSET (0 .. 15) /\ reg[l.base] \in Address /\ l.down \in BOOLEAN
    BY RegisterIsAddress, ListOfNumbers
  <2>2. r \in 0 .. 16
    BY <2>1
  <2>3. addr[r] = Word(reg[l.base] + 4 * Cardinality(Below(l.list, r)))
    BY <2>1, <2>2, UpwardAddresses
  <2>4. QED
    BY <2>1, <2>3, SlotWord
<1> HIDE DEF addr
<1>4. Registers \subseteq 0 .. 15 /\ \A r \in Registers : r \in Int
  BY RegistersAssumption
<1>5. Closed(0) = reg
  <2>1. \A r \in Registers : ~(r < 0)
    BY <1>4
  <2>2. reg = [r \in Registers |-> reg[r]]
    BY DEF RegFile
  <2> HIDE DEF value
  <2>3. QED
    BY <2>1, <2>2
<1>6. \A i \in 0 .. 15 : Closed(i + 1) = IF i \in l.list THEN [Closed(i) EXCEPT ![i] = value(i)] ELSE Closed(i)
  <2> SUFFICES ASSUME NEW i \in 0 .. 15
               PROVE  Closed(i + 1) = IF i \in l.list THEN [Closed(i) EXCEPT ![i] = value(i)] ELSE Closed(i)
    OBVIOUS
  <2> HIDE DEF value
  <2>1. \A r \in Registers : r < i + 1 <=> r < i \/ r = i
    BY <1>4
  <2>2. CASE i \in l.list
    <3>1. i \in Registers
      BY <2>2
    <3>2. \A r \in Registers : (IF r \in l.list /\ r < i + 1 THEN value(r) ELSE reg[r]) =
                                 IF r = i THEN value(i) ELSE IF r \in l.list /\ r < i THEN value(r) ELSE reg[r]
      BY <2>1, <2>2
    <3>3. QED
      BY <2>2, <3>1, <3>2
  <2>3. CASE i \notin l.list
    <3>1. \A r \in Registers : r \in l.list /\ r < i + 1 <=> r \in l.list /\ r < i
      BY <2>1, <2>3
    <3>2. QED
      BY <2>3, <3>1
  <2>4. QED
    BY <2>2, <2>3
<1>7. \A f : \A i \in 1 .. 16 : f[i - 1] = Closed(i - 1) => Steps(f, i) = Closed(i)
  <2> SUFFICES ASSUME NEW f, NEW i \in 1 .. 16, f[i - 1] = Closed(i - 1) PROVE Steps(f, i) = Closed(i)
    OBVIOUS
  <2>1. i - 1 \in 0 .. 15 /\ (i - 1) + 1 = i
    OBVIOUS
  <2>2. Closed(i) = IF i - 1 \in l.list THEN [Closed(i - 1) EXCEPT ![i - 1] = value(i - 1)] ELSE Closed(i - 1)
    <3> HIDE DEF Closed, value
    <3>1. QED
      BY <1>6, <2>1
  <2> HIDE DEF Closed
  <2>3. QED
    BY <2>2
<1>8. \A f : Steps(f, 0) = reg
  OBVIOUS
<1> HIDE DEF Closed, Steps, value
<1>9. \E f : f = [i \in 0 .. 16 |-> Steps(f, i)]
  <2> DEFINE f == [i \in 0 .. 16 |-> Closed(i)]
  <2>1. \A i \in 0 .. 16 : f[i] = Closed(i)
    OBVIOUS
  <2>2. f = [i \in 0 .. 16 |-> f[i]]
    OBVIOUS
  <2> HIDE DEF f
  <2>3. \A i \in 0 .. 16 : f[i] = Steps(f, i)
    <3> SUFFICES ASSUME NEW i \in 0 .. 16 PROVE f[i] = Steps(f, i)
      OBVIOUS
    <3>1. CASE i = 0
      BY <1>5, <1>8, <2>1, <3>1
    <3>2. CASE i \in 1 .. 16
      <4>1. f[i - 1] = Closed(i - 1)
        BY <2>1, <3>2
      <4>2. QED
        BY <1>7, <2>1, <3>2, <4>1
    <3>3. QED
      BY <3>1, <3>2
  <2>4. f = [i \in 0 .. 16 |-> Steps(f, i)]
    BY <2>2, <2>3
  <2>5. QED
    BY <2>4
<1>10. Chosen = [i \in 0 .. 16 |-> Steps(Chosen, i)]
  BY <1>9
<1> HIDE DEF Chosen
<1>11. \A i \in 0 .. 16 : Chosen[i] = Steps(Chosen, i)
  BY <1>10
<1>12. Chosen[16] = Closed(16)
  <2> DEFINE T == {i \in 0 .. 16 : Chosen[i] = Closed(i)}
  <2>1. 0 \in T
    BY <1>5, <1>8, <1>11
  <2>2. \A i \in 0 .. 15 : i \in T => i + 1 \in T
    <3> SUFFICES ASSUME NEW i \in 0 .. 15, Chosen[i] = Closed(i) PROVE Chosen[i + 1] = Closed(i + 1)
      OBVIOUS
    <3>1. i + 1 \in 1 .. 16 /\ (i + 1) - 1 = i /\ i + 1 \in 0 .. 16
      OBVIOUS
    <3>2. Chosen[i + 1] = Steps(Chosen, i + 1)
      BY <1>11, <3>1
    <3>3. QED
      BY <1>7, <3>1, <3>2
  <2> HIDE DEF T
  <2>3. 16 \in T
    BY <2>1, <2>2, Sixteen
  <2>4. QED
    BY <2>3 DEF T
<1>13. Closed(16) = LoadedAsListed(l)
  <2>1. \A r \in Registers : r < 16
    BY <1>4
  <2>2. \A r \in l.list : value(r) = LoadedInto(r, read_n(Slot(l, r), 4))
    BY <1>3 DEF value
  <2>3. QED
    BY <2>1, <2>2 DEF Closed, LoadedAsListed
<1>14. QED
  BY <1>1, <1>2, <1>12, <1>13

------------------------------------------------------------------------------
(* Block transfers do what their listing says. *)
LEMMA StoresListed ==
  ASSUME RegFile, NEW i, i.op \notin {"ldm", "pop"}, NEW l, l.base \in Registers
  PROVE  BlockAsListed(i, l) =
           Outcome(IF l.update THEN [reg EXCEPT ![l.base] = Beyond(l)] ELSE reg, StoredAsListed(l), TRUE, Length(i))
<1> DEFINE next == [r \in Registers |-> IF l.update /\ r = l.base THEN Beyond(l) ELSE reg[r]]
<1>1. next = IF l.update THEN [reg EXCEPT ![l.base] = Beyond(l)] ELSE reg
  BY DEF RegFile
<1>3. BlockAsListed(i, l) = Outcome(next, StoredAsListed(l), TRUE, Length(i))
  BY DEF BlockAsListed, StoredAsListed, Covers
<1>4. QED
  BY <1>1, <1>3

LEMMA LoadsListed ==
  ASSUME RegFile, NEW i, i.op \in {"ldm", "pop"}, NEW l, l.base \in Registers, ~(l.update /\ l.base \in l.list)
  PROVE  BlockAsListed(i, l) =
           Outcome(IF l.update THEN [LoadedAsListed(l) EXCEPT ![l.base] = Beyond(l)] ELSE LoadedAsListed(l),
                   mem, REG_PC \notin l.list, Length(i))
<1> DEFINE next == [r \in Registers |->
                      IF r \in l.list THEN IF r = REG_PC THEN Even(read_n(Slot(l, r), 4)) ELSE read_n(Slot(l, r), 4)
                      ELSE IF l.update /\ r = l.base THEN Beyond(l)
                      ELSE reg[r]]
<1>1. next = IF l.update THEN [LoadedAsListed(l) EXCEPT ![l.base] = Beyond(l)] ELSE LoadedAsListed(l)
  BY DEF LoadedAsListed, LoadedInto
<1>2. i.op \in {"ldm", "pop"}
  OBVIOUS
<1>3. BlockAsListed(i, l) = Outcome(next, mem, REG_PC \notin l.list, Length(i))
  BY <1>2 DEF BlockAsListed
<1>4. QED
  BY <1>1, <1>3

LEMMA ListedBlock ==
  ASSUME NEW i, i.op \in Blocks
  PROVE  /\ Listed(i) = RegList(IF i.op \in {"push", "pop"} THEN REG_SP ELSE i.Rn, i.register_list,
                                i.op \in {"push", "stmdb"}, Listed(i).update)
         /\ i.op = "ldm" => Listed(i).update = IF i.T = 1 THEN i.Rn \notin i.register_list ELSE i.W
         /\ i.op \in {"push", "pop", "stmdb"} => Listed(i).update = TRUE
         /\ i.op = "stm" => Listed(i).update = (i.T = 1 \/ i.W)
<1>1. CASE i.op = "ldm"
  <2>1. Listed(i) = RegList(i.Rn, i.register_list, FALSE, IF i.T = 1 THEN i.Rn \notin i.register_list ELSE i.W)
    BY <1>1 DEF Listed, ListedLdm
  <2>2. Listed(i).update = IF i.T = 1 THEN i.Rn \notin i.register_list ELSE i.W
    BY <2>1 DEF RegList
  <2>3. (i.op \in {"push", "stmdb"}) = FALSE /\ i.op \notin {"push", "pop"}
    BY <1>1
  <2>4. Listed(i) = RegList(IF i.op \in {"push", "pop"} THEN REG_SP ELSE i.Rn, i.register_list,
                            i.op \in {"push", "stmdb"}, Listed(i).update)
    BY <2>1, <2>2, <2>3 DEF RegList
  <2>5. QED
    BY <1>1, <2>2, <2>4
<1>2. CASE i.op = "push"
  BY <1>2 DEF Listed, ListedStack, RegList
<1>3. CASE i.op = "pop"
  BY <1>3 DEF Listed, ListedStack, RegList
<1>4. CASE i.op = "stm"
  BY <1>4 DEF Listed, ListedStm, RegList
<1>5. CASE i.op = "stmdb"
  BY <1>5 DEF Listed, ListedStm, RegList
<1>6. QED
  BY <1>1, <1>2, <1>3, <1>4, <1>5 DEF Blocks

(* The operands of the block transfers. *)
LEMMA BlockOperands ==
  ASSUME NEW i, Decoded(i), i.op \in Blocks, NEW l, l = Listed(i)
  PROVE  /\ l.base \in Registers /\ l.list \in SUBSET Registers /\ l.list = i.register_list
         /\ l.base = IF i.op \in {"push", "pop"} THEN REG_SP ELSE i.Rn
         /\ l.down = (i.op \in {"push", "stmdb"})
         /\ Length(i) = IF i.T = 1 /\ i.op # "stmdb" THEN 2 ELSE 4
<1>1. i.Rn \in Registers /\ i.register_list \in SUBSET Registers /\ REG_SP \in Registers
  BY RegistersAssumption DEF Decoded
<1>2. i.wide <=> (i.T # 1 \/ i.op = "stmdb")
  BY DEF Decoded
<1>3. l = RegList(IF i.op \in {"push", "pop"} THEN REG_SP ELSE i.Rn, i.register_list,
                  i.op \in {"push", "stmdb"}, l.update)
  BY ListedBlock
<1>4. /\ l.base = IF i.op \in {"push", "pop"} THEN REG_SP ELSE i.Rn
      /\ l.list = i.register_list /\ l.down = (i.op \in {"push", "stmdb"})
  BY <1>3 DEF RegList
<1>5. QED
  BY <1>1, <1>2, <1>4 DEF Length

(* What the handlers of the block transfers are, by their listing. *)
LEMMA BlockHandlers ==
  ASSUME NEW i, Decoded(i), i.op \in Blocks, ~Misprinted(i), NEW l, l = Listed(i)
  PROVE  Executed(i) =
           IF i.op \in {"ldm", "pop"} THEN loadRegisters(l.base, l.list, l.update, Length(i))
           ELSE storeRegisters(l.base, l.list, ~l.down, l.update, Length(i))
<1>1. /\ l.list = i.register_list /\ l.base = IF i.op \in {"push", "pop"} THEN REG_SP ELSE i.Rn
      /\ l.down = (i.op \in {"push", "stmdb"})
      /\ Length(i) = IF i.T = 1 /\ i.op # "stmdb" THEN 2 ELSE 4
  BY BlockOperands
<1>2. CASE i.op = "ldm"
  <2>1. l.update = IF i.T = 1 THEN i.Rn \notin i.register_list ELSE i.W
    BY <1>2, ListedBlock
  <2>2. l.base = i.Rn /\ Length(i) = IF i.T = 1 THEN 2 ELSE 4
    BY <1>1, <1>2
  <2>3. Executed(i) = ldm(i)
    BY <1>2 DEF Executed
  <2>4. QED
    BY <1>1, <1>2, <2>1, <2>2, <2>3 DEF ldm
<1>3. CASE i.op = "pop"
  <2>1. l.update = TRUE
    BY <1>3, ListedBlock
  <2>2. l.base = REG_SP /\ Length(i) = IF i.T = 1 THEN 2 ELSE 4
    BY <1>1, <1>3
  <2>3. Executed(i) = pop(i)
    BY <1>3 DEF Executed
  <2>4. QED
    BY <1>1, <1>3, <2>1, <2>2, <2>3 DEF pop
<1>4. CASE i.op = "push"
  <2>1. l.update = TRUE
    BY <1>4, ListedBlock
  <2>2. l.base = REG_SP /\ (~l.down) = FALSE /\ Length(i) = IF i.T = 1 THEN 2 ELSE 4
    BY <1>1, <1>4
  <2>3. Executed(i) = push(i)
    BY <1>4 DEF Executed
  <2>4. QED
    BY <1>1, <1>4, <2>1, <2>2, <2>3 DEF push
<1>5. CASE i.op = "stm"
  <2>1. l.update = (i.T = 1 \/ i.W)
    BY <1>5, ListedBlock
  <2>2. l.base = i.Rn /\ (~l.down) = TRUE /\ Length(i) = IF i.T = 1 THEN 2 ELSE 4
    BY <1>1, <1>5
  <2>3. Executed(i) = stm(i)
    BY <1>5 DEF Executed
  <2>4. QED
    BY <1>1, <1>5, <2>1, <2>2, <2>3 DEF stm
<1>6. CASE i.op = "stmdb"
  <2>1. l.update = TRUE /\ i.W = TRUE
    BY <1>6, ListedBlock DEF Misprinted, Decoded
  <2>2. l.base = i.Rn /\ (~l.down) = FALSE /\ Length(i) = 4
    BY <1>1, <1>6
  <2>3. Executed(i) = stmdb(i)
    BY <1>6 DEF Executed
  <2>4. QED
    BY <1>1, <1>6, <2>1, <2>2, <2>3 DEF stmdb
<1>7. QED
  BY <1>2, <1>3, <1>4, <1>5, <1>6 DEF Blocks

LEMMA BlocksAreAsListed ==
  ASSUME RegFile, mem \in Memories, NEW i, Decoded(i), i.op \in Blocks, Lawful(i), ~Misprinted(i)
  PROVE  Executed(i) = AsListed(i)
<1> DEFINE l == Listed(i)
<1>1. /\ l.base \in Registers /\ l.list \in SUBSET Registers /\ l.list = i.register_list
      /\ l.down = (i.op \in {"push", "stmdb"})
  BY BlockOperands
<1>2. InMemory(l)
  BY <1>1 DEF Lawful, Start, Extent, InMemory
<1>3. AsListed(i) = BlockAsListed(i, l)
  BY DEF AsListed
<1>4. Executed(i) = IF i.op \in {"ldm", "pop"} THEN loadRegisters(l.base, l.list, l.update, Length(i))
                    ELSE storeRegisters(l.base, l.list, ~l.down, l.update, Length(i))
  BY BlockHandlers
<1>5. l.update /\ l.base \in l.list => i.op \in {"stm", "push"}
  BY DEF Lawful
<1> HIDE DEF l
<1>6. CASE i.op \in {"ldm", "pop"}
  <2>0. i.op \notin {"push", "stm", "stmdb"}
    BY <1>6
  <2>1. l.down = FALSE /\ ~(l.update /\ l.base \in l.list)
    <3>1. l.down = FALSE
      <4>1. (i.op \in {"push", "stmdb"}) = FALSE
        BY <1>6
      <4>2. QED
        BY <1>1, <4>1
    <3>2. ~(l.update /\ l.base \in l.list)
      BY <1>5, <2>0
    <3>3. QED
      BY <3>1, <3>2
  <2>2. loadRegisters(l.base, l.list, l.update, Length(i)) =
          Outcome(IF l.update THEN [LoadedAsListed(l) EXCEPT ![l.base] = Beyond(l)] ELSE LoadedAsListed(l),
                  mem, REG_PC \notin l.list, Length(i))
    BY <1>1, <2>1, LoadBlock
  <2>3. BlockAsListed(i, l) =
          Outcome(IF l.update THEN [LoadedAsListed(l) EXCEPT ![l.base] = Beyond(l)] ELSE LoadedAsListed(l),
                  mem, REG_PC \notin l.list, Length(i))
    BY <1>1, <1>6, <2>1, LoadsListed
  <2>4. QED
    BY <1>3, <1>4, <1>6, <2>2, <2>3
<1>7. CASE i.op \in {"push", "stm", "stmdb"}
  <2>1. l.down \in BOOLEAN
    BY <1>1
  <2>2. storeRegisters(l.base, l.list, ~l.down, l.update, Length(i)) =
          Outcome(IF l.update THEN [reg EXCEPT ![l.base] = Beyond(l)] ELSE reg, StoredAsListed(l), TRUE, Length(i))
    BY <1>1, <1>2, <2>1, StoreBlock
  <2>3. i.op \notin {"ldm", "pop"}
    BY <1>7
  <2>4. BlockAsListed(i, l) =
          Outcome(IF l.update THEN [reg EXCEPT ![l.base] = Beyond(l)] ELSE reg, StoredAsListed(l), TRUE, Length(i))
    BY <1>1, <2>3, StoresListed
  <2>5. QED
    BY <1>3, <1>4, <2>2, <2>3, <2>4
<1>8. QED
  BY <1>6, <1>7 DEF Blocks

------------------------------------------------------------------------------
(* Single transfers do what their listing says. *)
LEMMA Notations ==
  ASSUME NEW base, NEW x, NEW n
  PROVE  /\ Offsetted(base, x).base = base /\ Offsetted(base, x).offset = x
         /\ Offsetted(base, x).index = -1 /\ Offsetted(base, x).mode = "offset"
         /\ PreIndexed(base, x).base = base /\ PreIndexed(base, x).offset = x
         /\ PreIndexed(base, x).index = -1 /\ PreIndexed(base, x).mode = "pre"
         /\ PostIndexed(base, x).base = base /\ PostIndexed(base, x).offset = x
         /\ PostIndexed(base, x).index = -1 /\ PostIndexed(base, x).mode = "post"
         /\ ByRegister(base, x, n).base = base /\ ByRegister(base, x, n).index = x
         /\ ByRegister(base, x, n).lsl = n /\ ByRegister(base, x, n).mode = "offset"
BY DEF Offsetted, PreIndexed, PostIndexed, ByRegister

LEMMA OffsettedNames ==
  ASSUME NEW base, base # REG_PC, NEW x, NEW l, l = Offsetted(base, x)
  PROVE  l.base = base /\ l.mode = "offset" /\ Base(l) = reg[base] /\ Named(l) = reg[base] + x /\ Accessed(l) = Word(reg[base] + x)
<1>1. l.base = base /\ l.offset = x /\ l.index = -1 /\ l.mode = "offset"
  BY Notations
<1>2. Base(l) = reg[base]
  BY <1>1 DEF Base
<1>3. Named(l) = reg[base] + x
  BY <1>1, <1>2 DEF Named
<1>4. QED
  BY <1>1, <1>2, <1>3 DEF Accessed

LEMMA PreIndexedNames ==
  ASSUME NEW base, base # REG_PC, NEW x, NEW l, l = PreIndexed(base, x)
  PROVE  l.base = base /\ l.mode = "pre" /\ Named(l) = reg[base] + x /\ Accessed(l) = Word(reg[base] + x)
<1>1. l.base = base /\ l.offset = x /\ l.index = -1 /\ l.mode = "pre"
  BY Notations
<1>2. Base(l) = reg[base]
  BY <1>1 DEF Base
<1>3. Named(l) = reg[base] + x
  BY <1>1, <1>2 DEF Named
<1>4. QED
  BY <1>1, <1>2, <1>3 DEF Accessed

LEMMA PostIndexedNames ==
  ASSUME NEW base, base # REG_PC, NEW x, NEW l, l = PostIndexed(base, x)
  PROVE  l.base = base /\ l.mode = "post" /\ Named(l) = reg[base] + x /\ Accessed(l) = Word(reg[base])
<1>1. l.base = base /\ l.offset = x /\ l.index = -1 /\ l.mode = "post"
  BY Notations
<1>2. Base(l) = reg[base]
  BY <1>1 DEF Base
<1>3. Named(l) = reg[base] + x
  BY <1>1, <1>2 DEF Named
<1>4. QED
  BY <1>1, <1>2, <1>3 DEF Accessed

LEMMA ByRegisterNames ==
  ASSUME NEW base, base # REG_PC, NEW m \in Registers, NEW n, NEW l, l = ByRegister(base, m, n)
  PROVE  l.base = base /\ l.mode = "offset" /\ Accessed(l) = Word(reg[base] + reg[m] * 2 ^ n)
<1>1. l.base = base /\ l.index = m /\ l.lsl = n /\ l.mode = "offset"
  BY Notations
<1>2. m # -1
  BY RegistersAssumption
<1>3. Base(l) = reg[base]
  BY <1>1 DEF Base
<1>4. Named(l) = reg[base] + reg[m] * 2 ^ n
  BY <1>1, <1>2, <1>3 DEF Named
<1>5. QED
  BY <1>1, <1>4 DEF Accessed

(* The listing of a transfer reads as its handler works: target is the address the
   handler accesses, scale what it scales its immediate by. *)
Reads(i, l, target, scale) ==
  /\ Word(target) = Accessed(l)
  /\ i.W <=> l.mode # "offset"
  /\ i.W => l.base = i.Rn /\ Named(l) = reg[i.Rn] + Offset(i, scale)

LEMMA OneLoad ==
  ASSUME RegFile, NEW i, Decoded(i), i.op \in Loads \ Blocks, i.op # "ldrd_imm", i.W => i.Rn # i.Rt,
         NEW l, NEW target, NEW scale, Reads(i, l, target, scale)
  PROVE  Load(i, target, Width(i), scale) = SingleAsListed(i, l)
<1> DEFINE value == read_n(Accessed(l), Width(i))
           loaded == [reg EXCEPT ![i.Rt] = value]
           next == [r \in Registers |->
                      IF r = i.Rt THEN value ELSE IF l.mode # "offset" /\ r = l.base THEN Word(Named(l)) ELSE reg[r]]
<1>1. i.Rt \in Registers /\ i.Rn \in Registers /\ i.W \in BOOLEAN
  BY DEF Decoded
<1>2. SingleAsListed(i, l) = Outcome(next, mem, TRUE, Length(i))
  <2>1. i.op \in Loads /\ i.op \notin {"ldrd_imm", "strd_imm"}
    BY DEF Loads
  <2>2. QED
    BY <2>1 DEF SingleAsListed
<1>3. Load(i, target, Width(i), scale) = Outcome(Writeback(loaded, i, scale), mem, TRUE, Length(i))
  BY DEF Load, Reads
<1> HIDE DEF value
<1>4. Writeback(loaded, i, scale) = next
  <2>1. CASE i.W
    <3>1. l.mode # "offset" /\ l.base = i.Rn /\ Named(l) = reg[i.Rn] + Offset(i, scale) /\ i.Rn # i.Rt
      BY <2>1 DEF Reads
    <3>2. loaded[i.Rn] = reg[i.Rn]
      BY <1>1, <3>1 DEF RegFile
    <3>3. Writeback(loaded, i, scale) = [loaded EXCEPT ![i.Rn] = Word(Named(l))]
      BY <2>1, <3>1, <3>2 DEF Writeback
    <3>4. QED
      BY <1>1, <3>1, <3>3 DEF RegFile
  <2>2. CASE ~i.W
    <3>1. l.mode = "offset"
      BY <2>2 DEF Reads
    <3>2. Writeback(loaded, i, scale) = loaded
      BY <2>2 DEF Writeback
    <3>3. QED
      BY <1>1, <3>1, <3>2 DEF RegFile
  <2>3. QED
    BY <2>1, <2>2
<1>5. QED
  BY <1>2, <1>3, <1>4

LEMMA OneStore ==
  ASSUME RegFile, NEW i, Decoded(i), i.op \in Stores \ Blocks, i.op # "strd_imm",
         NEW l, NEW target, NEW scale, Reads(i, l, target, scale)
  PROVE  Store(i, target, Width(i), scale) = SingleAsListed(i, l)
<1> DEFINE next == [r \in Registers |-> IF l.mode # "offset" /\ r = l.base THEN Word(Named(l)) ELSE reg[r]]
           m == write_n(mem, Accessed(l), Width(i), reg[i.Rt])
<1>1. i.Rn \in Registers /\ i.W \in BOOLEAN
  BY DEF Decoded
<1>2. SingleAsListed(i, l) = Outcome(next, m, TRUE, Length(i))
  <2>1. i.op \notin Loads /\ i.op \notin {"ldrd_imm", "strd_imm"}
    BY DEF Loads, Stores, Blocks
  <2>2. QED
    BY <2>1 DEF SingleAsListed
<1>3. Store(i, target, Width(i), scale) = Outcome(Writeback(reg, i, scale), m, TRUE, Length(i))
  BY DEF Store, Reads
<1> HIDE DEF m
<1>4. Writeback(reg, i, scale) = next
  <2>1. CASE i.W
    <3>1. l.mode # "offset" /\ l.base = i.Rn /\ Named(l) = reg[i.Rn] + Offset(i, scale)
      BY <2>1 DEF Reads
    <3>2. Writeback(reg, i, scale) = [reg EXCEPT ![i.Rn] = Word(Named(l))]
      BY <2>1, <3>1 DEF Writeback
    <3>3. QED
      BY <1>1, <3>1, <3>2 DEF RegFile
  <2>2. CASE ~i.W
    <3>1. l.mode = "offset"
      BY <2>2 DEF Reads
    <3>2. Writeback(reg, i, scale) = reg
      BY <2>2 DEF Writeback
    <3>3. QED
      BY <3>1, <3>2 DEF RegFile
  <2>3. QED
    BY <2>1, <2>2
<1>5. QED
  BY <1>2, <1>3, <1>4

LEMMA ReadsOffset ==
  ASSUME NEW i, i.Rn # REG_PC, i.W = FALSE, NEW x, NEW l, l = Offsetted(i.Rn, x), NEW scale
  PROVE  Reads(i, l, reg[i.Rn] + x, scale)
<1>1. l.mode = "offset" /\ Accessed(l) = Word(reg[i.Rn] + x)
  BY OffsettedNames
<1>2. QED
  BY <1>1 DEF Reads

LEMMA ReadsByRegister ==
  ASSUME NEW i, i.Rn # REG_PC, i.Rm \in Registers, i.W = FALSE, NEW l, l = ByRegister(i.Rn, i.Rm, i.imm), NEW scale
  PROVE  Reads(i, l, reg[i.Rn] + reg[i.Rm] * 2 ^ i.imm, scale)
<1>1. l.mode = "offset" /\ Accessed(l) = Word(reg[i.Rn] + reg[i.Rm] * 2 ^ i.imm)
  BY ByRegisterNames
<1>2. QED
  BY <1>1 DEF Reads

LEMMA ReadsIndexed ==
  ASSUME RegFile, NEW i, Decoded(i), i.Rn # REG_PC, ~i.P => i.W, NEW l, l = ListedIndexed(i)
  PROVE  Reads(i, l, reg[i.Rn] + Indexed(i, 1), 1)
<1> DEFINE x == IF i.U THEN i.imm ELSE -i.imm
<1>1. i.imm \in Nat /\ i.P \in BOOLEAN /\ i.U \in BOOLEAN /\ i.W \in BOOLEAN /\ reg[i.Rn] \in Int
  BY RegisterIsAddress DEF Decoded
<1>2. Offset(i, 1) = x
  BY <1>1 DEF Offset
<1>3. Indexed(i, 1) = IF i.P THEN x ELSE 0
  BY <1>2 DEF Indexed
<1>4. l = IF ~i.P THEN PostIndexed(i.Rn, x) ELSE IF i.W THEN PreIndexed(i.Rn, x) ELSE Offsetted(i.Rn, x)
  BY DEF ListedIndexed
<1> HIDE DEF x
<1>5. CASE ~i.P
  <2>1. l.base = i.Rn /\ l.mode = "post" /\ Named(l) = reg[i.Rn] + x /\ Accessed(l) = Word(reg[i.Rn])
    <3>1. l = PostIndexed(i.Rn, x)
      BY <1>4, <1>5
    <3>2. QED
      BY <3>1, PostIndexedNames
  <2>2. reg[i.Rn] + Indexed(i, 1) = reg[i.Rn]
    BY <1>1, <1>3, <1>5
  <2>3. QED
    BY <1>2, <1>5, <2>1, <2>2 DEF Reads
<1>6. CASE i.P /\ i.W
  <2>1. l.base = i.Rn /\ l.mode = "pre" /\ Named(l) = reg[i.Rn] + x /\ Accessed(l) = Word(reg[i.Rn] + x)
    <3>1. l = PreIndexed(i.Rn, x)
      BY <1>4, <1>6
    <3>2. QED
      BY <3>1, PreIndexedNames, SMTT(30)
  <2>2. QED
    BY <1>2, <1>3, <1>6, <2>1 DEF Reads
<1>7. CASE i.P /\ ~i.W
  <2>1. l.mode = "offset" /\ Accessed(l) = Word(reg[i.Rn] + x)
    <3>1. l = Offsetted(i.Rn, x)
      BY <1>4, <1>7
    <3>2. QED
      BY <3>1, OffsettedNames
  <2>2. QED
    BY <1>3, <1>7, <2>1 DEF Reads
<1>8. QED
  BY <1>1, <1>5, <1>6, <1>7

(* The operands of the single transfers that are lawful. *)
LEMMA SingleOperands ==
  ASSUME NEW i, Decoded(i), Lawful(i), i.op \notin Blocks
  PROVE  /\ i.Rt \in Registers /\ i.Rtx \in Registers /\ i.Rn \in Registers /\ i.Rm \in Registers /\ i.imm \in Nat
         /\ i.T \in 1 .. 4 /\ i.P \in BOOLEAN /\ i.U \in BOOLEAN /\ i.W \in BOOLEAN
         /\ i.Rt # REG_PC /\ (i.W => i.Rn # i.Rt /\ i.Rn # i.Rtx) /\ (~i.P => i.W)
         /\ (i.op # "ldr_lit" => i.Rn # REG_PC)
         /\ (i.op # "ldr_lit" /\ ~HasPUW(i) => i.W = FALSE)
<1>1. i.Rt # REG_PC /\ (i.W => i.Rn \notin {i.Rt, i.Rtx}) /\ (~i.P => i.W)
  BY DEF Lawful
<1>2. /\ i.Rt \in Registers /\ i.Rtx \in Registers /\ i.Rn \in Registers /\ i.Rm \in Registers /\ i.imm \in Nat
      /\ i.T \in 1 .. 4 /\ i.P \in BOOLEAN /\ i.U \in BOOLEAN /\ i.W \in BOOLEAN
  BY DEF Decoded
<1>3. i.op # "ldr_lit" => i.Rn # REG_PC /\ (HasPUW(i) \/ ~i.W)
  BY DEF Decoded
<1>4. QED
  BY <1>1, <1>2, <1>3

LEMMA SingleIsListed ==
  ASSUME NEW i, i.op \notin Blocks PROVE AsListed(i) = SingleAsListed(i, Listed(i))
BY DEF AsListed

LEMMA Listed_ldr_imm ==
  ASSUME RegFile, NEW i, i.op = "ldr_imm", Decoded(i), Lawful(i) PROVE Executed(i) = AsListed(i)
<1> DEFINE l == Listed(i)
<1>1. i.op \in Loads \ Blocks /\ i.op \notin Blocks /\ i.op \notin {"ldr_lit", "ldrd_imm", "strd_imm"}
  BY DEF Loads, Blocks
<1>2. Executed(i) = ldr_imm(i) /\ Width(i) = 4
  BY DEF Executed, Width
<1>3. AsListed(i) = SingleAsListed(i, l)
  BY <1>1, SingleIsListed
<1>4. i.Rn # REG_PC /\ i.T \in 1 .. 4 /\ (i.W => i.Rn # i.Rt) /\ (~i.P => i.W) /\ i.Rm \in Registers
  BY <1>1, SingleOperands
<1>5. CASE i.T \in {1, 2}
  <2>1. ~HasPUW(i)
    BY <1>5 DEF HasPUW
  <2>2. i.W = FALSE
    BY <1>1, <2>1, SingleOperands
  <2>3. l = Offsetted(i.Rn, 4 * i.imm)
    BY <1>5, <1>1 DEF Listed, ListedLdr
  <2>4. ldr_imm(i) = Load(i, reg[i.Rn] + 4 * i.imm, 4, 4)
    BY <1>5 DEF ldr_imm
  <2> HIDE DEF l
  <2>5. Reads(i, l, reg[i.Rn] + 4 * i.imm, 4)
    BY <1>4, <2>2, <2>3, ReadsOffset
  <2>6. Load(i, reg[i.Rn] + 4 * i.imm, Width(i), 4) = SingleAsListed(i, l)
    BY <1>1, <1>4, <2>5, OneLoad
  <2>7. QED
    BY <1>2, <1>3, <2>4, <2>6
<1>6. CASE i.T \in {3, 4}
  <2>1. l = ListedIndexed(i)
    BY <1>6, <1>1 DEF Listed, ListedLdr
  <2>2. ldr_imm(i) = Load(i, reg[i.Rn] + Indexed(i, 1), 4, 1)
    BY <1>6 DEF ldr_imm
  <2> HIDE DEF l
  <2>3. Reads(i, l, reg[i.Rn] + Indexed(i, 1), 1)
    BY <1>4, <2>1, ReadsIndexed
  <2>4. Load(i, reg[i.Rn] + Indexed(i, 1), Width(i), 1) = SingleAsListed(i, l)
    BY <1>1, <1>4, <2>3, OneLoad
  <2>5. QED
    BY <1>2, <1>3, <2>2, <2>4
<1>7. QED
  BY <1>4, <1>5, <1>6

LEMMA Listed_ldr_reg ==
  ASSUME RegFile, NEW i, i.op = "ldr_reg", Decoded(i), Lawful(i) PROVE Executed(i) = AsListed(i)
<1> DEFINE l == Listed(i)
<1>1. i.op \in Loads \ Blocks /\ i.op \notin Blocks /\ i.op \notin {"ldr_lit", "ldrd_imm", "strd_imm"}
  BY DEF Loads, Blocks
<1>2. Executed(i) = ldr_reg(i) /\ Width(i) = 4
  BY DEF Executed, Width
<1>3. AsListed(i) = SingleAsListed(i, l)
  BY <1>1, SingleIsListed
<1>4. i.Rn # REG_PC /\ i.T \in 1 .. 4 /\ (i.W => i.Rn # i.Rt) /\ (~i.P => i.W) /\ i.Rm \in Registers
  BY <1>1, SingleOperands
<1>5. ~HasPUW(i)
  BY DEF HasPUW
<1>6. i.W = FALSE
  BY <1>1, <1>5, SingleOperands
<1>7. l = ByRegister(i.Rn, i.Rm, i.imm)
  BY DEF Listed, ListedLdr
<1>8. ldr_reg(i) = Load(i, reg[i.Rn] + reg[i.Rm] * 2 ^ i.imm, 4, 1)
  BY DEF ldr_reg
<1> HIDE DEF l
<1>9. Reads(i, l, reg[i.Rn] + reg[i.Rm] * 2 ^ i.imm, 1)
  BY <1>4, <1>6, <1>7, ReadsByRegister
<1>10. Load(i, reg[i.Rn] + reg[i.Rm] * 2 ^ i.imm, Width(i), 1) = SingleAsListed(i, l)
  BY <1>1, <1>4, <1>9, OneLoad
<1>11. QED
  BY <1>2, <1>3, <1>8, <1>10

LEMMA Listed_ldrb_imm ==
  ASSUME RegFile, NEW i, i.op = "ldrb_imm", Decoded(i), Lawful(i) PROVE Executed(i) = AsListed(i)
<1> DEFINE l == Listed(i)
<1>1. i.op \in Loads \ Blocks /\ i.op \notin Blocks /\ i.op \notin {"ldr_lit", "ldrd_imm", "strd_imm"}
  BY DEF Loads, Blocks
<1>2. Executed(i) = ldrb_imm(i) /\ Width(i) = 1
  BY DEF Executed, Width
<1>3. AsListed(i) = SingleAsListed(i, l)
  BY <1>1, SingleIsListed
<1>4. i.Rn # REG_PC /\ i.T \in 1 .. 4 /\ (i.W => i.Rn # i.Rt) /\ (~i.P => i.W) /\ i.Rm \in Registers
  BY <1>1, SingleOperands
<1>5. l = ListedIndexed(i)
  BY DEF Listed, ListedLdrb
<1>6. ldrb_imm(i) = Load(i, reg[i.Rn] + Indexed(i, 1), 1, 1)
  BY DEF ldrb_imm
<1> HIDE DEF l
<1>7. Reads(i, l, reg[i.Rn] + Indexed(i, 1), 1)
  BY <1>4, <1>5, ReadsIndexed
<1>8. Load(i, reg[i.Rn] + Indexed(i, 1), Width(i), 1) = SingleAsListed(i, l)
  BY <1>1, <1>4, <1>7, OneLoad
<1>9. QED
  BY <1>2, <1>3, <1>6, <1>8

LEMMA Listed_ldrh_imm ==
  ASSUME RegFile, NEW i, i.op = "ldrh_imm", Decoded(i), Lawful(i) PROVE Executed(i) = AsListed(i)
<1> DEFINE l == Listed(i)
<1>1. i.op \in Loads \ Blocks /\ i.op \notin Blocks /\ i.op \notin {"ldr_lit", "ldrd_imm", "strd_imm"}
  BY DEF Loads, Blocks
<1>2. Executed(i) = ldrh_imm(i) /\ Width(i) = 2
  BY DEF Executed, Width
<1>3. AsListed(i) = SingleAsListed(i, l)
  BY <1>1, SingleIsListed
<1>4. i.Rn # REG_PC /\ i.T \in 1 .. 4 /\ (i.W => i.Rn # i.Rt) /\ (~i.P => i.W) /\ i.Rm \in Registers
  BY <1>1, SingleOperands
<1>5. ~HasPUW(i)
  BY DEF HasPUW
<1>6. i.W = FALSE
  BY <1>1, <1>5, SingleOperands
<1>7. l = Offsetted(i.Rn, (IF i.T = 1 THEN 2 ELSE 1) * i.imm)
  BY DEF Listed, ListedLdrh
<1>8. ldrh_imm(i) = Load(i, reg[i.Rn] + (IF i.T = 1 THEN 2 ELSE 1) * i.imm, 2, 1)
  BY DEF ldrh_imm
<1> HIDE DEF l
<1>9. Reads(i, l, reg[i.Rn] + (IF i.T = 1 THEN 2 ELSE 1) * i.imm, 1)
  BY <1>4, <1>6, <1>7, ReadsOffset
<1>10. Load(i, reg[i.Rn] + (IF i.T = 1 THEN 2 ELSE 1) * i.imm, Width(i), 1) = SingleAsListed(i, l)
  BY <1>1, <1>4, <1>9, OneLoad
<1>11. QED
  BY <1>2, <1>3, <1>8, <1>10

LEMMA Listed_str_imm ==
  ASSUME RegFile, NEW i, i.op = "str_imm", Decoded(i), Lawful(i) PROVE Executed(i) = AsListed(i)
<1> DEFINE l == Listed(i)
<1>1. i.op \in Stores \ Blocks /\ i.op \notin Blocks /\ i.op \notin {"ldr_lit", "ldrd_imm", "strd_imm"}
  BY DEF Stores, Blocks
<1>2. Executed(i) = str_imm(i) /\ Width(i) = 4
  BY DEF Executed, Width
<1>3. AsListed(i) = SingleAsListed(i, l)
  BY <1>1, SingleIsListed
<1>4. i.Rn # REG_PC /\ i.T \in 1 .. 4 /\ (i.W => i.Rn # i.Rt) /\ (~i.P => i.W) /\ i.Rm \in Registers
  BY <1>1, SingleOperands
<1>5. CASE i.T \in {1, 2}
  <2>1. ~HasPUW(i)
    BY <1>5 DEF HasPUW
  <2>2. i.W = FALSE
    BY <1>1, <2>1, SingleOperands
  <2>3. l = Offsetted(i.Rn, 4 * i.imm)
    BY <1>5, <1>1 DEF Listed, ListedStr
  <2>4. str_imm(i) = Store(i, reg[i.Rn] + 4 * i.imm, 4, 4)
    BY <1>5 DEF str_imm
  <2> HIDE DEF l
  <2>5. Reads(i, l, reg[i.Rn] + 4 * i.imm, 4)
    BY <1>4, <2>2, <2>3, ReadsOffset
  <2>6. Store(i, reg[i.Rn] + 4 * i.imm, Width(i), 4) = SingleAsListed(i, l)
    BY <1>1, <1>4, <2>5, OneStore
  <2>7. QED
    BY <1>2, <1>3, <2>4, <2>6
<1>6. CASE i.T \in {3, 4}
  <2>1. l = ListedIndexed(i)
    BY <1>6, <1>1 DEF Listed, ListedStr
  <2>2. str_imm(i) = Store(i, reg[i.Rn] + Indexed(i, 1), 4, 1)
    BY <1>6 DEF str_imm
  <2> HIDE DEF l
  <2>3. Reads(i, l, reg[i.Rn] + Indexed(i, 1), 1)
    BY <1>4, <2>1, ReadsIndexed
  <2>4. Store(i, reg[i.Rn] + Indexed(i, 1), Width(i), 1) = SingleAsListed(i, l)
    BY <1>1, <1>4, <2>3, OneStore
  <2>5. QED
    BY <1>2, <1>3, <2>2, <2>4
<1>7. QED
  BY <1>4, <1>5, <1>6

LEMMA Listed_str_reg ==
  ASSUME RegFile, NEW i, i.op = "str_reg", Decoded(i), Lawful(i) PROVE Executed(i) = AsListed(i)
<1> DEFINE l == Listed(i)
<1>1. i.op \in Stores \ Blocks /\ i.op \notin Blocks /\ i.op \notin {"ldr_lit", "ldrd_imm", "strd_imm"}
  BY DEF Stores, Blocks
<1>2. Executed(i) = str_reg(i) /\ Width(i) = 4
  BY DEF Executed, Width
<1>3. AsListed(i) = SingleAsListed(i, l)
  BY <1>1, SingleIsListed
<1>4. i.Rn # REG_PC /\ i.T \in 1 .. 4 /\ (i.W => i.Rn # i.Rt) /\ (~i.P => i.W) /\ i.Rm \in Registers
  BY <1>1, SingleOperands
<1>5. ~HasPUW(i)
  BY DEF HasPUW
<1>6. i.W = FALSE
  BY <1>1, <1>5, SingleOperands
<1>7. l = ByRegister(i.Rn, i.Rm, i.imm)
  BY DEF Listed, ListedStr
<1>8. str_reg(i) = Store(i, reg[i.Rn] + reg[i.Rm] * 2 ^ i.imm, 4, 1)
  BY DEF str_reg
<1> HIDE DEF l
<1>9. Reads(i, l, reg[i.Rn] + reg[i.Rm] * 2 ^ i.imm, 1)
  BY <1>4, <1>6, <1>7, ReadsByRegister
<1>10. Store(i, reg[i.Rn] + reg[i.Rm] * 2 ^ i.imm, Width(i), 1) = SingleAsListed(i, l)
  BY <1>1, <1>4, <1>9, OneStore
<1>11. QED
  BY <1>2, <1>3, <1>8, <1>10

LEMMA Listed_strb_imm ==
  ASSUME RegFile, NEW i, i.op = "strb_imm", Decoded(i), Lawful(i) PROVE Executed(i) = AsListed(i)
<1> DEFINE l == Listed(i)
<1>1. i.op \in Stores \ Blocks /\ i.op \notin Blocks /\ i.op \notin {"ldr_lit", "ldrd_imm", "strd_imm"}
  BY DEF Stores, Blocks
<1>2. Executed(i) = strb_imm(i) /\ Width(i) = 1
  BY DEF Executed, Width
<1>3. AsListed(i) = SingleAsListed(i, l)
  BY <1>1, SingleIsListed
<1>4. i.Rn # REG_PC /\ i.T \in 1 .. 4 /\ (i.W => i.Rn # i.Rt) /\ (~i.P => i.W) /\ i.Rm \in Registers
  BY <1>1, SingleOperands
<1>5. l = ListedIndexed(i)
  BY DEF Listed, ListedStr
<1>6. strb_imm(i) = Store(i, reg[i.Rn] + Indexed(i, 1), 1, 1)
  BY DEF strb_imm
<1> HIDE DEF l
<1>7. Reads(i, l, reg[i.Rn] + Indexed(i, 1), 1)
  BY <1>4, <1>5, ReadsIndexed
<1>8. Store(i, reg[i.Rn] + Indexed(i, 1), Width(i), 1) = SingleAsListed(i, l)
  BY <1>1, <1>4, <1>7, OneStore
<1>9. QED
  BY <1>2, <1>3, <1>6, <1>8

LEMMA Listed_strh_imm ==
  ASSUME RegFile, NEW i, i.op = "strh_imm", Decoded(i), Lawful(i) PROVE Executed(i) = AsListed(i)
<1> DEFINE l == Listed(i)
<1>1. i.op \in Stores \ Blocks /\ i.op \notin Blocks /\ i.op \notin {"ldr_lit", "ldrd_imm", "strd_imm"}
  BY DEF Stores, Blocks
<1>2. Executed(i) = strh_imm(i) /\ Width(i) = 2
  BY DEF Executed, Width
<1>3. AsListed(i) = SingleAsListed(i, l)
  BY <1>1, SingleIsListed
<1>4. i.Rn # REG_PC /\ i.T \in 1 .. 4 /\ (i.W => i.Rn # i.Rt) /\ (~i.P => i.W) /\ i.Rm \in Registers
  BY <1>1, SingleOperands
<1>5. ~HasPUW(i)
  BY DEF HasPUW
<1>6. i.W = FALSE
  BY <1>1, <1>5, SingleOperands
<1>7. l = Offsetted(i.Rn, (IF i.T = 1 THEN 2 ELSE 1) * i.imm)
  BY DEF Listed, ListedStr
<1>8. strh_imm(i) = Store(i, reg[i.Rn] + (IF i.T = 1 THEN 2 ELSE 1) * i.imm, 2, 1)
  BY DEF strh_imm
<1> HIDE DEF l
<1>9. Reads(i, l, reg[i.Rn] + (IF i.T = 1 THEN 2 ELSE 1) * i.imm, 1)
  BY <1>4, <1>6, <1>7, ReadsOffset
<1>10. Store(i, reg[i.Rn] + (IF i.T = 1 THEN 2 ELSE 1) * i.imm, Width(i), 1) = SingleAsListed(i, l)
  BY <1>1, <1>4, <1>9, OneStore
<1>11. QED
  BY <1>2, <1>3, <1>8, <1>10

LEMMA Listed_ldr_lit ==
  ASSUME RegFile, NEW i, i.op = "ldr_lit", Decoded(i), Lawful(i) PROVE Executed(i) = AsListed(i)
<1> DEFINE l == Listed(i)
           aligned == reg[REG_PC] - (reg[REG_PC] % 4)
           x == Offset(i, IF i.T = 1 THEN 4 ELSE 1)
           value == read_n(Accessed(l), 4)
<1>1. i.op \in Loads \ Blocks /\ i.op \notin Blocks /\ i.op \notin {"ldrd_imm", "strd_imm"}
  BY DEF Loads, Blocks
<1>2. Executed(i) = ldr_lit(i) /\ Width(i) = 4
  BY DEF Executed, Width
<1>3. AsListed(i) = SingleAsListed(i, l)
  BY <1>1, SingleIsListed
<1>4. i.imm \in Nat /\ i.Rt # REG_PC /\ i.U \in BOOLEAN /\ (i.T = 2 \/ (i.T = 1 /\ i.U)) /\ i.Rt \in Registers
  BY <1>1, SingleOperands DEF Decoded
<1>5. reg[REG_PC] \in Int /\ aligned \in Int
  <2>1. REG_PC \in Registers
    BY RegistersAssumption
  <2>2. reg[REG_PC] \in Int
    BY <2>1, RegisterIsAddress
  <2>3. QED
    BY <2>2
<1>6. l = Offsetted(REG_PC, x)
  <2>1. CASE i.T = 1
    BY <1>4, <2>1 DEF Listed, ListedLdr, Offset
  <2>2. CASE i.T = 2
    <3>1. l = Offsetted(REG_PC, IF i.U THEN i.imm ELSE -i.imm)
      BY <2>2 DEF Listed, ListedLdr
    <3>2. x = IF i.U THEN i.imm ELSE -i.imm
      BY <1>4, <2>2 DEF Offset
    <3>3. QED
      BY <3>1, <3>2
  <2>3. QED
    BY <1>4, <2>1, <2>2
<1>7. x \in Int
  <2>1. CASE i.T = 1
    BY <1>4, <2>1 DEF Offset
  <2>2. CASE i.T # 1
    BY <1>4, <2>2 DEF Offset
  <2>3. QED
    BY <2>1, <2>2
<1> HIDE DEF l
<1>8. l.base = REG_PC /\ l.offset = x /\ l.index = -1 /\ l.mode = "offset"
  BY <1>6, Notations
<1>9. Accessed(l) = Word(aligned + x + 4)
  <2>1. Base(l) = aligned + 4
    BY <1>8 DEF Base
  <2>2. Named(l) = (aligned + 4) + x
    BY <1>8, <2>1 DEF Named
  <2> HIDE DEF aligned, x
  <2>3. (aligned + 4) + x = aligned + x + 4
    BY <1>5, <1>7
  <2>4. QED
    BY <1>8, <2>2, <2>3 DEF Accessed
<1>10. Executed(i) = Outcome([reg EXCEPT ![i.Rt] = value], mem, TRUE, Length(i))
  BY <1>2, <1>4, <1>9 DEF ldr_lit
<1>11. SingleAsListed(i, l) = Outcome([r \in Registers |-> IF r = i.Rt THEN value ELSE reg[r]], mem, TRUE, Length(i))
  BY <1>1, <1>2, <1>8 DEF SingleAsListed
<1> HIDE DEF value
<1>12. [reg EXCEPT ![i.Rt] = value] = [r \in Registers |-> IF r = i.Rt THEN value ELSE reg[r]]
  BY DEF RegFile
<1>13. QED
  BY <1>3, <1>10, <1>11, <1>12

PlainRegister(i) ==
  /\ i.imm = 0 /\ i.W = FALSE /\ Reads(i, Listed(i), reg[i.Rn] + reg[i.Rm], 1)
  /\ Accessed(Listed(i)) = Word(reg[i.Rn] + reg[i.Rm]) /\ Accessed(Listed(i)) \in Address

LEMMA ByteByPlainRegister ==
  ASSUME RegFile, NEW i, i.op = "ldrb_reg" \/ i.op = "strb_reg", Decoded(i), Lawful(i), ~ByteByRegister(i)
  PROVE  PlainRegister(i)
<1> DEFINE l == Listed(i)
<1>1. i.op \notin Blocks /\ i.op # "ldr_lit" /\ ~HasPUW(i)
  BY DEF Blocks, HasPUW
<1>2. i.Rn # REG_PC /\ i.Rm \in Registers /\ i.Rn \in Registers /\ i.W = FALSE /\ i.imm = 0
  BY <1>1, SingleOperands DEF ByteByRegister
<1>3. l = ByRegister(i.Rn, i.Rm, i.imm)
  BY DEF Listed, ListedLdrb, ListedStr
<1> HIDE DEF l
<1>4. reg[i.Rn] \in Int /\ reg[i.Rm] \in Int
  BY <1>2, RegisterIsAddress
<1>5. reg[i.Rm] * 2 ^ i.imm = reg[i.Rm]
  <2>1. 2 ^ 0 = 1
    OBVIOUS
  <2>2. QED
    BY <1>2, <1>4, <2>1
<1>6. Reads(i, l, reg[i.Rn] + reg[i.Rm], 1)
  BY <1>2, <1>3, <1>5, ReadsByRegister
<1>7. reg[i.Rn] + reg[i.Rm] \in Int
  BY <1>4
<1>8. QED
  BY <1>2, <1>6, <1>7, WordIsAddress DEF Reads, PlainRegister, l

LEMMA Listed_ldrb_reg ==
  ASSUME RegFile, mem \in Memories, NEW i, i.op = "ldrb_reg", Decoded(i), Lawful(i), ~ByteByRegister(i)
  PROVE  Executed(i) = AsListed(i)
<1> DEFINE l == Listed(i)
           a == Accessed(l)
<1>1. i.op \in Loads \ Blocks /\ i.op \notin Blocks /\ i.op # "ldrd_imm"
  BY DEF Loads, Blocks
<1>2. Executed(i) = ldrb_reg(i) /\ Width(i) = 1
  BY DEF Executed, Width
<1>3. AsListed(i) = SingleAsListed(i, l)
  BY <1>1, SingleIsListed
<1>4. i.imm = 0 /\ i.W = FALSE /\ Reads(i, l, reg[i.Rn] + reg[i.Rm], 1) /\ a = Word(reg[i.Rn] + reg[i.Rm]) /\ a \in Address
  <2>1. PlainRegister(i)
    BY ByteByPlainRegister
  <2>2. QED
    BY <2>1 DEF PlainRegister
<1> HIDE DEF l
<1>5. read_n(a, 1) \in Address
  <2>1. a + 1 <= AddrMod
    BY <1>4, AddrModAssumption DEF Address
  <2>2. QED
    BY <1>4, <2>1, ReadIsAddress
<1>6. Word(read_n(a, 1) * 2 ^ i.imm) = read_n(a, 1)
  <2>1. 2 ^ 0 = 1
    OBVIOUS
  <2> DEFINE v == read_n(a, 1)
  <2>2. v \in Int
    BY <1>5, AddrModAssumption DEF Address
  <2> HIDE DEF v
  <2>3. v * 2 ^ i.imm = v
    BY <1>4, <2>1, <2>2
  <2>4. QED
    BY <1>5, <2>3, AddressIsWord DEF v
<1>7. ldrb_reg(i) = Outcome([reg EXCEPT ![i.Rt] = read_n(a, 1)], mem, TRUE, Length(i))
  BY <1>4, <1>6 DEF ldrb_reg
<1>8. Load(i, reg[i.Rn] + reg[i.Rm], Width(i), 1) = Outcome([reg EXCEPT ![i.Rt] = read_n(a, 1)], mem, TRUE, Length(i))
  BY <1>2, <1>4 DEF Load, Writeback
<1>9. Load(i, reg[i.Rn] + reg[i.Rm], Width(i), 1) = SingleAsListed(i, l)
  BY <1>1, <1>4, OneLoad
<1>10. QED
  BY <1>2, <1>3, <1>7, <1>8, <1>9

LEMMA Listed_strb_reg ==
  ASSUME RegFile, NEW i, i.op = "strb_reg", Decoded(i), Lawful(i), ~ByteByRegister(i)
  PROVE  Executed(i) = AsListed(i)
<1> DEFINE l == Listed(i)
           target == reg[i.Rn] + reg[i.Rm]
<1>1. i.op \in Stores \ Blocks /\ i.op \notin Blocks /\ i.op # "strd_imm" /\ i.op # "ldr_lit"
  BY DEF Stores, Blocks
<1>2. Executed(i) = strb_reg(i) /\ Width(i) = 1
  BY DEF Executed, Width
<1>3. AsListed(i) = SingleAsListed(i, l)
  BY <1>1, SingleIsListed
<1>4. i.imm = 0 /\ Reads(i, l, target, 1)
  <2>1. PlainRegister(i)
    BY ByteByPlainRegister
  <2>2. QED
    BY <2>1 DEF PlainRegister
<1> HIDE DEF l
<1>5. reg[i.Rn] \in Int /\ reg[i.Rm] \in Int
  BY <1>1, SingleOperands, RegisterIsAddress
<1>6. reg[i.Rn] + reg[i.Rm] + i.imm = target
  BY <1>4, <1>5
<1>7. strb_reg(i) = Store(i, target, 1, 1)
  BY <1>6 DEF strb_reg
<1> HIDE DEF target
<1>8. Store(i, target, Width(i), 1) = SingleAsListed(i, l)
  BY <1>1, <1>4, OneStore
<1>9. QED
  BY <1>2, <1>3, <1>7, <1>8

(* The second word of a dual transfer. *)
LEMMA SecondWord ==
  ASSUME NEW l, NEW target \in Int, Word(target) = Accessed(l) PROVE Word(target + 4) = Word(Accessed(l) + 4)
<1>1. Word(Word(target) + 4) = Word(target + 4)
  BY WordSum
<1>2. QED
  BY <1>1

LEMMA Listed_ldrd_imm ==
  ASSUME RegFile, NEW i, i.op = "ldrd_imm", Decoded(i), Lawful(i), ~Misprinted(i)
  PROVE  Executed(i) = AsListed(i)
<1> DEFINE l == Listed(i)
           x == IF i.U THEN 4 * i.imm ELSE -4 * i.imm
           target == reg[i.Rn] + Indexed(i, 4)
           v1 == read_n(Accessed(l), 4)
           v2 == read_n(Word(Accessed(l) + 4), 4)
           both == [[reg EXCEPT ![i.Rt] = v1] EXCEPT ![i.Rtx] = v2]
           next == [r \in Registers |->
                      IF r = i.Rt THEN v1 ELSE IF r = i.Rtx THEN v2
                      ELSE IF l.mode # "offset" /\ r = l.base THEN Word(Named(l)) ELSE reg[r]]
<1>1. i.op \in Loads \ Blocks /\ i.op \notin Blocks /\ i.op # "ldr_lit" /\ i.op = "ldrd_imm"
  BY DEF Loads, Blocks
<1>2. Executed(i) = ldrd_imm(i) /\ Width(i) = 4 /\ Length(i) = 4
  BY DEF Executed, Width, Length, Decoded
<1>3. AsListed(i) = SingleAsListed(i, l)
  BY <1>1, SingleIsListed
<1>4. /\ i.Rn # REG_PC /\ i.Rt \in Registers /\ i.Rtx \in Registers /\ i.Rn \in Registers /\ i.imm \in Nat
      /\ i.U \in BOOLEAN /\ i.P \in BOOLEAN /\ i.W \in BOOLEAN
      /\ (i.W => i.Rn # i.Rt /\ i.Rn # i.Rtx) /\ (~i.P => i.W)
  BY <1>1, SingleOperands
<1>5. i.Rt # i.Rtx /\ (i.P => ~i.W)
  BY <1>1 DEF Lawful, Misprinted
<1>6. reg[i.Rn] \in Int
  BY <1>4, RegisterIsAddress
<1>7. Offset(i, 4) = x /\ Indexed(i, 4) = IF i.P THEN x ELSE 0
  BY <1>4 DEF Offset, Indexed
<1>8. x \in Int
  BY <1>4
<1>9. l = IF i.P THEN Offsetted(i.Rn, x) ELSE PostIndexed(i.Rn, x)
  BY DEF Listed, ListedLdrd
<1> HIDE DEF l, x
<1>10. target \in Int /\ Reads(i, l, target, 4)
  <2>1. CASE i.P
    <3>1. l = Offsetted(i.Rn, x)
      BY <1>9, <2>1
    <3>2. l.mode = "offset" /\ Accessed(l) = Word(reg[i.Rn] + x)
      BY <1>4, <3>1, OffsettedNames
    <3>3. target = reg[i.Rn] + x
      BY <1>7, <2>1
    <3>4. QED
      BY <1>5, <1>6, <1>8, <2>1, <3>2, <3>3 DEF Reads
  <2>2. CASE ~i.P
    <3>0. i.Rn # REG_PC
      BY <1>4
    <3>1. l = PostIndexed(i.Rn, x)
      BY <1>9, <2>2
    <3>2. l.base = i.Rn /\ l.mode = "post" /\ Named(l) = reg[i.Rn] + x /\ Accessed(l) = Word(reg[i.Rn])
      BY <3>0, <3>1, PostIndexedNames
    <3>3. target = reg[i.Rn]
      BY <1>6, <1>7, <2>2
    <3>4. QED
      BY <1>4, <1>6, <1>7, <2>2, <3>2, <3>3 DEF Reads
  <2>3. QED
    BY <2>1, <2>2
<1>11. Word(target) = Accessed(l)
  BY <1>10 DEF Reads
<1>12. Word(target + 4) = Word(Accessed(l) + 4)
  <2> HIDE DEF target
  <2>1. QED
    BY <1>10, <1>11, SecondWord
<1>13. ldrd_imm(i) = Outcome(Writeback(both, i, 4), mem, TRUE, 4)
  BY <1>11, <1>12 DEF ldrd_imm
<1>14. SingleAsListed(i, l) = Outcome(next, mem, TRUE, Length(i))
  BY <1>1, <1>2 DEF SingleAsListed
<1> HIDE DEF v1, v2, target
<1>15. Writeback(both, i, 4) = next
  <2>1. \A r \in Registers : both[r] = IF r = i.Rtx THEN v2 ELSE IF r = i.Rt THEN v1 ELSE reg[r]
    BY <1>4 DEF RegFile
  <2>2. both = [r \in Registers |-> both[r]]
    BY DEF RegFile
  <2>3. CASE i.W
    <3>1. l.mode # "offset" /\ l.base = i.Rn /\ Named(l) = reg[i.Rn] + Offset(i, 4)
      BY <1>10, <2>3 DEF Reads
    <3>2. both[i.Rn] = reg[i.Rn]
      BY <1>4, <2>1, <2>3
    <3>3. Writeback(both, i, 4) = [both EXCEPT ![i.Rn] = Word(Named(l))]
      BY <2>3, <3>1, <3>2 DEF Writeback
    <3> HIDE DEF both
    <3>4. QED
      BY <1>4, <1>5, <2>1, <2>2, <2>3, <3>1, <3>3
  <2>4. CASE ~i.W
    <3>1. l.mode = "offset"
      BY <1>10, <2>4 DEF Reads
    <3>2. Writeback(both, i, 4) = both
      BY <2>4 DEF Writeback
    <3> HIDE DEF both
    <3>3. QED
      BY <1>5, <2>1, <2>2, <3>1, <3>2
  <2>5. QED
    BY <2>3, <2>4
<1>16. QED
  BY <1>2, <1>3, <1>13, <1>14, <1>15

LEMMA Listed_strd_imm ==
  ASSUME RegFile, NEW i, i.op = "strd_imm", Decoded(i), Lawful(i), ~Misprinted(i)
  PROVE  Executed(i) = AsListed(i)
<1> DEFINE l == Listed(i)
           target == reg[i.Rn] + 4 * i.imm
           m == write_n(write_n(mem, Accessed(l), 4, reg[i.Rt]), Word(Accessed(l) + 4), 4, reg[i.Rtx])
<1>1. i.op \notin Blocks /\ i.op \notin Loads /\ i.op # "ldr_lit" /\ i.op = "strd_imm"
  BY DEF Blocks, Loads
<1>2. Executed(i) = strd_imm(i) /\ Width(i) = 4 /\ Length(i) = 4
  BY DEF Executed, Width, Length, Decoded
<1>3. AsListed(i) = SingleAsListed(i, l)
  BY <1>1, SingleIsListed
<1>4. i.Rn # REG_PC /\ i.Rn \in Registers /\ i.imm \in Nat
  BY <1>1, SingleOperands
<1>5. i.P /\ i.U /\ ~i.W
  BY DEF Misprinted
<1>6. reg[i.Rn] \in Int
  BY <1>4, RegisterIsAddress
<1>7. Indexed(i, 4) = 4 * i.imm
  BY <1>5 DEF Indexed, Offset
<1>8. l = Offsetted(i.Rn, 4 * i.imm)
  BY DEF Listed, ListedStrd
<1> HIDE DEF l
<1>9. l.mode = "offset" /\ Accessed(l) = Word(target)
  BY <1>4, <1>8, OffsettedNames
<1>10. Word(target + 4) = Word(Accessed(l) + 4)
  <2>1. target \in Int
    BY <1>4, <1>6
  <2> HIDE DEF target
  <2>2. QED
    BY <1>9, <2>1, SecondWord
<1>11. strd_imm(i) = Outcome(reg, m, TRUE, 4)
  <2>1. Writeback(reg, i, 4) = reg
    BY <1>5 DEF Writeback
  <2>2. QED
    BY <1>7, <1>9, <1>10, <2>1 DEF strd_imm
<1>12. SingleAsListed(i, l) = Outcome([r \in Registers |-> reg[r]], m, TRUE, Length(i))
  BY <1>1, <1>2, <1>9 DEF SingleAsListed
<1>13. reg = [r \in Registers |-> reg[r]]
  BY DEF RegFile
<1>14. QED
  BY <1>2, <1>3, <1>11, <1>12, <1>13

LEMMA EveryAccessAsListed ==
  ASSUME RegFile, mem \in Memories, NEW i, Decoded(i), Lawful(i), ~Misprinted(i), ~ByteByRegister(i)
  PROVE  Executed(i) = AsListed(i)
<1>1. i.op \in Loads \cup Stores
  BY DEF Decoded
<1>2. CASE i.op \in Blocks
  BY <1>2, BlocksAreAsListed
<1>3. CASE i.op \in {"ldr_imm", "ldr_lit", "ldr_reg", "ldrb_imm", "ldrb_reg", "ldrd_imm", "ldrh_imm"}
  BY <1>3, Listed_ldr_imm, Listed_ldr_lit, Listed_ldr_reg, Listed_ldrb_imm, Listed_ldrb_reg, Listed_ldrd_imm,
     Listed_ldrh_imm
<1>4. CASE i.op \in {"str_imm", "str_reg", "strb_imm", "strb_reg", "strd_imm", "strh_imm"}
  BY <1>4, Listed_str_imm, Listed_str_reg, Listed_strb_imm, Listed_strb_reg, Listed_strd_imm, Listed_strh_imm
<1>5. QED
  BY <1>1, <1>2, <1>3, <1>4 DEF Loads, Stores, Blocks

------------------------------------------------------------------------------
(* The states that steps leave behind are those of registers and bytes. *)
IsRegFile(r) == r \in [Registers -> Address]
WellTyped(after) == IsRegFile(after.reg) /\ after.mem \in Memories
StackKept(after) == after.reg[REG_SP] = reg[REG_SP]

LEMMA Named3 == {REG_SP, REG_LR, REG_PC} \subseteq Registers /\ REG_SP # REG_LR /\ REG_SP # REG_PC
BY RegistersAssumption DEF REG_SP, REG_LR, REG_PC

LEMMA AddressIsInt == ASSUME NEW a \in Address PROVE a \in Int
BY AddrModAssumption DEF Address

LEMMA Put ==
  ASSUME NEW r, IsRegFile(r), NEW q \in Registers, NEW v \in Address
  PROVE  /\ IsRegFile([r EXCEPT ![q] = v])
         /\ \A p \in Registers : [r EXCEPT ![q] = v][p] = IF p = q THEN v ELSE r[p]
BY DEF IsRegFile

LEMMA OutcomeIsTyped ==
  ASSUME NEW r, IsRegFile(r), NEW m \in Memories, NEW advance_pc \in BOOLEAN, NEW length \in Nat
  PROVE  /\ WellTyped(Outcome(r, m, advance_pc, length))
         /\ Outcome(r, m, advance_pc, length).reg[REG_SP] = r[REG_SP]
         /\ Outcome(r, m, advance_pc, length).mem = m
<1> DEFINE v == Word(r[REG_PC] + length)
           moved == [r EXCEPT ![REG_PC] = v]
<1>1. REG_PC \in Registers /\ REG_SP \in Registers /\ REG_SP # REG_PC
  BY Named3
<1>2. r[REG_PC] \in Address
  BY <1>1 DEF IsRegFile
<1>3. r[REG_PC] \in Int
  BY <1>2, AddressIsInt
<1>4. v \in Address
  BY <1>3, WordIsAddress
<1>5. IsRegFile(moved) /\ moved[REG_SP] = r[REG_SP]
  <2> HIDE DEF v
  <2>1. QED
    BY <1>1, <1>4, Put
<1>6. Outcome(r, m, advance_pc, length).reg = IF advance_pc THEN moved ELSE r
  BY DEF Outcome
<1>7. Outcome(r, m, advance_pc, length).mem = m
  BY DEF Outcome
<1> HIDE DEF moved
<1>8. QED
  BY <1>5, <1>6, <1>7 DEF WellTyped

LEMMA AdvanceIsTyped ==
  ASSUME NEW r, IsRegFile(r), NEW m \in Memories, NEW length \in Nat
  PROVE  /\ WellTyped(Outcome(r, m, TRUE, length))
         /\ Outcome(r, m, TRUE, length).reg[REG_SP] = r[REG_SP]
<1> DEFINE on == TRUE
<1>1. on \in BOOLEAN
  OBVIOUS
<1> HIDE DEF on
<1>2. WellTyped(Outcome(r, m, on, length)) /\ Outcome(r, m, on, length).reg[REG_SP] = r[REG_SP]
  BY <1>1, OutcomeIsTyped
<1>3. QED
  BY <1>2 DEF on

LEMMA EvenIsAddress == ASSUME NEW v \in Address PROVE Even(v) \in Address /\ Even(v) % 2 = 0
BY AddrModAssumption DEF Even, Address

LEMMA LengthIsNat == ASSUME NEW i PROVE Length(i) \in Nat
BY DEF Length

LEMMA Shifts == ASSUME NEW n \in 0 .. 3 PROVE 2 ^ n \in Nat
<1>1. 2 ^ 0 \in Nat /\ 2 ^ 1 \in Nat /\ 2 ^ 2 \in Nat /\ 2 ^ 3 \in Nat
  OBVIOUS
<1>2. n = 0 \/ n = 1 \/ n = 2 \/ n = 3
  OBVIOUS
<1>3. QED
  BY <1>1, <1>2, Zenon

(* The integers that a listing of one register names. *)
NamesWell(i, l) ==
  /\ Base(l) \in Int /\ Named(l) \in Int
  /\ l.mode # "offset" => l.base = i.Rn

LEMMA BaseIsInt == ASSUME RegFile, NEW l, l.base \in Registers PROVE Base(l) \in Int
<1>1. reg[l.base] \in Int /\ reg[REG_PC] \in Int
  BY RegisterIsAddress, Named3
<1>2. QED
  BY <1>1 DEF Base

LEMMA OffsetIsNamed ==
  ASSUME RegFile, NEW i, NEW l, l.base \in Registers, l.index = -1, l.offset \in Int, l.mode # "offset" => l.base = i.Rn
  PROVE  NamesWell(i, l)
<1>1. Base(l) \in Int
  BY BaseIsInt
<1>2. Named(l) = Base(l) + l.offset
  BY DEF Named
<1>3. QED
  BY <1>1, <1>2 DEF NamesWell

LEMMA IndexIsNamed ==
  ASSUME RegFile, NEW i, NEW base \in Registers, NEW m \in Registers, NEW n \in 0 .. 3
  PROVE  NamesWell(i, ByRegister(base, m, n))
<1> DEFINE l == ByRegister(base, m, n)
<1>1. l.base = base /\ l.index = m /\ l.lsl = n /\ l.mode = "offset"
  BY Notations
<1> HIDE DEF l
<1>2. m # -1
  BY RegistersAssumption
<1>3. Base(l) \in Int
  BY <1>1, BaseIsInt
<1>4. reg[m] \in Int /\ 2 ^ n \in Nat
  BY RegisterIsAddress, Shifts
<1>5. Named(l) = Base(l) + reg[m] * 2 ^ n
  BY <1>1, <1>2 DEF Named
<1>6. Named(l) \in Int
  <2> DEFINE p == 2 ^ n
  <2>1. p \in Int
    BY <1>4
  <2> HIDE DEF p
  <2>2. reg[m] * p \in Int
    BY <1>4, <2>1
  <2>3. QED
    BY <1>3, <1>5, <2>2 DEF p
<1>7. QED
  BY <1>1, <1>3, <1>6 DEF NamesWell, l

LEMMA IndexedIsNamed ==
  ASSUME RegFile, NEW i, i.Rn \in Registers, i.imm \in Nat PROVE NamesWell(i, ListedIndexed(i))
<1> DEFINE x == IF i.U THEN i.imm ELSE -i.imm
           l == ListedIndexed(i)
<1>1. l = PostIndexed(i.Rn, x) \/ l = PreIndexed(i.Rn, x) \/ l = Offsetted(i.Rn, x)
  BY DEF ListedIndexed
<1>2. x \in Int
  OBVIOUS
<1> HIDE DEF x, l
<1>3. l.base = i.Rn /\ l.offset = x /\ l.index = -1
  BY <1>1, Notations
<1>4. NamesWell(i, l)
  BY <1>2, <1>3, OffsetIsNamed
<1>5. QED
  BY <1>4 DEF l

LEMMA OffsettedIsNamed ==
  ASSUME RegFile, NEW i, NEW base \in Registers, NEW x \in Int PROVE NamesWell(i, Offsetted(base, x))
<1> DEFINE l == Offsetted(base, x)
<1>1. l.base = base /\ l.offset = x /\ l.index = -1 /\ l.mode = "offset"
  BY Notations
<1> HIDE DEF l
<1>2. NamesWell(i, l)
  BY <1>1, OffsetIsNamed
<1>3. QED
  BY <1>2 DEF l

LEMMA ListingIsNamed ==
  ASSUME RegFile, NEW i, Decoded(i), i.op \notin Blocks PROVE NamesWell(i, Listed(i))
<1>1. i.Rn \in Registers /\ i.Rm \in Registers /\ i.imm \in Nat /\ i.T \in 1 .. 4 /\ REG_PC \in Registers
  BY Named3 DEF Decoded
<1>2. CASE i.op \in {"ldr_reg", "ldrb_reg", "str_reg", "strb_reg"}
  <2>1. Listed(i) = ByRegister(i.Rn, i.Rm, i.imm)
    BY <1>2 DEF Listed, ListedLdr, ListedLdrb, ListedStr
  <2>2. i.imm \in 0 .. 3
    BY <1>2 DEF Decoded
  <2>3. QED
    BY <1>1, <2>1, <2>2, IndexIsNamed
<1>3. CASE (i.op \in {"ldr_imm", "str_imm"} /\ i.T \in {1, 2}) \/ i.op = "strd_imm"
  <2>1. Listed(i) = Offsetted(i.Rn, 4 * i.imm)
    BY <1>3 DEF Listed, ListedLdr, ListedStr, ListedStrd
  <2>2. 4 * i.imm \in Int
    BY <1>1
  <2>3. QED
    BY <1>1, <2>1, <2>2, OffsettedIsNamed
<1>4. CASE (i.op \in {"ldr_imm", "str_imm"} /\ i.T \in {3, 4}) \/ i.op \in {"ldrb_imm", "strb_imm"}
  <2>1. Listed(i) = ListedIndexed(i)
    BY <1>4 DEF Listed, ListedLdr, ListedLdrb, ListedStr
  <2>2. QED
    BY <1>1, <2>1, IndexedIsNamed
<1>5. CASE i.op \in {"ldrh_imm", "strh_imm"}
  <2> DEFINE x == (IF i.T = 1 THEN 2 ELSE 1) * i.imm
  <2>1. Listed(i) = Offsetted(i.Rn, x)
    BY <1>5 DEF Listed, ListedLdrh, ListedStr
  <2>2. x \in Int
    BY <1>1
  <2> HIDE DEF x
  <2>3. QED
    BY <1>1, <2>1, <2>2, OffsettedIsNamed
<1>6. CASE i.op = "ldr_lit"
  <2> DEFINE x == IF i.U THEN i.imm ELSE -i.imm
  <2>1. i.T = 1 \/ i.T = 2
    BY <1>6 DEF Decoded
  <2>2. Listed(i) = Offsetted(REG_PC, 4 * i.imm) \/ Listed(i) = Offsetted(REG_PC, x)
    BY <1>6, <2>1 DEF Listed, ListedLdr
  <2>3. 4 * i.imm \in Int /\ x \in Int
    BY <1>1
  <2> HIDE DEF x
  <2>4. QED
    BY <1>1, <2>2, <2>3, OffsettedIsNamed
<1>7. CASE i.op = "ldrd_imm"
  <2> DEFINE x == IF i.U THEN 4 * i.imm ELSE -4 * i.imm
             l == Listed(i)
  <2>1. l = IF i.P THEN Offsetted(i.Rn, x) ELSE PostIndexed(i.Rn, x)
    BY <1>7 DEF Listed, ListedLdrd
  <2>2. x \in Int
    BY <1>1
  <2> HIDE DEF x, l
  <2>3. l.base = i.Rn /\ l.offset = x /\ l.index = -1
    BY <2>1, Notations
  <2>4. NamesWell(i, l)
    BY <1>1, <2>2, <2>3, OffsetIsNamed
  <2>5. QED
    BY <2>4 DEF l
<1>8. QED
  BY <1>1, <1>2, <1>3, <1>4, <1>5, <1>6, <1>7 DEF Decoded, Loads, Stores, Blocks

LEMMA AccessIsAddress ==
  ASSUME NEW i, NEW l, NamesWell(i, l) PROVE Accessed(l) \in Address /\ Word(Named(l)) \in Address
<1>1. Base(l) \in Int /\ Named(l) \in Int
  BY DEF NamesWell
<1>2. Word(Base(l)) \in Address /\ Word(Named(l)) \in Address
  BY <1>1, WordIsAddress
<1>3. QED
  BY <1>2 DEF Accessed

LEMMA Widths == ASSUME NEW i PROVE Width(i) \in {1, 2, 4}
BY DEF Width

(* A single transfer that does what its listing says leaves addresses in the registers
   and bytes in memory; so the stack pointer is the one register it has to stay clear of. *)
LEMMA ListedSingleIsTyped ==
  ASSUME RegFile, mem \in Memories, NEW i, Decoded(i), i.op \notin Blocks, Lawful(i),
         REG_SP \notin {i.Rt, i.Rtx, i.Rn}
  PROVE  WellTyped(SingleAsListed(i, Listed(i))) /\ StackKept(SingleAsListed(i, Listed(i)))
<1> DEFINE l == Listed(i)
           a == Accessed(l)
           dual == i.op \in {"ldrd_imm", "strd_imm"}
           v1 == read_n(a, Width(i))
           v2 == read_n(Word(a + 4), 4)
           next == [r \in Registers |->
                      IF i.op \in Loads /\ r = i.Rt THEN v1
                      ELSE IF i.op \in Loads /\ dual /\ r = i.Rtx THEN v2
                      ELSE IF l.mode # "offset" /\ r = l.base THEN Word(Named(l))
                      ELSE reg[r]]
           first == write_n(mem, a, Width(i), reg[i.Rt])
           stored == IF i.op \in Loads THEN mem
                     ELSE IF dual THEN write_n(first, Word(a + 4), 4, reg[i.Rtx])
                     ELSE first
<1>1. SingleAsListed(i, l) = Outcome(next, stored, TRUE, Length(i))
  BY DEF SingleAsListed
<1>2. NamesWell(i, l)
  BY ListingIsNamed
<1>3. a + (IF dual THEN 8 ELSE Width(i)) <= AddrMod
  BY DEF Lawful, Start, Extent
<1>4. i.Rt \in Registers /\ i.Rtx \in Registers /\ i.Rn \in Registers
  BY DEF Decoded
<1>5. Width(i) \in {1, 2, 4} /\ (dual => Width(i) = 4)
  BY Widths DEF Width
<1> HIDE DEF l
<1>6. a \in Address /\ Word(Named(l)) \in Address
  BY <1>2, AccessIsAddress
<1>7. l.mode # "offset" => l.base = i.Rn
  BY <1>2 DEF NamesWell
<1> HIDE DEF a, dual
<1>8. a + Width(i) <= AddrMod /\ (dual => Word(a + 4) = a + 4 /\ a + 4 \in Address /\ (a + 4) + 4 <= AddrMod)
  <2>1. a \in Nat
    BY <1>6, AddrModAssumption DEF Address
  <2>2. dual => a + 4 \in Address /\ (a + 4) + 4 <= AddrMod
    BY <1>3, <2>1, AddrModAssumption DEF Address
  <2>3. dual => Word(a + 4) = a + 4
    BY <2>2, AddressIsWord
  <2>4. QED
    BY <1>3, <1>5, <2>1, <2>2, <2>3, AddrModAssumption
<1>9. v1 \in Address
  BY <1>5, <1>6, <1>8, ReadIsAddress
<1>10. dual => v2 \in Address
  <2> SUFFICES ASSUME dual PROVE v2 \in Address
    OBVIOUS
  <2> DEFINE c == a + 4
  <2>1. c \in Address /\ c + 4 <= AddrMod /\ Word(a + 4) = c
    BY <1>8
  <2> HIDE DEF c
  <2>2. read_n(c, 4) \in Address
    BY <2>1, ReadIsAddress
  <2>3. QED
    BY <2>1, <2>2
<1>11. IsRegFile(next) /\ next[REG_SP] = reg[REG_SP]
  <2>1. \A r \in Registers : reg[r] \in Address
    BY RegisterIsAddress
  <2> HIDE DEF v1, v2
  <2>2. \A r \in Registers : next[r] \in Address
    BY <1>6, <1>9, <1>10, <2>1
  <2>3. next[REG_SP] = reg[REG_SP]
    <3>1. REG_SP \in Registers /\ REG_SP # i.Rt /\ REG_SP # i.Rtx /\ REG_SP # i.Rn
      BY Named3
    <3>2. ~(l.mode # "offset" /\ REG_SP = l.base)
      BY <1>7, <3>1
    <3>3. QED
      BY <3>1, <3>2
  <2>4. next = [r \in Registers |-> next[r]]
    OBVIOUS
  <2> HIDE DEF next
  <2>5. QED
    BY <2>2, <2>3, <2>4 DEF IsRegFile
<1>12. stored \in Memories
  <2>1. reg[i.Rt] \in Int /\ reg[i.Rtx] \in Int
    BY <1>4, RegisterIsAddress
  <2>2. first \in Memories
    BY <1>5, <1>6, <2>1, WriteByte
  <2> HIDE DEF first
  <2>3. dual => write_n(first, Word(a + 4), 4, reg[i.Rtx]) \in Memories
    <3> SUFFICES ASSUME dual PROVE write_n(first, Word(a + 4), 4, reg[i.Rtx]) \in Memories
      OBVIOUS
    <3>1. Word(a + 4) \in Address
      BY <1>8
    <3>2. QED
      BY <2>1, <2>2, <3>1, WriteIsMemory
  <2>4. QED
    BY <2>2, <2>3
<1> HIDE DEF next, stored
<1>13. Length(i) \in Nat
  BY LengthIsNat
<1>14. WellTyped(Outcome(next, stored, TRUE, Length(i))) /\ Outcome(next, stored, TRUE, Length(i)).reg[REG_SP] = next[REG_SP]
  BY <1>11, <1>12, <1>13, AdvanceIsTyped
<1>15. QED
  BY <1>1, <1>11, <1>14 DEF StackKept, l

(* The handlers whose listing says something else. *)
LEMMA WritebackIsTyped ==
  ASSUME NEW r, IsRegFile(r), NEW i, i.Rn \in Registers, i.Rn # REG_SP, i.imm \in Nat, NEW scale \in Nat
  PROVE  IsRegFile(Writeback(r, i, scale)) /\ Writeback(r, i, scale)[REG_SP] = r[REG_SP]
<1> DEFINE x == r[i.Rn] + Offset(i, scale)
<1>1. REG_SP \in Registers
  BY Named3
<1>2. Word(x) \in Address
  <2>1. r[i.Rn] \in Int
    BY AddressIsInt DEF IsRegFile
  <2>2. scale * i.imm \in Int /\ (-scale) * i.imm \in Int
    OBVIOUS
  <2>3. Offset(i, scale) \in Int
    BY <2>2 DEF Offset
  <2>4. x \in Int
    BY <2>1, <2>3
  <2> HIDE DEF x
  <2>5. QED
    BY <2>4, WordIsAddress
<1>3. Writeback(r, i, scale) = IF i.W THEN [r EXCEPT ![i.Rn] = Word(x)] ELSE r
  BY DEF Writeback
<1> HIDE DEF x
<1>4. QED
  BY <1>1, <1>2, <1>3, Put

LEMMA LoadedIsTyped ==
  ASSUME NEW r, IsRegFile(r), mem \in Memories, NEW i, i.Rn \in Registers, i.Rn # REG_SP, i.imm \in Nat, NEW scale \in Nat,
         r[REG_SP] = reg[REG_SP], NEW length \in Nat
  PROVE  /\ WellTyped(Outcome(Writeback(r, i, scale), mem, TRUE, length))
         /\ StackKept(Outcome(Writeback(r, i, scale), mem, TRUE, length))
<1> DEFINE w == Writeback(r, i, scale)
<1>1. IsRegFile(w) /\ w[REG_SP] = reg[REG_SP]
  BY WritebackIsTyped
<1> HIDE DEF w
<1>2. WellTyped(Outcome(w, mem, TRUE, length)) /\ Outcome(w, mem, TRUE, length).reg[REG_SP] = w[REG_SP]
  BY <1>1, AdvanceIsTyped
<1>3. QED
  BY <1>1, <1>2 DEF StackKept, w

LEMMA StoredIsTyped ==
  ASSUME RegFile, NEW m \in Memories, NEW i, i.Rn \in Registers, i.Rn # REG_SP, i.imm \in Nat, NEW scale \in Nat,
         NEW length \in Nat
  PROVE  /\ WellTyped(Outcome(Writeback(reg, i, scale), m, TRUE, length))
         /\ StackKept(Outcome(Writeback(reg, i, scale), m, TRUE, length))
<1> DEFINE w == Writeback(reg, i, scale)
<1>1. IsRegFile(w) /\ w[REG_SP] = reg[REG_SP]
  <2>1. IsRegFile(reg)
    BY DEF RegFile, IsRegFile
  <2>2. QED
    BY <2>1, WritebackIsTyped
<1> HIDE DEF w
<1>2. WellTyped(Outcome(w, m, TRUE, length)) /\ Outcome(w, m, TRUE, length).reg[REG_SP] = w[REG_SP]
  BY <1>1, AdvanceIsTyped
<1>3. QED
  BY <1>1, <1>2 DEF StackKept, w

LEMMA IndexedIsInt ==
  ASSUME RegFile, NEW i, i.Rn \in Registers, i.imm \in Nat, NEW scale \in Nat
  PROVE  reg[i.Rn] + Indexed(i, scale) \in Int
<1>1. reg[i.Rn] \in Int
  BY RegisterIsAddress
<1>2. scale * i.imm \in Int /\ (-scale) * i.imm \in Int
  OBVIOUS
<1>3. Indexed(i, scale) \in Int
  BY <1>2 DEF Indexed, Offset
<1>4. QED
  BY <1>1, <1>3

LEMMA MisprintedLoad ==
  ASSUME RegFile, mem \in Memories, NEW i, Decoded(i), i.op = "ldrd_imm", i.P, i.W, Lawful(i),
         REG_SP \notin {i.Rt, i.Rtx, i.Rn}
  PROVE  WellTyped(Executed(i)) /\ StackKept(Executed(i))
<1> DEFINE l == Listed(i)
           x == IF i.U THEN 4 * i.imm ELSE -4 * i.imm
           target == reg[i.Rn] + Indexed(i, 4)
           a == Word(target)
           v1 == read_n(a, 4)
           v2 == read_n(Word(target + 4), 4)
           first == [reg EXCEPT ![i.Rt] = v1]
           both == [first EXCEPT ![i.Rtx] = v2]
<1>1. Executed(i) = Outcome(Writeback(both, i, 4), mem, TRUE, 4)
  BY DEF Executed, ldrd_imm
<1>2. /\ i.Rt \in Registers /\ i.Rtx \in Registers /\ i.Rn \in Registers /\ i.imm \in Nat
      /\ i.Rn # REG_PC /\ i.op \notin Blocks /\ REG_SP \in Registers
  BY Named3 DEF Decoded, Blocks
<1>3. target \in Int
  BY <1>2, IndexedIsInt
<1>4. Accessed(l) = a
  <2>1. l = Offsetted(i.Rn, x)
    BY DEF Listed, ListedLdrd
  <2>2. Indexed(i, 4) = x
    BY DEF Indexed, Offset
  <2> HIDE DEF l, x
  <2>3. QED
    BY <1>2, <2>1, <2>2, OffsettedNames
<1>5. a + 8 <= AddrMod
  BY <1>2, <1>4 DEF Lawful, Start, Extent
<1> HIDE DEF target
<1>6. a \in Address
  BY <1>3, WordIsAddress
<1>7. Word(target + 4) = Word(a + 4)
  BY <1>3, WordSum
<1> HIDE DEF a
<1>8. a + 4 \in Address /\ (a + 4) + 4 <= AddrMod /\ a + 4 <= AddrMod
  BY <1>5, <1>6, AddrModAssumption DEF Address
<1>9. v1 \in Address
  BY <1>6, <1>8, ReadIsAddress
<1>10. v2 \in Address
  <2> DEFINE c == a + 4
  <2>1. Word(c) = c /\ c \in Address /\ c + 4 <= AddrMod
    BY <1>8, AddressIsWord
  <2> HIDE DEF c
  <2>2. read_n(c, 4) \in Address
    BY <2>1, ReadIsAddress
  <2>3. QED
    BY <1>7, <2>1, <2>2 DEF c
<1> HIDE DEF v1, v2
<1>11. IsRegFile(reg)
  BY DEF RegFile, IsRegFile
<1>12. IsRegFile(first) /\ first[REG_SP] = reg[REG_SP]
  BY <1>2, <1>9, <1>11, Put
<1> HIDE DEF first
<1>13. IsRegFile(both) /\ both[REG_SP] = reg[REG_SP]
  BY <1>2, <1>10, <1>12, Put
<1> HIDE DEF both
<1>14. i.Rn # REG_SP
  OBVIOUS
<1>15. QED
  BY <1>1, <1>2, <1>13, <1>14, LoadedIsTyped

LEMMA MisprintedStore ==
  ASSUME RegFile, mem \in Memories, NEW i, Decoded(i), i.op = "strd_imm", i.Rn # REG_SP
  PROVE  WellTyped(Executed(i)) /\ StackKept(Executed(i))
<1> DEFINE target == reg[i.Rn] + Indexed(i, 4)
           first == write_n(mem, Word(target), 4, reg[i.Rt])
           both == write_n(first, Word(target + 4), 4, reg[i.Rtx])
<1>1. Executed(i) = Outcome(Writeback(reg, i, 4), both, TRUE, 4)
  BY DEF Executed, strd_imm
<1>2. i.Rt \in Registers /\ i.Rtx \in Registers /\ i.Rn \in Registers /\ i.imm \in Nat
  BY DEF Decoded
<1>3. target \in Int
  BY <1>2, IndexedIsInt
<1> HIDE DEF target
<1>4. Word(target) \in Address /\ Word(target + 4) \in Address
  BY <1>3, WordIsAddress
<1>5. reg[i.Rt] \in Int /\ reg[i.Rtx] \in Int
  BY <1>2, RegisterIsAddress
<1>6. first \in Memories
  BY <1>4, <1>5, WriteIsMemory
<1> HIDE DEF first
<1>7. both \in Memories
  BY <1>4, <1>5, <1>6, WriteIsMemory
<1> HIDE DEF both
<1>8. QED
  BY <1>1, <1>2, <1>7, StoredIsTyped

LEMMA BytesByRegister ==
  ASSUME RegFile, mem \in Memories, NEW i, Decoded(i), i.op = "ldrb_reg" \/ i.op = "strb_reg",
         REG_SP \notin {i.Rt, i.Rn}
  PROVE  WellTyped(Executed(i)) /\ StackKept(Executed(i))
<1>1. /\ i.Rt \in Registers /\ i.Rn \in Registers /\ i.Rm \in Registers /\ i.imm \in 0 .. 3 /\ i.imm \in Nat
      /\ REG_SP \in Registers /\ i.Rn # REG_SP
  BY Named3 DEF Decoded
<1>2. reg[i.Rn] \in Int /\ reg[i.Rm] \in Int /\ reg[i.Rt] \in Int /\ Length(i) \in Nat
  BY <1>1, RegisterIsAddress, LengthIsNat
<1>3. CASE i.op = "ldrb_reg"
  <2> DEFINE a == Word(reg[i.Rn] + reg[i.Rm])
             p == 2 ^ i.imm
             v == Word(read_n(a, 1) * p)
             r == [reg EXCEPT ![i.Rt] = v]
  <2>1. Executed(i) = Outcome(r, mem, TRUE, Length(i))
    BY <1>3 DEF Executed, ldrb_reg
  <2>2. p \in Nat
    BY <1>1, Shifts
  <2> HIDE DEF p
  <2>3. reg[i.Rn] + reg[i.Rm] \in Int
    BY <1>2
  <2>4. a \in Address
    BY <2>3, WordIsAddress
  <2> HIDE DEF a
  <2>5. a + 1 <= AddrMod
    BY <2>4, AddrModAssumption DEF Address
  <2>6. read_n(a, 1) \in Int
    BY <2>4, <2>5, ReadIsAddress, AddressIsInt
  <2>7. read_n(a, 1) * p \in Int
    BY <2>2, <2>6
  <2>8. v \in Address
    BY <2>7, WordIsAddress
  <2> HIDE DEF v
  <2>9. IsRegFile(reg)
    BY DEF RegFile, IsRegFile
  <2>10. IsRegFile(r) /\ r[REG_SP] = reg[REG_SP]
    BY <1>1, <2>8, <2>9, Put
  <2> HIDE DEF r
  <2>11. WellTyped(Outcome(r, mem, TRUE, Length(i))) /\ Outcome(r, mem, TRUE, Length(i)).reg[REG_SP] = r[REG_SP]
    BY <1>2, <2>10, AdvanceIsTyped
  <2>12. QED
    BY <2>1, <2>10, <2>11 DEF StackKept
<1>4. CASE i.op = "strb_reg"
  <2> DEFINE target == reg[i.Rn] + reg[i.Rm] + i.imm
             m == write_n(mem, Word(target), 1, reg[i.Rt])
  <2>1. Executed(i) = Outcome(Writeback(reg, i, 1), m, TRUE, Length(i))
    BY <1>4 DEF Executed, strb_reg, Store
  <2>2. target \in Int
    BY <1>1, <1>2
  <2> HIDE DEF target
  <2>3. Word(target) \in Address
    BY <2>2, WordIsAddress
  <2>4. m \in Memories
    BY <1>2, <2>3, WriteByte
  <2> HIDE DEF m
  <2>5. QED
    BY <1>1, <1>2, <2>1, <2>4, StoredIsTyped
<1>5. QED
  BY <1>3, <1>4

LEMMA BeyondIsAddress ==
  ASSUME RegFile, NEW l, l.base \in Registers, l.list \in SUBSET Registers, l.down \in BOOLEAN
  PROVE  Beyond(l) \in Address
<1> DEFINE base == l.base
           list == l.list
           up == ~l.down
<1>1. base \in Registers /\ list \in SUBSET Registers /\ up \in BOOLEAN /\ 16 \in 0 .. 16
  OBVIOUS
<1>2. Beyond(l) = addresses(base, list, up)[16]
  BY BeyondWord
<1> HIDE DEF base, list, up
<1>3. addresses(base, list, up)[16] \in Address
  BY <1>1, AddressesAreAddresses
<1>4. QED
  BY <1>2, <1>3

(* Where a block transfer leaves the stack pointer that is not in its list. *)
StackBy(after, l, writeback) ==
  after.reg[REG_SP] = IF writeback /\ l.base = REG_SP THEN Beyond(l) ELSE reg[REG_SP]

HasRoom(l) == \A r \in l.list : Slot(l, r) \in Address /\ Slot(l, r) + 4 <= AddrMod

LEMMA LoadedRegisters ==
  ASSUME RegFile, mem \in Memories, NEW l, HasRoom(l)
  PROVE  /\ IsRegFile(LoadedAsListed(l))
         /\ \A r \in Registers : LoadedAsListed(l)[r] = IF r \in l.list THEN LoadedInto(r, read_n(Slot(l, r), 4)) ELSE reg[r]
<1> DEFINE loaded == LoadedAsListed(l)
<1>1. \A r \in Registers : reg[r] \in Address
  BY RegisterIsAddress
<1>2. \A r \in l.list : LoadedInto(r, read_n(Slot(l, r), 4)) \in Address
  <2> SUFFICES ASSUME NEW r \in l.list PROVE LoadedInto(r, read_n(Slot(l, r), 4)) \in Address
    OBVIOUS
  <2> DEFINE a == Slot(l, r)
             v == read_n(a, 4)
  <2>1. a \in Address /\ a + 4 <= AddrMod
    BY DEF HasRoom
  <2> HIDE DEF a
  <2>2. v \in Address
    BY <2>1, ReadIsAddress
  <2> HIDE DEF v
  <2>3. Even(v) \in Address
    BY <2>2, EvenIsAddress
  <2>4. QED
    BY <2>2, <2>3 DEF LoadedInto, v, a
<1>3. \A r \in Registers : loaded[r] = IF r \in l.list THEN LoadedInto(r, read_n(Slot(l, r), 4)) ELSE reg[r]
  BY DEF LoadedAsListed
<1>4. loaded = [r \in Registers |-> loaded[r]]
  BY DEF LoadedAsListed
<1> HIDE DEF loaded
<1>5. \A r \in Registers : loaded[r] \in Address
  BY <1>1, <1>2, <1>3
<1>6. IsRegFile(loaded)
  BY <1>4, <1>5 DEF IsRegFile
<1>7. QED
  BY <1>3, <1>6 DEF loaded

LEMMA BlockLoadIsTyped ==
  ASSUME RegFile, mem \in Memories, NEW l, l.base \in Registers, l.list \in SUBSET Registers, l.down = FALSE,
         HasRoom(l), REG_SP \notin l.list, NEW writeback \in BOOLEAN, NEW length \in Nat
  PROVE  /\ WellTyped(loadRegisters(l.base, l.list, writeback, length))
         /\ StackBy(loadRegisters(l.base, l.list, writeback, length), l, writeback)
<1> DEFINE loaded == LoadedAsListed(l)
           next == IF writeback THEN [loaded EXCEPT ![l.base] = Beyond(l)] ELSE loaded
           on == REG_PC \notin l.list
<1>1. loadRegisters(l.base, l.list, writeback, length) = Outcome(next, mem, on, length)
  BY LoadBlock
<1>2. REG_SP \in Registers
  BY Named3
<1>3. IsRegFile(loaded) /\ loaded[REG_SP] = reg[REG_SP]
  BY <1>2, LoadedRegisters
<1>4. Beyond(l) \in Address
  BY BeyondIsAddress
<1> HIDE DEF loaded
<1>5. IsRegFile(next) /\ next[REG_SP] = IF writeback /\ l.base = REG_SP THEN Beyond(l) ELSE reg[REG_SP]
  BY <1>2, <1>3, <1>4, Put
<1>6. on \in BOOLEAN
  OBVIOUS
<1> HIDE DEF next, on
<1>7. WellTyped(Outcome(next, mem, on, length)) /\ Outcome(next, mem, on, length).reg[REG_SP] = next[REG_SP]
  BY <1>5, <1>6, OutcomeIsTyped
<1>8. QED
  BY <1>1, <1>5, <1>7 DEF StackBy

LEMMA BlockStoreIsTyped ==
  ASSUME RegFile, mem \in Memories, NEW l, l.base \in Registers, l.list \in SUBSET Registers, l.down \in BOOLEAN,
         NEW writeback \in BOOLEAN, NEW length \in Nat
  PROVE  /\ WellTyped(storeRegisters(l.base, l.list, ~l.down, writeback, length))
         /\ StackBy(storeRegisters(l.base, l.list, ~l.down, writeback, length), l, writeback)
<1>1. PICK after : StoresBy(after, l.base, l.list, ~l.down, writeback, length)
  <2> DEFINE up == ~l.down
             base == l.base
             list == l.list
  <2>1. up \in BOOLEAN /\ base \in Registers /\ list \in SUBSET Registers
    OBVIOUS
  <2> HIDE DEF up, base, list
  <2>2. \E after : StoresBy(after, base, list, up, writeback, length)
    BY <2>1, StoreRounds
  <2>3. QED
    BY <2>2 DEF up, base, list
<1> DEFINE next == IF writeback THEN [reg EXCEPT ![l.base] = Beyond(l)] ELSE reg
           m == after[16]
<1>2. storeRegisters(l.base, l.list, ~l.down, writeback, length) = Outcome(next, m, TRUE, length)
  <2>1. Beyond(l) = addresses(l.base, l.list, ~l.down)[16]
    BY BeyondWord
  <2>2. QED
    BY <1>1, <2>1 DEF StoresBy
<1>3. m \in Memories
  BY <1>1 DEF StoresBy
<1>4. REG_SP \in Registers /\ IsRegFile(reg) /\ Beyond(l) \in Address
  BY Named3, BeyondIsAddress DEF RegFile, IsRegFile
<1>5. IsRegFile(next) /\ next[REG_SP] = IF writeback /\ l.base = REG_SP THEN Beyond(l) ELSE reg[REG_SP]
  BY <1>4, Put
<1> HIDE DEF next, m
<1>6. WellTyped(Outcome(next, m, TRUE, length)) /\ Outcome(next, m, TRUE, length).reg[REG_SP] = next[REG_SP]
  <2>1. IsRegFile(next)
    BY <1>5
  <2>2. QED
    BY <1>3, <2>1, AdvanceIsTyped
<1>7. QED
  BY <1>2, <1>5, <1>6 DEF StackBy

(* The operands of what a procedure begins and ends with. *)
LEMMA PushOperands ==
  ASSUME NEW i \in Pushes, NEW l, l = Listed(i)
  PROVE  /\ l.base = REG_SP /\ l.base \in Registers /\ l.list \in SUBSET Registers /\ l.list = i.register_list
         /\ l.down = TRUE
         /\ Executed(i) = storeRegisters(l.base, l.list, ~l.down, TRUE, Length(i))
<1>1. Decoded(i) /\ (i.op = "push" \/ (i.op = "stmdb" /\ i.Rn = REG_SP /\ i.W))
  BY ProceduresAssumption
<1>2. i.op \in Blocks /\ ~Misprinted(i)
  BY <1>1 DEF Blocks, Misprinted
<1>3. /\ l.base = REG_SP /\ l.base \in Registers /\ l.list \in SUBSET Registers /\ l.list = i.register_list
      /\ l.down = TRUE
  BY <1>1, <1>2, BlockOperands
<1>4. l.update = TRUE
  BY <1>1, <1>2, ListedBlock
<1>5. Executed(i) = storeRegisters(l.base, l.list, ~l.down, TRUE, Length(i))
  <2>1. i.op \notin {"ldm", "pop"}
    BY <1>1
  <2>2. Executed(i) = IF i.op \in {"ldm", "pop"} THEN loadRegisters(l.base, l.list, l.update, Length(i))
                      ELSE storeRegisters(l.base, l.list, ~l.down, l.update, Length(i))
    BY <1>1, <1>2, BlockHandlers
  <2>3. QED
    BY <1>4, <2>1, <2>2
<1>6. QED
  BY <1>3, <1>5

LEMMA PopOperands ==
  ASSUME NEW i \in Pops, NEW l, l = Listed(i)
  PROVE  /\ l.base = REG_SP /\ l.base \in Registers /\ l.list \in SUBSET Registers /\ l.list = i.register_list
         /\ l.down = FALSE /\ REG_SP \notin l.list
         /\ Executed(i) = loadRegisters(l.base, l.list, TRUE, Length(i))
<1>1. Decoded(i) /\ (i.op = "pop" \/ (i.op = "ldm" /\ i.T = 2 /\ i.Rn = REG_SP /\ i.W)) /\ REG_SP \notin i.register_list
  BY ProceduresAssumption
<1>2. i.op \in Blocks /\ ~Misprinted(i)
  BY <1>1 DEF Blocks, Misprinted
<1>3. /\ l.base = REG_SP /\ l.base \in Registers /\ l.list \in SUBSET Registers /\ l.list = i.register_list
      /\ l.down = FALSE /\ REG_SP \notin l.list
  <2>1. (i.op \in {"push", "stmdb"}) = FALSE
    BY <1>1
  <2>2. /\ l.base \in Registers /\ l.list \in SUBSET Registers /\ l.list = i.register_list
        /\ l.base = IF i.op \in {"push", "pop"} THEN REG_SP ELSE i.Rn
        /\ l.down = (i.op \in {"push", "stmdb"})
    BY <1>1, <1>2, BlockOperands
  <2>3. QED
    BY <1>1, <2>1, <2>2
<1>4. l.update = TRUE
  <2>1. CASE i.op = "pop"
    BY <2>1 DEF Listed, ListedStack, RegList
  <2>2. CASE i.op = "ldm" /\ i.T = 2 /\ i.W
    <3> DEFINE u == IF i.T = 1 THEN i.Rn \notin i.register_list ELSE i.W
    <3>1. u = TRUE
      BY <1>1, <2>2 DEF Decoded
    <3>2. l = RegList(i.Rn, i.register_list, FALSE, u)
      BY <2>2 DEF Listed, ListedLdm
    <3> HIDE DEF u
    <3>3. l.update = u
      BY <3>2 DEF RegList
    <3>4. QED
      BY <3>1, <3>3
  <2>3. QED
    BY <1>1, <2>1, <2>2
<1>5. Executed(i) = loadRegisters(l.base, l.list, TRUE, Length(i))
  <2>1. i.op \in {"ldm", "pop"}
    BY <1>1
  <2>2. Executed(i) = IF i.op \in {"ldm", "pop"} THEN loadRegisters(l.base, l.list, l.update, Length(i))
                      ELSE storeRegisters(l.base, l.list, ~l.down, l.update, Length(i))
    BY <1>1, <1>2, BlockHandlers
  <2>3. QED
    BY <1>4, <2>1, <2>2
<1>6. QED
  BY <1>3, <1>5

LEMMA PushIsTyped ==
  ASSUME RegFile, mem \in Memories, reg[REG_SP] % 4 = 0, NEW i \in Pushes
  PROVE  WellTyped(Executed(i)) /\ Executed(i).reg[REG_SP] % 4 = 0
<1> DEFINE l == Listed(i)
<1>1. /\ l.base = REG_SP /\ l.base \in Registers /\ l.list \in SUBSET Registers /\ l.down \in BOOLEAN
      /\ Executed(i) = storeRegisters(l.base, l.list, ~l.down, TRUE, Length(i))
  BY PushOperands
<1>2. Length(i) \in Nat
  BY LengthIsNat
<1> HIDE DEF l
<1>3. /\ WellTyped(storeRegisters(l.base, l.list, ~l.down, TRUE, Length(i)))
      /\ StackBy(storeRegisters(l.base, l.list, ~l.down, TRUE, Length(i)), l, TRUE)
  BY <1>1, <1>2, BlockStoreIsTyped
<1>4. Beyond(l) % 4 = 0
  <2>1. reg[l.base] % 4 = 0
    BY <1>1
  <2>2. QED
    BY <1>1, <2>1, SlotsAligned
<1>5. QED
  BY <1>1, <1>3, <1>4 DEF StackBy

LEMMA PopIsTyped ==
  ASSUME RegFile, mem \in Memories, reg[REG_SP] % 4 = 0, NEW i \in Pops
  PROVE  WellTyped(Executed(i)) /\ Executed(i).reg[REG_SP] % 4 = 0
<1> DEFINE l == Listed(i)
<1>1. /\ l.base = REG_SP /\ l.base \in Registers /\ l.list \in SUBSET Registers /\ l.down = FALSE
      /\ REG_SP \notin l.list
      /\ Executed(i) = loadRegisters(l.base, l.list, TRUE, Length(i))
  BY PopOperands
<1>2. Length(i) \in Nat
  BY LengthIsNat
<1> HIDE DEF l
<1>3. HasRoom(l) /\ Beyond(l) % 4 = 0
  <2>1. l.down \in BOOLEAN /\ reg[l.base] % 4 = 0
    BY <1>1
  <2>2. QED
    BY <1>1, <2>1, SlotsAligned DEF HasRoom
<1>4. /\ WellTyped(loadRegisters(l.base, l.list, TRUE, Length(i)))
      /\ StackBy(loadRegisters(l.base, l.list, TRUE, Length(i)), l, TRUE)
  BY <1>1, <1>2, <1>3, BlockLoadIsTyped
<1>5. QED
  BY <1>1, <1>3, <1>4 DEF StackBy

LEMMA DataBlockIsTyped ==
  ASSUME RegFile, mem \in Memories, NEW i, Decoded(i), i.op \in {"ldm", "stm", "stmdb"}, Lawful(i),
         REG_SP \notin i.register_list, REG_SP # i.Rn
  PROVE  WellTyped(Executed(i)) /\ StackKept(Executed(i))
<1> DEFINE l == Listed(i)
<1>1. i.op \in Blocks /\ Length(i) \in Nat
  BY LengthIsNat DEF Blocks
<1>2. /\ l.base = i.Rn /\ l.base \in Registers /\ l.list \in SUBSET Registers
      /\ l.list = i.register_list /\ l.down = (i.op = "stmdb")
      /\ Length(i) = IF i.T = 1 /\ i.op # "stmdb" THEN 2 ELSE 4
  BY <1>1, BlockOperands
<1>3. i.W \in BOOLEAN
  BY DEF Decoded
<1>4. InMemory(l)
  BY <1>1, <1>2 DEF Lawful, Start, Extent, InMemory
<1> HIDE DEF l
<1>5. CASE i.op = "ldm"
  <2> DEFINE w == IF i.T = 1 THEN i.Rn \notin i.register_list ELSE i.W
  <2>1. Executed(i) = loadRegisters(l.base, l.list, w, Length(i))
    BY <1>2, <1>5 DEF Executed, ldm
  <2>2. w \in BOOLEAN /\ l.down = FALSE /\ l.down \in BOOLEAN
    BY <1>2, <1>3, <1>5
  <2> HIDE DEF w
  <2>3. HasRoom(l)
    BY <1>2, <1>4, <2>2, SlotsApart DEF HasRoom
  <2>4. REG_SP \notin l.list
    BY <1>2
  <2>5. /\ WellTyped(loadRegisters(l.base, l.list, w, Length(i)))
        /\ StackBy(loadRegisters(l.base, l.list, w, Length(i)), l, w)
    BY <1>1, <1>2, <2>2, <2>3, <2>4, BlockLoadIsTyped
  <2>6. QED
    BY <1>2, <2>1, <2>5 DEF StackBy, StackKept
<1>6. CASE i.op \in {"stm", "stmdb"}
  <2> DEFINE w == IF i.op = "stm" THEN i.T = 1 \/ i.W ELSE i.W
  <2>1. Executed(i) = storeRegisters(l.base, l.list, ~l.down, w, Length(i))
    <3>1. CASE i.op = "stm"
      <4>1. (~l.down) = TRUE
        BY <1>2, <3>1
      <4>2. QED
        BY <1>2, <3>1, <4>1 DEF Executed, stm
    <3>2. CASE i.op = "stmdb"
      <4>1. (~l.down) = FALSE
        BY <1>2, <3>2
      <4>2. QED
        BY <1>2, <3>2, <4>1 DEF Executed, stmdb
    <3>3. QED
      BY <1>6, <3>1, <3>2
  <2>2. w \in BOOLEAN /\ l.down \in BOOLEAN
    BY <1>2, <1>3
  <2> HIDE DEF w
  <2>3. /\ WellTyped(storeRegisters(l.base, l.list, ~l.down, w, Length(i)))
        /\ StackBy(storeRegisters(l.base, l.list, ~l.down, w, Length(i)), l, w)
    BY <1>1, <1>2, <2>2, BlockStoreIsTyped
  <2>4. QED
    BY <1>2, <2>1, <2>3 DEF StackBy, StackKept
<1>7. QED
  BY <1>5, <1>6

LEMMA DataIsTyped ==
  ASSUME RegFile, mem \in Memories, NEW i \in DataInsns, Lawful(i)
  PROVE  WellTyped(Executed(i)) /\ StackKept(Executed(i))
<1>1. /\ Decoded(i) /\ i.op \notin {"push", "pop"} /\ REG_SP \notin i.register_list
      /\ REG_SP # i.Rn /\ REG_SP # i.Rt /\ REG_SP # i.Rtx
  BY ProceduresAssumption
<1>2. CASE i.op \in Blocks
  <2>1. i.op \in {"ldm", "stm", "stmdb"}
    BY <1>1, <1>2 DEF Blocks
  <2>2. QED
    BY <1>1, <2>1, DataBlockIsTyped
<1>3. CASE i.op \notin Blocks /\ (Misprinted(i) \/ ByteByRegister(i))
  <2>1. \/ i.op = "ldrd_imm" /\ i.P /\ i.W
        \/ i.op = "strd_imm"
        \/ i.op = "ldrb_reg" \/ i.op = "strb_reg"
    BY <1>3 DEF Misprinted, ByteByRegister, Blocks
  <2>2. QED
    BY <1>1, <2>1, MisprintedLoad, MisprintedStore, BytesByRegister
<1>4. CASE i.op \notin Blocks /\ ~Misprinted(i) /\ ~ByteByRegister(i)
  <2>1. Executed(i) = AsListed(i)
    BY <1>1, <1>4, EveryAccessAsListed
  <2>2. AsListed(i) = SingleAsListed(i, Listed(i))
    BY <1>4, SingleIsListed
  <2>3. WellTyped(SingleAsListed(i, Listed(i))) /\ StackKept(SingleAsListed(i, Listed(i)))
    BY <1>1, <1>4, ListedSingleIsTyped
  <2>4. QED
    BY <2>1, <2>2, <2>3
<1>5. QED
  BY <1>2, <1>3, <1>4

------------------------------------------------------------------------------
(* The steps between the transfers. *)
Sound(after) == WellTyped(after) /\ after.reg[REG_SP] % 4 = 0

LEMMA KeptIsSound ==
  ASSUME reg[REG_SP] % 4 = 0, NEW r, IsRegFile(r), r[REG_SP] = reg[REG_SP], mem \in Memories,
         NEW advance_pc \in BOOLEAN, NEW length \in Nat
  PROVE  Sound(Outcome(r, mem, advance_pc, length))
<1>1. /\ WellTyped(Outcome(r, mem, advance_pc, length))
      /\ Outcome(r, mem, advance_pc, length).reg[REG_SP] = r[REG_SP]
  BY OutcomeIsTyped
<1>2. QED
  BY <1>1 DEF Sound

LEMMA BranchIsSound ==
  ASSUME RegFile, mem \in Memories, reg[REG_SP] % 4 = 0,
         NEW i, i.imm \in Int, i.Rm \in Registers, i.op = "b" \/ i.op = "bl" \/ i.op = "bx"
  PROVE  Sound(Executed(i))
<1> DEFINE pc == Word(reg[REG_PC] + 2 * i.imm + 4)
           lr == Even(Word(reg[REG_PC] + 4)) + 1
<1>1. REG_SP \in Registers /\ REG_LR \in Registers /\ REG_PC \in Registers /\ REG_SP # REG_LR /\ REG_SP # REG_PC
  BY Named3
<1>2. IsRegFile(reg)
  BY DEF RegFile, IsRegFile
<1>3. pc \in Address
  <2>1. reg[REG_PC] + 2 * i.imm + 4 \in Int
    BY <1>1, RegisterIsAddress
  <2>2. QED
    BY <2>1, WordIsAddress
<1>4. lr \in Address
  <2> DEFINE v == Word(reg[REG_PC] + 4)
  <2>1. reg[REG_PC] + 4 \in Int
    BY <1>1, RegisterIsAddress
  <2>2. v \in Address
    BY <2>1, WordIsAddress
  <2> HIDE DEF v
  <2>3. Even(v) \in Address /\ Even(v) % 2 = 0
    BY <2>2, EvenIsAddress
  <2>4. Even(v) + 1 \in Address
    BY <2>3, ProceduresAssumption, AddrModAssumption DEF Address
  <2>5. QED
    BY <2>4 DEF v
<1>5. CASE i.op = "b"
  <2> DEFINE r == [reg EXCEPT ![REG_PC] = pc]
  <2>1. Executed(i) = Outcome(r, mem, FALSE, 4)
    BY <1>5 DEF Executed, b
  <2> HIDE DEF pc
  <2>2. IsRegFile(r) /\ r[REG_SP] = reg[REG_SP]
    BY <1>1, <1>2, <1>3, Put
  <2> HIDE DEF r
  <2>3. Sound(Outcome(r, mem, FALSE, 4))
    BY <2>2, KeptIsSound
  <2>4. QED
    BY <2>1, <2>3
<1>6. CASE i.op = "bl"
  <2> DEFINE linked == [reg EXCEPT ![REG_LR] = lr]
             r == [linked EXCEPT ![REG_PC] = pc]
  <2>1. Executed(i) = Outcome(r, mem, FALSE, 4)
    <3>1. linked[REG_PC] = reg[REG_PC]
      BY <1>1, <1>2 DEF IsRegFile, REG_LR, REG_PC
    <3>2. bl(i) = Outcome(r, mem, FALSE, 4)
      BY <3>1 DEF bl
    <3>3. QED
      BY <1>6, <3>2 DEF Executed
  <2> HIDE DEF pc, lr
  <2>2. IsRegFile(linked) /\ linked[REG_SP] = reg[REG_SP]
    BY <1>1, <1>2, <1>4, Put
  <2> HIDE DEF linked
  <2>3. IsRegFile(r) /\ r[REG_SP] = reg[REG_SP]
    BY <1>1, <1>3, <2>2, Put
  <2> HIDE DEF r
  <2>4. Sound(Outcome(r, mem, FALSE, 4))
    BY <2>3, KeptIsSound
  <2>5. QED
    BY <2>1, <2>4
<1>7. CASE i.op = "bx"
  <2> DEFINE v == Even(reg[i.Rm])
             r == [reg EXCEPT ![REG_PC] = v]
  <2>1. Executed(i) = Outcome(r, mem, FALSE, 2)
    BY <1>7 DEF Executed, bx
  <2>2. v \in Address
    BY RegisterIsAddress, EvenIsAddress
  <2> HIDE DEF v
  <2>3. IsRegFile(r) /\ r[REG_SP] = reg[REG_SP]
    BY <1>1, <1>2, <2>2, Put
  <2> HIDE DEF r
  <2>4. Sound(Outcome(r, mem, FALSE, 2))
    BY <2>3, KeptIsSound
  <2>5. QED
    BY <2>1, <2>4
<1>8. QED
  BY <1>5, <1>6, <1>7

LEMMA MoveIsSound ==
  ASSUME RegFile, mem \in Memories, reg[REG_SP] % 4 = 0,
         NEW i, i.op = "mov_imm", i.imm \in Address, i.Rt \in Registers, i.Rt # REG_SP
  PROVE  Sound(Executed(i))
<1> DEFINE r == [reg EXCEPT ![i.Rt] = i.imm]
<1>1. Executed(i) = Outcome(r, mem, TRUE, Length(i))
  BY DEF Executed, mov_imm
<1>2. IsRegFile(reg) /\ REG_SP \in Registers
  BY Named3 DEF RegFile, IsRegFile
<1>3. IsRegFile(r) /\ r[REG_SP] = reg[REG_SP]
  BY <1>2, Put
<1> HIDE DEF r
<1>4. Length(i) \in Nat
  BY LengthIsNat
<1>5. Sound(Outcome(r, mem, TRUE, Length(i)))
  BY <1>3, <1>4, KeptIsSound
<1>6. QED
  BY <1>1, <1>5

LEMMA StackStepIsSound ==
  ASSUME RegFile, mem \in Memories, reg[REG_SP] % 4 = 0,
         NEW i, i.op = "add_SP" \/ i.op = "sub_SP", i.imm \in Nat
  PROVE  Sound(Executed(i))
<1> DEFINE c == IF i.op = "add_SP" THEN i.imm ELSE -i.imm
           v == Word(reg[REG_SP] + 4 * c)
           r == [reg EXCEPT ![REG_SP] = v]
<1>1. reg[REG_SP] \in Int /\ REG_SP \in Registers /\ IsRegFile(reg) /\ c \in Int
  BY Named3, RegisterIsAddress DEF RegFile, IsRegFile
<1>2. Executed(i) = Outcome(r, mem, TRUE, 2)
  <2>1. CASE i.op = "add_SP"
    BY <2>1 DEF Executed, add_SP
  <2>2. CASE i.op = "sub_SP"
    <3>1. reg[REG_SP] + 4 * c = reg[REG_SP] - 4 * i.imm
      BY <1>1, <2>2
    <3>2. sub_SP(i) = Outcome(r, mem, TRUE, 2)
      BY <3>1 DEF sub_SP
    <3>3. QED
      BY <2>2, <3>2 DEF Executed
  <2>3. QED
    BY <2>1, <2>2
<1> HIDE DEF c
<1>3. v \in Address /\ v % 4 = 0
  <2>1. reg[REG_SP] + 4 * c \in Int
    BY <1>1
  <2>2. QED
    BY <1>1, <2>1, WordIsAddress, AlignedSteps
<1> HIDE DEF v
<1>4. IsRegFile(r) /\ r[REG_SP] = v
  BY <1>1, <1>3, Put
<1> HIDE DEF r
<1>5. WellTyped(Outcome(r, mem, TRUE, 2)) /\ Outcome(r, mem, TRUE, 2).reg[REG_SP] = r[REG_SP]
  <2>1. IsRegFile(r) /\ 2 \in Nat
    BY <1>4
  <2>2. QED
    BY <2>1, AdvanceIsTyped
<1>6. QED
  BY <1>2, <1>3, <1>4, <1>5 DEF Sound

(* The local word at the stack pointer, which is on a word of its own. *)
LEMMA LocalIsSound ==
  ASSUME RegFile, mem \in Memories, reg[REG_SP] % 4 = 0,
         NEW i, i.op = "ldr_imm" \/ i.op = "str_imm", i.T = 2, i.imm = 0, i.W = FALSE, i.Rn = REG_SP,
         i.Rt \in Registers, i.Rt # REG_SP
  PROVE  Sound(Executed(i))
<1> DEFINE a == reg[REG_SP]
<1>1. REG_SP \in Registers /\ IsRegFile(reg) /\ a \in Address /\ reg[i.Rt] \in Int
  BY Named3, RegisterIsAddress DEF RegFile, IsRegFile
<1>2. Word(reg[i.Rn] + 4 * i.imm) = a
  <2>1. reg[i.Rn] + 4 * i.imm = a
    BY <1>1, AddressIsInt
  <2>2. QED
    BY <1>1, <2>1, AddressIsWord
<1>3. Length(i) \in Nat
  BY LengthIsNat
<1> HIDE DEF a
<1>4. CASE i.op = "ldr_imm"
  <2> DEFINE v == read_n(a, 4)
             r == [reg EXCEPT ![i.Rt] = v]
  <2>1. Executed(i) = Outcome(r, mem, TRUE, Length(i))
    BY <1>2, <1>4 DEF Executed, ldr_imm, Load, Writeback
  <2>2. a + 4 <= AddrMod
    BY <1>1, AlignedHasRoom DEF a
  <2>3. v \in Address
    BY <1>1, <2>2, ReadIsAddress
  <2> HIDE DEF v
  <2>4. IsRegFile(r) /\ r[REG_SP] = reg[REG_SP]
    BY <1>1, <2>3, Put
  <2> HIDE DEF r
  <2>5. Sound(Outcome(r, mem, TRUE, Length(i)))
    BY <1>3, <2>4, KeptIsSound
  <2>6. QED
    BY <2>1, <2>5
<1>5. CASE i.op = "str_imm"
  <2> DEFINE m == write_n(mem, a, 4, reg[i.Rt])
  <2>1. Executed(i) = Outcome(reg, m, TRUE, Length(i))
    BY <1>2, <1>5 DEF Executed, str_imm, Store, Writeback
  <2>2. m \in Memories
    BY <1>1, WriteIsMemory
  <2> HIDE DEF m
  <2>3. WellTyped(Outcome(reg, m, TRUE, Length(i))) /\ Outcome(reg, m, TRUE, Length(i)).reg[REG_SP] = reg[REG_SP]
    BY <1>1, <1>3, <2>2, AdvanceIsTyped
  <2>4. QED
    BY <2>1, <2>3 DEF Sound
<1>6. QED
  BY <1>4, <1>5

------------------------------------------------------------------------------
(* The invariant: the types, with the buffers that are there, and a stack pointer
   that is on a word.  Without it a pop at the top of the address space would be
   granted a slice that does not have its bytes. *)
MachineInv == RegFile /\ mem \in Memories /\ reg[REG_SP] % 4 = 0
FramesInv ==
  /\ frames \in Seq(Frame) /\ Len(frames) <= MaxDepth
  /\ fits \in BOOLEAN /\ left \in 0 .. MaxData
IInv == MachineInv /\ FramesInv

LEMMA ExecutedIsKept ==
  ASSUME NEW i, Execute(i), Sound(Executed(i)) PROVE MachineInv'
<1>1. reg' = Executed(i).reg /\ mem' = Executed(i).mem
  BY DEF Execute
<1>2. reg' \in [Registers -> Address] /\ mem' \in Memories /\ reg'[REG_SP] % 4 = 0
  BY <1>1 DEF Sound, WellTyped, IsRegFile
<1>3. QED
  BY <1>2 DEF MachineInv, RegFile

LEMMA DoIsKept ==
  ASSUME fits \in BOOLEAN, NEW i, Do(i), Sound(Executed(i)) PROVE MachineInv' /\ fits' \in BOOLEAN
<1>1. Execute(i) /\ fits' \in BOOLEAN
  BY DEF Do
<1>2. QED
  BY <1>1, ExecutedIsKept

LEMMA FramesIInit == ASSUME frames = <<>>, fits = TRUE, left = MaxData PROVE FramesInv
<1>1. Len(frames) = 0 /\ frames \in Seq(Frame)
  OBVIOUS
<1>2. QED
  BY <1>1, ProceduresAssumption DEF FramesInv

LEMMA CurrentIsFrame ==
  ASSUME FramesInv, ~Main
  PROVE  /\ Current \in Frame /\ Callers \in Seq(Frame) /\ Len(Callers) + 1 = Len(frames)
         /\ \A f \in Frame : Append(Callers, f) \in Seq(Frame) /\ Len(Append(Callers, f)) = Len(frames)
<1>1. frames \in Seq(Frame) /\ frames # <<>>
  BY DEF FramesInv, Main
<1>2. Len(frames) \in Nat /\ Len(frames) >= 1 /\ Current \in Frame
  BY <1>1 DEF Current
<1>3. Callers \in Seq(Frame) /\ Len(Callers) = Len(frames) - 1
  <2> DEFINE n == Len(frames) - 1
  <2>1. n \in 0 .. Len(frames)
    BY <1>2
  <2> HIDE DEF n
  <2>2. SubSeq(frames, 1, n) \in Seq(Frame) /\ Len(SubSeq(frames, 1, n)) = n
    BY <1>1, <2>1
  <2>3. QED
    BY <2>2 DEF Callers, n
<1>4. QED
  BY <1>2, <1>3

(* A frame that is changed is a frame. *)
LEMMA FrameUpdates ==
  ASSUME NEW f \in Frame
  PROVE  /\ \A p \in SUBSET Registers : [f EXCEPT !.pushed = p] \in Frame
         /\ \A n \in {0, 1} : [f EXCEPT !.locals = n] \in Frame
BY DEF Frame

LEMMA FramesKept ==
  ASSUME FramesInv, ~Main, fits' \in BOOLEAN, left' \in 0 .. MaxData,
         NEW f \in Frame, frames' = Append(Callers, f)
  PROVE  FramesInv'
<1>1. frames' \in Seq(Frame) /\ Len(frames') <= MaxDepth
  BY CurrentIsFrame DEF FramesInv
<1>2. QED
  BY <1>1 DEF FramesInv

LEMMA PlainFields ==
  /\ Plain.T = 1 /\ Plain.Rt = 0 /\ Plain.Rn = 0 /\ Plain.Rm = 1 /\ Plain.imm = 0 /\ Plain.W = FALSE
  /\ 0 \in Registers /\ 1 \in Registers /\ 4 \in Registers /\ 4 # REG_SP
BY ProceduresAssumption DEF Plain, REG_SP

LEMMA InitIsKept == Init => IInv
<1> SUFFICES ASSUME Init PROVE IInv
  OBVIOUS
<1>1. StackTop \in Address /\ Pointer \in Address /\ 0 \in Address /\ AddrMod - 1 \in Address
  BY ProceduresAssumption, AddrModAssumption DEF Address
<1>2. REG_SP # REG_LR /\ REG_SP \in Registers
  BY Named3
<1>3. RegFile
  BY <1>1 DEF Init, RegFile
<1>4. reg[REG_SP] % 4 = 0
  <2>1. reg[REG_SP] = StackTop
    BY <1>2 DEF Init, REG_SP, REG_LR
  <2>2. QED
    BY <2>1, ProceduresAssumption
<1>5. mem \in Memories
  <2>1. DOMAIN mem = DOMAIN Machine /\ mem = [s \in DOMAIN Machine |-> mem[s]]
    BY DEF Init
  <2>2. ASSUME NEW s \in DOMAIN Machine PROVE mem[s] \in Buffer(s)
    <3>1. \A k \in 0 .. SliceLength(Machine[s]) - 1 : k % Radix \in 0 .. Radix - 1 /\ 0 \in 0 .. Radix - 1
      BY RadixAssumption
    <3>2. mem[s] = [k \in 0 .. SliceLength(Machine[s]) - 1 |->
                      IF Machine[s].read_only \/ Machine[s].begin + k \in Globals THEN k % Radix ELSE 0]
      BY DEF Init
    <3>3. QED
      BY <3>1, <3>2 DEF Buffer
  <2>3. QED
    BY <2>1, <2>2 DEF Memories
<1>6. FramesInv
  BY FramesIInit DEF Init
<1>7. QED
  BY <1>3, <1>4, <1>5, <1>6 DEF IInv, MachineInv

LEMMA CallIsKept == IInv /\ Call => IInv'
<1> SUFFICES ASSUME IInv, Call PROVE IInv'
  OBVIOUS
<1> DEFINE n == -((reg[REG_PC] + 4) \div 2)
           i == [Plain EXCEPT !.op = "bl", !.imm = n]
           f == [sp |-> reg[REG_SP], pushed |-> {}, locals |-> 0]
<1>1. Do(i) /\ Len(frames) < MaxDepth /\ frames' = Append(frames, f) /\ left' = left
  BY DEF Call
<1>2. MachineInv /\ FramesInv /\ reg[REG_SP] \in Address /\ n \in Int
  BY Named3, RegisterIsAddress DEF IInv, MachineInv
<1> HIDE DEF n
<1>3. i.op = "bl" /\ i.imm \in Int /\ i.Rm \in Registers
  BY <1>2, PlainFields DEF Plain
<1> HIDE DEF i
<1>4. Sound(Executed(i))
  BY <1>2, <1>3, BranchIsSound DEF MachineInv
<1>5. MachineInv' /\ fits' \in BOOLEAN
  BY <1>1, <1>2, <1>4, DoIsKept DEF FramesInv
<1>6. f \in Frame
  BY <1>2 DEF Frame
<1> HIDE DEF f
<1>7. frames' \in Seq(Frame) /\ Len(frames') <= MaxDepth
  BY <1>1, <1>2, <1>6, ProceduresAssumption DEF FramesInv
<1>8. QED
  BY <1>1, <1>2, <1>5, <1>7 DEF IInv, FramesInv

LEMMA EnterIsKept == ASSUME NEW i \in Pushes, IInv, Enter(i) PROVE IInv'
<1> DEFINE f == [Current EXCEPT !.pushed = i.register_list]
<1>1. ~Main /\ Do(i) /\ frames' = Append(Callers, f) /\ left' = left
  BY DEF Enter
<1>2. MachineInv /\ FramesInv
  BY DEF IInv
<1>3. Sound(Executed(i))
  BY <1>2, PushIsTyped DEF MachineInv, Sound
<1>4. MachineInv' /\ fits' \in BOOLEAN
  BY <1>1, <1>2, <1>3, DoIsKept DEF FramesInv
<1>5. f \in Frame
  <2>1. i.register_list \in SUBSET Registers
    BY ProceduresAssumption DEF Decoded
  <2>2. QED
    BY <1>1, <1>2, <2>1, CurrentIsFrame, FrameUpdates
<1> HIDE DEF f
<1>6. left' \in 0 .. MaxData
  BY <1>1, <1>2 DEF FramesInv
<1>7. QED
  BY <1>1, <1>2, <1>4, <1>5, <1>6, FramesKept DEF IInv

LEMMA OpenLocalIsKept == IInv /\ OpenLocal => IInv'
<1> SUFFICES ASSUME IInv, OpenLocal PROVE IInv'
  OBVIOUS
<1> DEFINE i == [Plain EXCEPT !.op = "sub_SP", !.imm = 1]
           f == [Current EXCEPT !.locals = 1]
<1>1. ~Main /\ Do(i) /\ frames' = Append(Callers, f) /\ left' = left
  BY DEF OpenLocal
<1>2. MachineInv /\ FramesInv
  BY DEF IInv
<1>3. i.op = "sub_SP" /\ i.imm \in Nat
  BY DEF Plain
<1> HIDE DEF i
<1>4. Sound(Executed(i))
  BY <1>2, <1>3, StackStepIsSound DEF MachineInv
<1>5. MachineInv' /\ fits' \in BOOLEAN
  BY <1>1, <1>2, <1>4, DoIsKept DEF FramesInv
<1>6. f \in Frame
  BY <1>1, <1>2, CurrentIsFrame, FrameUpdates
<1> HIDE DEF f
<1>7. left' \in 0 .. MaxData
  BY <1>1, <1>2 DEF FramesInv
<1>8. QED
  BY <1>1, <1>2, <1>5, <1>6, <1>7, FramesKept DEF IInv

LEMMA CloseLocalIsKept == IInv /\ CloseLocal => IInv'
<1> SUFFICES ASSUME IInv, CloseLocal PROVE IInv'
  OBVIOUS
<1> DEFINE i == [Plain EXCEPT !.op = "add_SP", !.imm = 1]
           f == [Current EXCEPT !.locals = 0]
<1>1. ~Main /\ Do(i) /\ frames' = Append(Callers, f) /\ left' = left
  BY DEF CloseLocal
<1>2. MachineInv /\ FramesInv
  BY DEF IInv
<1>3. i.op = "add_SP" /\ i.imm \in Nat
  BY DEF Plain
<1> HIDE DEF i
<1>4. Sound(Executed(i))
  BY <1>2, <1>3, StackStepIsSound DEF MachineInv
<1>5. MachineInv' /\ fits' \in BOOLEAN
  BY <1>1, <1>2, <1>4, DoIsKept DEF FramesInv
<1>6. f \in Frame
  BY <1>1, <1>2, CurrentIsFrame, FrameUpdates
<1> HIDE DEF f
<1>7. left' \in 0 .. MaxData
  BY <1>1, <1>2 DEF FramesInv
<1>8. QED
  BY <1>1, <1>2, <1>5, <1>6, <1>7, FramesKept DEF IInv

LEMMA LocalAccessIsKept == IInv /\ (SetLocal \/ GetLocal) => IInv'
<1> SUFFICES ASSUME IInv, SetLocal \/ GetLocal PROVE IInv'
  OBVIOUS
<1>1. PICK op \in {"ldr_imm", "str_imm"} : Do([Plain EXCEPT !.op = op, !.T = 2, !.Rt = 4, !.Rn = REG_SP])
  BY DEF SetLocal, GetLocal
<1> DEFINE i == [Plain EXCEPT !.op = op, !.T = 2, !.Rt = 4, !.Rn = REG_SP]
<1>2. frames' = frames /\ left' = left
  BY DEF SetLocal, GetLocal
<1>3. MachineInv /\ FramesInv
  BY DEF IInv
<1>4. /\ i.op = "ldr_imm" \/ i.op = "str_imm"
      /\ i.T = 2 /\ i.imm = 0 /\ i.W = FALSE /\ i.Rn = REG_SP /\ i.Rt \in Registers /\ i.Rt # REG_SP
  BY PlainFields DEF Plain
<1>5. Do(i)
  BY <1>1
<1> HIDE DEF i
<1>6. Sound(Executed(i))
  BY <1>3, <1>4, LocalIsSound DEF MachineInv
<1>7. MachineInv' /\ fits' \in BOOLEAN
  BY <1>3, <1>5, <1>6, DoIsKept DEF FramesInv
<1>8. QED
  BY <1>2, <1>3, <1>7 DEF IInv, FramesInv

LEMMA PopIsKept == ASSUME NEW i \in Pops, IInv, Leave(i) \/ Restore(i) PROVE IInv'
<1> DEFINE f == [Current EXCEPT !.pushed = {}]
<1>1. ~Main /\ Do(i) /\ left' = left /\ (frames' = Callers \/ frames' = Append(Callers, f))
  BY DEF Leave, Restore
<1>2. MachineInv /\ FramesInv
  BY DEF IInv
<1>3. Sound(Executed(i))
  BY <1>2, PopIsTyped DEF MachineInv, Sound
<1>4. MachineInv' /\ fits' \in BOOLEAN
  BY <1>1, <1>2, <1>3, DoIsKept DEF FramesInv
<1>5. f \in Frame
  BY <1>1, <1>2, CurrentIsFrame, FrameUpdates
<1> HIDE DEF f
<1>6. left' \in 0 .. MaxData
  BY <1>1, <1>2 DEF FramesInv
<1>7. frames' \in Seq(Frame) /\ Len(frames') <= MaxDepth
  <2>1. Callers \in Seq(Frame) /\ Len(Callers) + 1 = Len(frames) /\ Len(frames) \in Nat /\ Len(frames) <= MaxDepth
    BY <1>1, <1>2, CurrentIsFrame DEF FramesInv
  <2>2. Append(Callers, f) \in Seq(Frame) /\ Len(Append(Callers, f)) = Len(frames)
    BY <1>1, <1>2, <1>5, CurrentIsFrame
  <2>3. Len(Callers) <= MaxDepth
    BY <2>1, ProceduresAssumption
  <2>4. QED
    BY <1>1, <2>1, <2>2, <2>3
<1>8. QED
  BY <1>4, <1>6, <1>7 DEF IInv, FramesInv

LEMMA BackIsKept == IInv /\ Back => IInv'
<1> SUFFICES ASSUME IInv, Back PROVE IInv'
  OBVIOUS
<1> DEFINE i == [Plain EXCEPT !.op = "bx", !.Rm = REG_LR]
<1>1. ~Main /\ Do(i) /\ left' = left /\ frames' = Callers
  BY DEF Back
<1>2. MachineInv /\ FramesInv
  BY DEF IInv
<1>3. i.op = "bx" /\ i.imm \in Int /\ i.Rm \in Registers
  BY Named3, PlainFields DEF Plain
<1> HIDE DEF i
<1>4. Sound(Executed(i))
  BY <1>2, <1>3, BranchIsSound DEF MachineInv
<1>5. MachineInv' /\ fits' \in BOOLEAN
  BY <1>1, <1>2, <1>4, DoIsKept DEF FramesInv
<1>6. Callers \in Seq(Frame) /\ Len(Callers) <= MaxDepth
  <2>1. Callers \in Seq(Frame) /\ Len(Callers) + 1 = Len(frames) /\ Len(frames) \in Nat /\ Len(frames) <= MaxDepth
    BY <1>1, <1>2, CurrentIsFrame DEF FramesInv
  <2>2. QED
    BY <2>1, ProceduresAssumption
<1>7. QED
  BY <1>1, <1>2, <1>5, <1>6 DEF IInv, FramesInv

LEMMA DataIsKept == ASSUME NEW i \in DataInsns, IInv, Data(i) PROVE IInv'
<1>1. left > 0 /\ Lawful(i) /\ Do(i) /\ left' = left - 1 /\ frames' = frames
  BY DEF Data
<1>2. MachineInv /\ FramesInv
  BY DEF IInv
<1>3. WellTyped(Executed(i)) /\ StackKept(Executed(i))
  BY <1>1, <1>2, DataIsTyped DEF MachineInv
<1>4. Sound(Executed(i))
  BY <1>2, <1>3 DEF MachineInv, StackKept, Sound
<1>5. MachineInv' /\ fits' \in BOOLEAN
  BY <1>1, <1>2, <1>4, DoIsKept DEF FramesInv
<1>6. left' \in 0 .. MaxData
  BY <1>1, <1>2, ProceduresAssumption DEF FramesInv
<1>7. QED
  BY <1>1, <1>2, <1>5, <1>6 DEF IInv, FramesInv

LEMMA MoveIsKept == ASSUME NEW v \in Values, IInv, Move(v) PROVE IInv'
<1> DEFINE i == [Plain EXCEPT !.op = "mov_imm", !.Rt = 4, !.imm = v]
<1>1. Do(i) /\ left' = left /\ frames' = frames
  BY DEF Move
<1>2. MachineInv /\ FramesInv
  BY DEF IInv
<1>3. i.op = "mov_imm" /\ i.imm \in Address /\ i.Rt \in Registers /\ i.Rt # REG_SP
  BY PlainFields, ProceduresAssumption DEF Plain
<1> HIDE DEF i
<1>4. Sound(Executed(i))
  BY <1>2, <1>3, MoveIsSound DEF MachineInv
<1>5. MachineInv' /\ fits' \in BOOLEAN
  BY <1>1, <1>2, <1>4, DoIsKept DEF FramesInv
<1>6. QED
  BY <1>1, <1>2, <1>5 DEF IInv, FramesInv

LEMMA LoopIsKept == IInv /\ Loop => IInv'
<1> SUFFICES ASSUME IInv, Loop PROVE IInv'
  OBVIOUS
<1> DEFINE n == -((reg[REG_PC] + 4) \div 2)
           i == [Plain EXCEPT !.op = "b", !.imm = n]
<1>1. Execute(i) /\ left' = left /\ frames' = frames /\ fits' = fits
  BY DEF Loop
<1>2. MachineInv /\ FramesInv /\ n \in Int
  BY Named3, RegisterIsAddress DEF IInv, MachineInv
<1> HIDE DEF n
<1>3. i.op = "b" /\ i.imm \in Int /\ i.Rm \in Registers
  BY <1>2, PlainFields DEF Plain
<1> HIDE DEF i
<1>4. Sound(Executed(i))
  BY <1>2, <1>3, BranchIsSound DEF MachineInv
<1>5. MachineInv'
  BY <1>1, <1>4, ExecutedIsKept
<1>6. QED
  BY <1>1, <1>2, <1>5 DEF IInv, FramesInv

LEMMA StepIsKept == IInv /\ [Next]_vars => IInv'
<1> SUFFICES ASSUME IInv, [Next]_vars PROVE IInv'
  OBVIOUS
<1>1. CASE Call
  BY <1>1, CallIsKept
<1>2. CASE OpenLocal
  BY <1>2, OpenLocalIsKept
<1>3. CASE CloseLocal
  BY <1>3, CloseLocalIsKept
<1>4. CASE SetLocal \/ GetLocal
  BY <1>4, LocalAccessIsKept
<1>5. CASE Back
  BY <1>5, BackIsKept
<1>6. CASE Loop
  BY <1>6, LoopIsKept
<1>7. CASE \E i \in Pushes : Enter(i)
  BY <1>7, EnterIsKept
<1>8. CASE \E i \in Pops : Leave(i) \/ Restore(i)
  BY <1>8, PopIsKept
<1>9. CASE \E i \in DataInsns : Data(i)
  BY <1>9, DataIsKept
<1>10. CASE \E v \in Values : Move(v)
  BY <1>10, MoveIsKept
<1>11. CASE UNCHANGED vars
  BY <1>11 DEF vars, transfer_vars, IInv, MachineInv, RegFile, FramesInv
<1>12. QED
  BY <1>1, <1>2, <1>3, <1>4, <1>5, <1>6, <1>7, <1>8, <1>9, <1>10, <1>11 DEF Next

LEMMA IInvIsInvariant == Spec => []IInv
<1>1. QED
  BY InitIsKept, StepIsKept, PTL DEF Spec

(* In every state of compiled code, on any machine and with any lists of loads and stores,
   the registers are words, and the buffer behind every slice keeps its length and
   holds bytes: what impl_emulation.c loads is made of bytes that are there, what it
   stores stays in the buffer, and what it pops into the pc or adds to a base is cut to
   32 bits again. *)
THEOREM TypeCorrect == Spec => []TypeOK
<1>1. IInv => TypeOK
  BY DEF IInv, MachineInv, RegFile, FramesInv, TypeOK, Memories, Buffer
<1>2. QED
  BY <1>1, IInvIsInvariant, PTL

(* In every state, every lawful load and store does what its line in the disassembly
   says: in particular the sixteen rounds of storeRegisters and loadRegisters transfer
   each register to or from the slot its number gives it. *)
THEOREM LoadsAndStoresAreAsListed == Spec => []AccessesAsListed
<1>1. IInv => AccessesAsListed
  <2> SUFFICES ASSUME IInv, NEW i \in Insns \cup Pushes \cup Pops,
                      Lawful(i), ~Misprinted(i), ~ByteByRegister(i)
               PROVE  Executed(i) = AsListed(i)
    BY DEF AccessesAsListed
  <2>1. Decoded(i)
    BY ProceduresAssumption
  <2>2. QED
    BY <2>1, EveryAccessAsListed DEF IInv, MachineInv
<1>2. QED
  BY <1>1, IInvIsInvariant, PTL
================================================================================

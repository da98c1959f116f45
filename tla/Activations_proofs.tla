-------------------------- MODULE Activations_proofs --------------------------
(* Proofs that Procedures implements Activations: for any machine, any code
   and any nesting of calls, the stack that pushes and pops leave in memory is
   the stack of contexts a compiler relies on. *)
EXTENDS Procedures_proofs

------------------------------------------------------------------------------
(* A word in memory.  WordIn, and every operator below that has a memory or a
   register file as an argument, speaks of the next state as well. *)
WordIn(m, a) ==
  LET s == getslice(Machine, a, 4)
  IN IF s = 0 THEN 0 ELSE ValueOf([k \in 0 .. 4 - 1 |-> m[s][SliceOffset(Machine[s], a) + k]], 4)

LEMMA ReadIsWord == ASSUME NEW a PROVE read_n(a, 4) = WordIn(mem, a)
BY DEF read_n, WordIn

(* Words of the stack are in the RAM above the global data. *)
StackWord(a) == Roomy(a) /\ a % 4 = 0 /\ a < StackTop

LEMMA StackWordFits ==
  ASSUME NEW a, StackWord(a)
  PROVE  /\ a \in Address /\ a \in Int /\ a + 4 <= AddrMod
         /\ getslice(Machine, a, 4) \in DOMAIN Machine /\ getslice(Machine, a, 4) # 0
         /\ ~Machine[getslice(Machine, a, 4)].read_only
<1>1. a \in Address /\ a \in Int /\ a + 4 <= AddrMod
  BY AlignedHasRoom, AddrModAssumption DEF StackWord, Roomy, Address
<1>2. IsRam(a)
  BY CallsAssumption DEF StackWord, Roomy
<1>3. getslice(Machine, a, 4) # 0 /\ ~Machine[getslice(Machine, a, 4)].read_only
  BY <1>2 DEF IsRam
<1>4. getslice(Machine, a, 4) \in DOMAIN Machine
  BY <1>3, Granted
<1>5. QED
  BY <1>1, <1>3, <1>4

(* The bytes of the word at a, slice by slice: the same in two memories, or
   those of a value. *)
SameBytes(m1, m2, a) ==
  \A s \in DOMAIN Machine : \A k \in 0 .. SliceLength(Machine[s]) - 1 :
    Machine[s].begin + k - a \in 0 .. 3 => m2[s][k] = m1[s][k]

HoldsBytes(m, a, v) ==
  \A k \in 0 .. SliceLength(Machine[getslice(Machine, a, 4)]) - 1 :
    Machine[getslice(Machine, a, 4)].begin + k - a \in 0 .. 3
      => m[getslice(Machine, a, 4)][k] = ByteOf(v, Machine[getslice(Machine, a, 4)].begin + k - a)

LEMMA WordInBuffer ==
  ASSUME NEW a, StackWord(a), NEW s, s = getslice(Machine, a, 4), NEW k \in 0 .. 3
  PROVE  LET o == SliceOffset(Machine[s], a) + k
         IN o \in 0 .. SliceLength(Machine[s]) - 1 /\ Machine[s].begin + o - a = k
<1>1. a \in Address /\ a \in Int /\ a + 4 <= AddrMod /\ s \in DOMAIN Machine /\ s # 0
  BY StackWordFits
<1>2. k \in 0 .. 4 - 1
  OBVIOUS
<1>3. SliceOffset(Machine[s], a) + k \in 0 .. SliceLength(Machine[s]) - 1
  BY <1>1, <1>2, InBuffer
<1>4. Machine[s].begin \in Address /\ Machine[s].begin \in Int
  BY <1>1, MachineAssumption, AddrModAssumption DEF Address
<1>5. Machine[s].begin + (SliceOffset(Machine[s], a) + k) - a = k
  BY <1>1, <1>4 DEF SliceOffset
<1>6. QED
  BY <1>3, <1>5

LEMMA SameWord ==
  ASSUME NEW m1, NEW m2, NEW a, StackWord(a), SameBytes(m1, m2, a) PROVE WordIn(m2, a) = WordIn(m1, a)
<1> DEFINE s == getslice(Machine, a, 4)
           o(k) == SliceOffset(Machine[s], a) + k
<1>1. s \in DOMAIN Machine
  BY StackWordFits
<1>2. ASSUME NEW k \in 0 .. 3 PROVE m2[s][o(k)] = m1[s][o(k)]
  <2>1. o(k) \in 0 .. SliceLength(Machine[s]) - 1 /\ Machine[s].begin + o(k) - a = k
    BY WordInBuffer
  <2> HIDE DEF s, o
  <2>2. Machine[s].begin + o(k) - a \in 0 .. 3
    BY <2>1
  <2>3. QED
    BY <1>1, <2>1, <2>2 DEF SameBytes
<1>3. [k \in 0 .. 4 - 1 |-> m2[s][o(k)]] = [k \in 0 .. 4 - 1 |-> m1[s][o(k)]]
  BY <1>2
<1>4. QED
  BY <1>3 DEF WordIn

------------------------------------------------------------------------------
(* Reading back a value from its bytes. *)
LEMMA UniqueQuotient ==
  ASSUME NEW M \in Nat \ {0}, NEW k \in Int, NEW s \in 0 .. M - 1, NEW m \in Int, NEW t \in 0 .. M - 1,
         M * k + s = M * m + t
  PROVE  k = m
<1>1. s = t
  BY OneQuotient
<1>2. M * (k - m) = 0
  BY <1>1
<1>3. QED
  BY <1>2

(* Taking off one digit after the other. *)
LEMMA DivisionTwice ==
  ASSUME NEW v \in Int, NEW M \in Nat \ {0} PROVE (v \div M) \div Radix = v \div (M * Radix)
<1> DEFINE q == v \div M
           r == v % M
           h == q \div Radix
           d == q % Radix
           N == M * Radix
           Q == v \div N
           R == v % N
<1>1. Radix \in Nat \ {0} /\ N \in Nat \ {0}
  BY RadixAssumption
<1>2. q \in Int /\ r \in 0 .. M - 1 /\ v = M * q + r
  BY DivMod
<1> HIDE DEF q, r
<1>3. h \in Int /\ d \in 0 .. Radix - 1 /\ q = Radix * h + d
  BY <1>1, <1>2, DivMod
<1> HIDE DEF h, d, N
<1>4. Q \in Int /\ R \in 0 .. N - 1 /\ v = N * Q + R
  BY <1>1, DivMod
<1> HIDE DEF Q, R
<1>5. v = N * h + (M * d + r)
  <2>1. M * q = M * (Radix * h) + M * d
    BY <1>1, <1>3
  <2>2. M * (Radix * h) = N * h
    BY <1>1, <1>3 DEF N
  <2>3. N * h \in Int /\ M * d \in Int
    BY <1>1, <1>3
  <2>4. QED
    BY <1>2, <2>1, <2>2, <2>3
<1>6. M * d + r \in 0 .. N - 1
  <2>1. M * d <= M * (Radix - 1)
    <3>1. M * (Radix - 1 - d) >= 0
      BY <1>1, <1>3
    <3>2. M * (Radix - 1 - d) = M * (Radix - 1) - M * d
      BY <1>1, <1>3
    <3>3. QED
      BY <1>1, <1>3, <3>1, <3>2
  <2>2. M * (Radix - 1) = N - M
    BY <1>1 DEF N
  <2>3. M * d \in Nat
    BY <1>1, <1>3
  <2>4. QED
    BY <1>1, <1>2, <2>1, <2>2, <2>3
<1>7. N * h + (M * d + r) = N * Q + R
  BY <1>4, <1>5
<1>8. h = Q
  <2> DEFINE t == M * d + r
  <2>1. t \in 0 .. N - 1 /\ N * h + t = N * Q + R
    BY <1>6, <1>7
  <2> HIDE DEF t
  <2>2. QED
    BY <1>1, <1>3, <1>4, <2>1, UniqueQuotient
<1>9. QED
  BY <1>8 DEF h, q, Q, N

LEMMA FourBytes ==
  ASSUME NEW v \in Address PROVE ValueOf([k \in 0 .. 4 - 1 |-> ByteOf(v, k)], 4) = v
<1> DEFINE R2 == Radix * Radix
           R3 == Radix * Radix * Radix
           q1 == v \div Radix
           q2 == v \div R2
           q3 == v \div R3
           byte == [k \in 0 .. 4 - 1 |-> ByteOf(v, k)]
<1>1. /\ Radix \in Nat \ {0} /\ R2 \in Nat \ {0} /\ R3 \in Nat \ {0} /\ R3 = R2 * Radix /\ v \in Int
      /\ AddrMod = R3 * Radix
  <2>1. \A x, y \in Nat \ {0} : x * y \in Nat \ {0}
    OBVIOUS
  <2>2. Radix \in Nat \ {0} /\ R2 \in Nat \ {0}
    BY <2>1, RadixAssumption
  <2>3. R3 \in Nat \ {0} /\ R3 = R2 * Radix
    BY <2>1, <2>2
  <2>4. QED
    BY <2>2, <2>3, RadixAssumption, AddrModAssumption DEF Address
<1>2. byte[0] = v % Radix /\ byte[1] = q1 % Radix /\ byte[2] = q2 % Radix /\ byte[3] = q3 % Radix
  <2>1. byte[0] = (v \div 1) % Radix
    BY DEF ByteOf
  <2>2. byte[1] = q1 % Radix
    BY DEF ByteOf
  <2>3. byte[2] = q2 % Radix
    BY DEF ByteOf
  <2>4. byte[3] = q3 % Radix
    BY DEF ByteOf
  <2>5. v \div 1 = v
    BY <1>1
  <2>6. QED
    BY <2>1, <2>2, <2>3, <2>4, <2>5
<1>3. q2 = q1 \div Radix /\ q3 = q2 \div Radix
  <2>1. (v \div Radix) \div Radix = v \div (Radix * Radix)
    BY <1>1, DivisionTwice
  <2>2. (v \div R2) \div Radix = v \div (R2 * Radix)
    <3> HIDE DEF R2
    <3>1. QED
      BY <1>1, DivisionTwice
  <2>3. QED
    BY <1>1, <2>1, <2>2
<1>4. ValueOf(byte, 4) = ((byte[3] * Radix + byte[2]) * Radix + byte[1]) * Radix + byte[0]
  BY DEF ValueOf
<1>5. q3 % Radix = q3
  <2>1. q3 \in Int /\ v % R3 \in 0 .. R3 - 1 /\ v = R3 * q3 + (v % R3)
    <3> HIDE DEF R3
    <3>1. QED
      BY <1>1, DivMod
  <2>2. v \in 0 .. R3 * Radix - 1
    BY <1>1 DEF Address
  <2> HIDE DEF q3, R3
  <2>3. q3 >= 0
    <3>1. ~(q3 <= -1)
      <4>1. q3 <= -1 => R3 * q3 <= -R3
        <5>1. q3 <= -1 => R3 * (-1 - q3) >= 0
          BY <1>1, <2>1
        <5>2. R3 * (-1 - q3) = -R3 - R3 * q3
          BY <1>1, <2>1
        <5>3. R3 * q3 \in Int
          BY <1>1, <2>1
        <5>4. QED
          BY <1>1, <2>1, <5>1, <5>2, <5>3
      <4>2. R3 * q3 \in Int
        BY <1>1, <2>1
      <4>3. QED
        BY <1>1, <2>1, <2>2, <4>1, <4>2
    <3>2. QED
      BY <2>1, <3>1
  <2>4. q3 < Radix
    <3>1. q3 >= Radix => R3 * q3 >= R3 * Radix
      <4>1. q3 >= Radix => R3 * (q3 - Radix) >= 0
        BY <1>1, <2>1
      <4>2. R3 * (q3 - Radix) = R3 * q3 - R3 * Radix
        BY <1>1, <2>1
      <4>3. R3 * q3 \in Int /\ R3 * Radix \in Int
        BY <1>1, <2>1
      <4>4. QED
        BY <1>1, <4>1, <4>2, <4>3
    <3>2. R3 * q3 \in Int /\ R3 * Radix \in Int
      BY <1>1, <2>1
    <3>3. QED
      BY <1>1, <2>1, <2>2, <3>1, <3>2
  <2>5. QED
    BY <1>1, <2>1, <2>3, <2>4
<1>6. v = Radix * q1 + (v % Radix) /\ q1 \in Int /\ v % Radix \in Int
  BY <1>1, DivMod
<1>7. q1 = Radix * q2 + (q1 % Radix) /\ q2 \in Int /\ q1 % Radix \in Int
  <2> HIDE DEF q1
  <2>1. q1 = Radix * (q1 \div Radix) + (q1 % Radix) /\ q1 \div Radix \in Int /\ q1 % Radix \in Int
    BY <1>1, <1>6, DivMod
  <2>2. QED
    BY <1>3, <2>1
<1>8. q2 = Radix * q3 + (q2 % Radix) /\ q3 \in Int /\ q2 % Radix \in Int
  <2> HIDE DEF q2
  <2>1. q2 = Radix * (q2 \div Radix) + (q2 % Radix) /\ q2 \div Radix \in Int /\ q2 % Radix \in Int
    BY <1>1, <1>7, DivMod
  <2>2. QED
    BY <1>3, <2>1
<1> HIDE DEF q1, q2, q3, byte
<1>9. byte[3] * Radix + byte[2] = q2
  BY <1>1, <1>2, <1>5, <1>8
<1>10. q2 * Radix + byte[1] = q1
  BY <1>1, <1>2, <1>7
<1>11. q1 * Radix + byte[0] = v
  BY <1>1, <1>2, <1>6
<1>12. ValueOf(byte, 4) = v
  BY <1>4, <1>9, <1>10, <1>11
<1>13. QED
  BY <1>12 DEF byte

LEMMA WordReadBack ==
  ASSUME NEW m, NEW a, StackWord(a), NEW v \in Address, HoldsBytes(m, a, v) PROVE WordIn(m, a) = v
<1> DEFINE s == getslice(Machine, a, 4)
           o(k) == SliceOffset(Machine[s], a) + k
<1>1. s # 0
  BY StackWordFits
<1>2. ASSUME NEW k \in 0 .. 3 PROVE m[s][o(k)] = ByteOf(v, k)
  <2>1. o(k) \in 0 .. SliceLength(Machine[s]) - 1 /\ Machine[s].begin + o(k) - a = k
    BY WordInBuffer
  <2>2. Machine[s].begin + o(k) - a \in 0 .. 3
    BY <2>1
  <2> HIDE DEF o
  <2>3. m[s][o(k)] = ByteOf(v, Machine[s].begin + o(k) - a)
    BY <2>1, <2>2 DEF HoldsBytes
  <2>4. QED
    BY <2>1, <2>3
<1>3. [k \in 0 .. 4 - 1 |-> m[s][o(k)]] = [k \in 0 .. 4 - 1 |-> ByteOf(v, k)]
  BY <1>2
<1>4. WordIn(m, a) = ValueOf([k \in 0 .. 4 - 1 |-> m[s][o(k)]], 4)
  BY <1>1 DEF WordIn
<1>5. QED
  BY <1>3, <1>4, FourBytes

------------------------------------------------------------------------------
(* The words of the stack from a on are the same in two memories. *)
Unchanged(m1, m2, a) == \A w : (StackWord(w) /\ w >= a) => WordIn(m2, w) = WordIn(m1, w)

(* What changes is at addresses below a. *)
ChangesBelow(m1, m2, a) ==
  \A s \in DOMAIN Machine : \A k \in 0 .. SliceLength(Machine[s]) - 1 :
    Machine[s].begin + k >= a => m2[s][k] = m1[s][k]

LEMMA BelowIsUnchanged ==
  ASSUME NEW m1, NEW m2, NEW a \in Int, ChangesBelow(m1, m2, a) PROVE Unchanged(m1, m2, a)
<1> SUFFICES ASSUME NEW w, StackWord(w), w >= a PROVE WordIn(m2, w) = WordIn(m1, w)
  BY DEF Unchanged
<1>1. SameBytes(m1, m2, w)
  <2> SUFFICES ASSUME NEW s \in DOMAIN Machine, NEW k \in 0 .. SliceLength(Machine[s]) - 1,
                      Machine[s].begin + k - w \in 0 .. 3
               PROVE  m2[s][k] = m1[s][k]
    BY DEF SameBytes
  <2>1. w \in Int /\ Machine[s].begin \in Int
    BY StackWordFits, MachineAssumption, AddrModAssumption DEF Address
  <2>2. k \in Int
    OBVIOUS
  <2>3. Machine[s].begin + k >= a
    BY <2>1, <2>2
  <2>4. QED
    BY <2>3 DEF ChangesBelow
<1>2. QED
  BY <1>1, SameWord

(* A word that is stored is there, and no byte above it changes. *)
LEMMA StoredWord ==
  ASSUME NEW m \in Memories, NEW a, StackWord(a), NEW v \in Address
  PROVE  /\ WordIn(write_n(m, a, 4, v), a) = v
         /\ ChangesBelow(m, write_n(m, a, 4, v), a + 4)
<1> DEFINE s == getslice(Machine, a, 4)
           after == write_n(m, a, 4, v)
<1>1. a \in Address /\ a \in Int /\ s \in DOMAIN Machine /\ ~Machine[s].read_only /\ 4 \in {1, 2, 4} /\ v \in Int
  BY StackWordFits, AddrModAssumption DEF Address
<1>2. PutsBytes(m, a, 4, v)
  BY <1>1, WriteByte
<1>3. HoldsBytes(after, a, v)
  <2> SUFFICES ASSUME NEW k \in 0 .. SliceLength(Machine[s]) - 1, Machine[s].begin + k - a \in 0 .. 3
               PROVE  after[s][k] = ByteOf(v, Machine[s].begin + k - a)
    BY DEF HoldsBytes
  <2>1. Lands(a, 4, s, k)
    BY <1>1 DEF Lands
  <2>2. QED
    BY <1>1, <1>2, <2>1 DEF PutsBytes
<1>4. ChangesBelow(m, after, a + 4)
  <2> SUFFICES ASSUME NEW t \in DOMAIN Machine, NEW k \in 0 .. SliceLength(Machine[t]) - 1, Machine[t].begin + k >= a + 4
               PROVE  after[t][k] = m[t][k]
    BY DEF ChangesBelow
  <2>1. Machine[t].begin \in Int /\ k \in Int
    BY MachineAssumption, AddrModAssumption DEF Address
  <2>2. ~(Machine[t].begin + k - a \in 0 .. 4 - 1)
    BY <1>1, <2>1
  <2>3. ~Lands(a, 4, t, k)
    BY <2>2 DEF Lands
  <2>4. QED
    BY <1>2, <2>3 DEF PutsBytes
<1>5. QED
  BY <1>3, <1>4, WordReadBack

(* So it is with the words that a list of registers is stored to. *)
LEMMA StoredByte ==
  ASSUME mem \in Memories, NEW l, NEW s \in DOMAIN Machine, NEW k \in 0 .. SliceLength(Machine[s]) - 1
  PROVE  /\ (\A r \in l.list : ~Covers(l, r, s, k)) => StoredAsListed(l)[s][k] = mem[s][k]
         /\ \A r \in l.list :
              (Covers(l, r, s, k) /\ \A q \in l.list : Covers(l, q, s, k) => q = r)
                => StoredAsListed(l)[s][k] = ByteOf(reg[r], Machine[s].begin + k - Slot(l, r))
<1> DEFINE by == {r \in l.list : Covers(l, r, s, k)}
<1>1. s \in DOMAIN mem /\ k \in DOMAIN mem[s]
  BY DEF Memories, Buffer
<1>2. StoredAsListed(l)[s][k] =
        IF by = {} THEN mem[s][k]
        ELSE LET r == CHOOSE r \in by : TRUE IN ByteOf(reg[r], Machine[s].begin + k - Slot(l, r))
  BY <1>1 DEF StoredAsListed
<1>3. (\A r \in l.list : ~Covers(l, r, s, k)) => by = {}
  OBVIOUS
<1>4. ASSUME NEW r \in l.list, Covers(l, r, s, k), \A q \in l.list : Covers(l, q, s, k) => q = r
      PROVE  by # {} /\ (CHOOSE q \in by : TRUE) = r
  <2>1. by = {r}
    BY <1>4
  <2> HIDE DEF by
  <2>2. QED
    BY <2>1
<1> HIDE DEF by
<1>5. QED
  BY <1>2, <1>3, <1>4

LEMMA OneSlotForAByte ==
  ASSUME RegFile, NEW l, l.base \in Registers, l.list \in SUBSET Registers, l.down \in BOOLEAN, InMemory(l),
         NEW s \in DOMAIN Machine, NEW k \in 0 .. SliceLength(Machine[s]) - 1,
         NEW r \in l.list, NEW q \in l.list, Covers(l, r, s, k), Covers(l, q, s, k)
  PROVE  q = r
<1>1. /\ Slot(l, r) \in Address /\ Slot(l, q) \in Address
      /\ r < q => Slot(l, r) + 4 <= Slot(l, q)
      /\ q < r => Slot(l, q) + 4 <= Slot(l, r)
  BY SlotsApart
<1> DEFINE o == Machine[s].begin
           x == Slot(l, r)
           y == Slot(l, q)
<1>2. o + k - x \in 0 .. 3 /\ o + k - y \in 0 .. 3
  BY Zenon DEF Covers
<1>3. o \in Int /\ k \in Int
  BY MachineAssumption, AddrModAssumption DEF Address
<1>4. x \in Int /\ y \in Int
  BY <1>1, AddrModAssumption DEF Address
<1>5. r \in 0 .. 15 /\ q \in 0 .. 15
  BY ListOfNumbers
<1> HIDE DEF o, x, y
<1>6. x + 4 <= y => FALSE
  BY <1>2, <1>3, <1>4
<1>7. y + 4 <= x => FALSE
  BY <1>2, <1>3, <1>4
<1>8. QED
  BY <1>1, <1>5, <1>6, <1>7 DEF x, y

LEMMA StoredSlot ==
  ASSUME RegFile, mem \in Memories,
         NEW l, l.base \in Registers, l.list \in SUBSET Registers, l.down \in BOOLEAN, InMemory(l),
         NEW r \in l.list, StackWord(Slot(l, r))
  PROVE  WordIn(StoredAsListed(l), Slot(l, r)) = reg[r]
<1> DEFINE a == Slot(l, r)
           s == getslice(Machine, a, 4)
<1>1. s \in DOMAIN Machine /\ ~Machine[s].read_only /\ reg[r] \in Address
  BY StackWordFits, RegisterIsAddress
<1>2. HoldsBytes(StoredAsListed(l), a, reg[r])
  <2> SUFFICES ASSUME NEW k \in 0 .. SliceLength(Machine[s]) - 1, Machine[s].begin + k - a \in 0 .. 3
               PROVE  StoredAsListed(l)[s][k] = ByteOf(reg[r], Machine[s].begin + k - a)
    BY DEF HoldsBytes
  <2>1. Covers(l, r, s, k)
    BY <1>1 DEF Covers
  <2>2. \A q \in l.list : Covers(l, q, s, k) => q = r
    BY <1>1, <2>1, OneSlotForAByte
  <2>3. QED
    BY <1>1, <2>1, <2>2, StoredByte
<1>3. QED
  BY <1>1, <1>2, WordReadBack

LEMMA StoredBelow ==
  ASSUME RegFile, mem \in Memories, NEW l,
         NEW a \in Int, \A r \in l.list : Slot(l, r) \in Address /\ Slot(l, r) + 4 <= a
  PROVE  ChangesBelow(mem, StoredAsListed(l), a)
<1> SUFFICES ASSUME NEW s \in DOMAIN Machine, NEW k \in 0 .. SliceLength(Machine[s]) - 1, Machine[s].begin + k >= a
             PROVE  StoredAsListed(l)[s][k] = mem[s][k]
  BY DEF ChangesBelow
<1>1. ASSUME NEW r \in l.list PROVE ~Covers(l, r, s, k)
  <2>1. Machine[s].begin \in Int /\ k \in Int /\ Slot(l, r) \in Int /\ Slot(l, r) + 4 <= a
    BY MachineAssumption, AddrModAssumption DEF Address
  <2>2. ~(Machine[s].begin + k - Slot(l, r) \in 0 .. 3)
    BY <2>1
  <2>3. QED
    BY <2>2 DEF Covers
<1>2. QED
  BY <1>1, StoredByte

------------------------------------------------------------------------------
(* Only the current procedure may not have pushed yet. *)
Sealed(fs) == \A k \in 1 .. Len(fs) : fs[k].pushed # {}

LEMMA FrameFields ==
  ASSUME NEW f \in Frame
  PROVE  /\ f.sp \in Address /\ f.sp \in Int /\ f.pushed \in SUBSET Registers /\ f.pushed \in SUBSET (0 .. 15)
         /\ Cardinality(f.pushed) \in Nat /\ f.locals \in {0, 1} /\ Low(f) \in Int /\ Low(f) <= f.sp
<1>1. f.sp \in Address /\ f.pushed \in SUBSET Registers /\ f.locals \in {0, 1}
  BY DEF Frame
<1>2. f.sp \in Int /\ f.pushed \in SUBSET (0 .. 15) /\ f.pushed \in SUBSET f.pushed
  <2>1. f.sp \in Int
    BY <1>1, AddrModAssumption DEF Address
  <2>2. f.pushed \in SUBSET (0 .. 15)
    BY <1>1, ListOfNumbers
  <2>3. QED
    BY <2>1, <2>2
<1>3. Cardinality(f.pushed) \in Nat
  BY <1>2, FinitePart
<1>4. Low(f) \in Int /\ Low(f) <= f.sp
  BY <1>1, <1>2, <1>3 DEF Low
<1>5. QED
  BY <1>1, <1>2, <1>3, <1>4

LEMMA LastOf ==
  ASSUME NEW gs \in Seq(Frame), NEW f \in Frame, NEW fs, fs = Append(gs, f)
  PROVE  /\ fs # <<>> /\ fs \in Seq(Frame) /\ Len(fs) = Len(gs) + 1 /\ Len(gs) \in Nat
         /\ fs[Len(fs)] = f /\ Tip(fs) = Low(f)
         /\ \A k \in 1 .. Len(gs) : fs[k] = gs[k] /\ gs[k] \in Frame
<1>1. fs # <<>> /\ fs \in Seq(Frame) /\ Len(fs) = Len(gs) + 1 /\ Len(gs) \in Nat /\ fs[Len(fs)] = f
  OBVIOUS
<1>2. \A k \in 1 .. Len(gs) : fs[k] = gs[k] /\ gs[k] \in Frame
  OBVIOUS
<1>3. QED
  BY <1>1, <1>2 DEF Tip

(* Stacked, one frame at a time. *)
LEMMA StackedAbove ==
  ASSUME NEW gs \in Seq(Frame), NEW f \in Frame
  PROVE  Stacked(Append(gs, f)) <=> Stacked(gs) /\ Sealed(gs) /\ Shaped(f) /\ f.sp = Tip(gs)
<1> DEFINE fs == Append(gs, f)
           n == Len(gs)
<1>1. /\ n \in Nat /\ Len(fs) = n + 1 /\ fs[n + 1] = f
      /\ \A k \in 1 .. n : fs[k] = gs[k] /\ gs[k] \in Frame
  <2>1. fs = Append(gs, f)
    OBVIOUS
  <2> HIDE DEF fs
  <2>2. QED
    BY <2>1, LastOf
<1>2. Tip(gs) = IF n = 0 THEN StackTop ELSE Low(gs[n])
  BY DEF Tip
<1> HIDE DEF fs, n
<1>3. ASSUME Stacked(fs) PROVE Stacked(gs) /\ Sealed(gs) /\ Shaped(f) /\ f.sp = Tip(gs)
  <2>1. \A k \in 1 .. n : Shaped(gs[k]) /\ gs[k].pushed # {}
    BY <1>1, <1>3 DEF Stacked
  <2>2. \A k \in 1 .. n : gs[k].sp = IF k = 1 THEN StackTop ELSE Low(gs[k - 1])
    <3> SUFFICES ASSUME NEW k \in 1 .. n PROVE gs[k].sp = IF k = 1 THEN StackTop ELSE Low(gs[k - 1])
      OBVIOUS
    <3>1. k \in 1 .. Len(fs) /\ fs[k] = gs[k] /\ (k # 1 => fs[k - 1] = gs[k - 1])
      BY <1>1
    <3>2. fs[k].sp = IF k = 1 THEN StackTop ELSE Low(fs[k - 1])
      BY <1>3, <3>1 DEF Stacked
    <3>3. QED
      BY <3>1, <3>2
  <2>3. \A j, k \in 1 .. n : j < k => gs[k].sp <= Low(gs[j])
    <3> SUFFICES ASSUME NEW j \in 1 .. n, NEW k \in 1 .. n, j < k PROVE gs[k].sp <= Low(gs[j])
      OBVIOUS
    <3>1. j \in 1 .. Len(fs) /\ k \in 1 .. Len(fs) /\ fs[k] = gs[k] /\ fs[j] = gs[j]
      BY <1>1
    <3>2. fs[k].sp <= Low(fs[j])
      BY <1>3, <3>1 DEF Stacked
    <3>3. QED
      BY <3>1, <3>2
  <2>4. n + 1 \in 1 .. Len(fs)
    BY <1>1
  <2>5. Shaped(f) /\ f.sp = IF n + 1 = 1 THEN StackTop ELSE Low(fs[n + 1 - 1])
    BY <1>1, <1>3, <2>4 DEF Stacked
  <2>6. f.sp = Tip(gs)
    BY <1>1, <1>2, <2>5
  <2>7. \A k \in 1 .. n - 1 : k \in 1 .. n
    BY <1>1
  <2>8. QED
    BY <2>1, <2>2, <2>3, <2>5, <2>6, <2>7 DEF Stacked, Sealed, n
<1>4. ASSUME Stacked(gs), Sealed(gs), Shaped(f), f.sp = Tip(gs) PROVE Stacked(fs)
  <2>1. \A k \in 1 .. n + 1 : k \in 1 .. n \/ k = n + 1
    BY <1>1
  <2>2. \A k \in 1 .. n + 1 : Shaped(fs[k])
    BY <1>1, <1>4, <2>1 DEF Stacked, n
  <2>3. \A k \in 1 .. n : fs[k].pushed # {}
    BY <1>1, <1>4 DEF Sealed, n
  <2>4. ASSUME NEW k \in 1 .. n + 1 PROVE fs[k].sp = IF k = 1 THEN StackTop ELSE Low(fs[k - 1])
    <3>1. CASE k \in 1 .. n
      <4>1. fs[k] = gs[k] /\ (k # 1 => fs[k - 1] = gs[k - 1])
        BY <1>1, <3>1
      <4>2. gs[k].sp = IF k = 1 THEN StackTop ELSE Low(gs[k - 1])
        BY <1>4, <3>1 DEF Stacked, n
      <4>3. QED
        BY <4>1, <4>2
    <3>2. CASE k = n + 1
      <4>1. n # 0 => n \in 1 .. n /\ fs[n] = gs[n]
        BY <1>1
      <4>2. k = 1 <=> n = 0
        BY <1>1, <3>2
      <4>3. k - 1 = n
        BY <1>1, <3>2
      <4>4. QED
        BY <1>1, <1>2, <1>4, <3>2, <4>1, <4>2, <4>3
    <3>3. QED
      BY <2>1, <3>1, <3>2
  <2>5. ASSUME NEW j \in 1 .. n + 1, NEW k \in 1 .. n + 1, j < k PROVE fs[k].sp <= Low(fs[j])
    <3>1. j \in 1 .. n /\ fs[j] = gs[j] /\ gs[j] \in Frame
      BY <1>1, <2>5
    <3>2. CASE k \in 1 .. n
      <4>1. fs[k] = gs[k]
        BY <1>1, <3>2
      <4>2. gs[k].sp <= Low(gs[j])
        BY <1>4, <2>5, <3>1, <3>2 DEF Stacked, n
      <4>3. QED
        BY <3>1, <4>1, <4>2
    <3>3. CASE k = n + 1
      <4>1. n # 0 /\ n \in 1 .. n /\ gs[n] \in Frame
        BY <1>1, <3>1
      <4>2. fs[k].sp = Low(gs[n])
        BY <1>1, <1>2, <1>4, <3>3, <4>1
      <4>3. CASE j = n
        BY <3>1, <4>1, <4>2, <4>3, FrameFields
      <4>4. CASE j < n
        <5>1. gs[n].sp <= Low(gs[j])
          BY <1>4, <3>1, <4>1, <4>4 DEF Stacked, n
        <5>2. Low(gs[n]) <= gs[n].sp /\ Low(gs[n]) \in Int /\ gs[n].sp \in Int
          BY <4>1, FrameFields
        <5>3. Low(gs[j]) \in Int
          BY <3>1, FrameFields
        <5>4. QED
          BY <3>1, <4>2, <5>1, <5>2, <5>3
      <4>5. QED
        BY <1>1, <3>1, <4>3, <4>4
    <3>4. QED
      BY <2>1, <3>2, <3>3
  <2>6. Len(fs) - 1 = n
    BY <1>1
  <2>7. QED
    BY <1>1, <2>2, <2>3, <2>4, <2>5, <2>6 DEF Stacked
<1>5. QED
  BY <1>3, <1>4 DEF fs

------------------------------------------------------------------------------
(* The places in a frame. *)
HomeIn(f, r) ==
  Word(f.sp - 4 * Cardinality(f.pushed) + 4 * Cardinality({q \in f.pushed : q < r}))
LocalHomeIn(f) == Word(f.sp - 4 * Cardinality(f.pushed) - 4)

(* The stack is above the global data, so a push does not reach around below
   address 0: the sixteen registers are not that many. *)
LEMMA NotBelowZero == ASSUME NEW a, Roomy(a) PROVE a \in Int /\ a < AddrMod /\ a > 4 * 16
<1>1. a \in Int /\ a < AddrMod
  BY AddrModAssumption DEF Roomy, Address
<1>2. PICK g \in Globals : g >= 4 * 16
  BY CallsAssumption
<1>3. g \in Int
  BY ProceduresAssumption, AddrModAssumption DEF Address
<1>4. QED
  BY <1>1, <1>2, <1>3 DEF Roomy

LEMMA AtMostSixteen == ASSUME NEW list \in SUBSET (0 .. 15) PROVE Cardinality(list) \in 0 .. 16
<1>1. IsFiniteSet(0 .. 15) /\ Cardinality(0 .. 15) = 16
  <2>1. 0 \in Int /\ 15 \in Int /\ ~(0 > 15) /\ 15 - 0 + 1 = 16
    OBVIOUS
  <2>2. QED
    BY <2>1, FS_Interval
<1>2. Cardinality(list) <= 16
  BY <1>1, FS_Subset
<1>3. list \in SUBSET list
  OBVIOUS
<1>4. Cardinality(list) \in Nat
  BY <1>3, FinitePart
<1>5. QED
  BY <1>2, <1>4

LEMMA CountPlace ==
  ASSUME NEW list \in SUBSET (0 .. 15), NEW r \in list
  PROVE  Cardinality({q \in list : q < r}) \in Nat /\ Cardinality({q \in list : q < r}) + 1 <= Cardinality(list)
<1>1. r \in 0 .. 15 /\ r + 1 \in 0 .. 16
  OBVIOUS
<1>2. Cardinality(Below(list, r + 1)) = Cardinality(Below(list, r)) + 1
  BY <1>1, CountBelow
<1>3. Cardinality(list) = Cardinality(Below(list, r + 1)) + Cardinality(From(list, r + 1))
  BY <1>1, CountSplit
<1>4. Below(list, r) \in SUBSET list /\ From(list, r + 1) \in SUBSET list
  BY DEF Below, From
<1>5. Cardinality(Below(list, r)) \in Nat /\ Cardinality(From(list, r + 1)) \in Nat
  BY <1>4, FinitePart
<1>6. Cardinality(Below(list, r)) + 1 <= Cardinality(list)
  BY <1>2, <1>3, <1>5
<1>7. QED
  BY <1>5, <1>6 DEF Below

(* Each place is on a word of the frame. *)
LEMMA Places ==
  ASSUME NEW f \in Frame, Shaped(f), Roomy(Low(f))
  PROVE  /\ \A r \in f.pushed :
              /\ HomeIn(f, r) = f.sp - 4 * Cardinality(f.pushed) + 4 * Cardinality({q \in f.pushed : q < r})
              /\ HomeIn(f, r) \in Int /\ StackWord(HomeIn(f, r))
              /\ HomeIn(f, r) >= Low(f) + 4 * f.locals /\ HomeIn(f, r) + 4 <= f.sp
         /\ f.locals = 1 => LocalHomeIn(f) = Low(f) /\ StackWord(Low(f)) /\ Low(f) + 4 <= f.sp
<1> DEFINE C == Cardinality(f.pushed)
           n == f.locals
           x == f.sp
           low == Low(f)
<1>1. x \in Address /\ x \in Int /\ C \in Nat /\ n \in {0, 1} /\ f.pushed \in SUBSET (0 .. 15)
  BY FrameFields
<1>2. low = x - 4 * C - 4 * n
  BY DEF Low
<1>3. low \in Int /\ low > 0 /\ x < AddrMod
  <2>1. Low(f) \in Int /\ Low(f) > 4 * 16
    BY NotBelowZero
  <2>2. x < AddrMod
    BY <1>1, AddrModAssumption DEF Address
  <2>3. QED
    BY <2>1, <2>2
<1>4. x % 4 = 0 /\ x <= StackTop /\ StackTop \in Int
  BY ProceduresAssumption, AddrModAssumption DEF Shaped, Address
<1>5. Roomy(low)
  OBVIOUS
<1>6. \A g \in Globals : g \in Int /\ g < low
  <2>1. \A g \in Globals : g \in Address
    BY ProceduresAssumption
  <2>2. \A g \in Globals : g \in Int
    BY <2>1, AddrModAssumption DEF Address
  <2>3. QED
    BY <1>5, <2>2 DEF Roomy
<1> HIDE DEF C, n, x, low
<1>7. ASSUME NEW a \in Int, a % 4 = 0, a >= low, a + 4 <= x PROVE StackWord(a) /\ Word(a) = a
  <2>1. a \in Address
    BY <1>1, <1>3, <1>7, AddrModAssumption DEF Address
  <2>2. \A g \in Globals : g < a
    BY <1>3, <1>6, <1>7
  <2>3. a < StackTop
    BY <1>1, <1>4, <1>7
  <2>4. QED
    BY <1>7, <2>1, <2>2, <2>3, AddressIsWord DEF StackWord, Roomy
<1>8. ASSUME NEW r \in f.pushed
      PROVE  /\ HomeIn(f, r) = f.sp - 4 * Cardinality(f.pushed) + 4 * Cardinality({q \in f.pushed : q < r})
             /\ HomeIn(f, r) \in Int /\ StackWord(HomeIn(f, r))
             /\ HomeIn(f, r) >= Low(f) + 4 * f.locals /\ HomeIn(f, r) + 4 <= f.sp
  <2> DEFINE c == Cardinality({q \in f.pushed : q < r})
             a == x - 4 * C + 4 * c
  <2>1. c \in Nat /\ c + 1 <= C
    BY <1>1, CountPlace DEF C
  <2>2. HomeIn(f, r) = Word(a)
    BY DEF HomeIn, x, C
  <2> HIDE DEF c
  <2>3. a \in Int /\ a % 4 = 0 /\ a >= low + 4 * n /\ a + 4 <= x /\ a >= low
    BY <1>1, <1>2, <1>4, <2>1
  <2>4. a = x - 4 * C + 4 * c
    OBVIOUS
  <2> HIDE DEF a
  <2>5. StackWord(a) /\ Word(a) = a
    BY <1>7, <2>3
  <2>6. HomeIn(f, r) = a
    BY <2>2, <2>5
  <2>7. QED
    BY <2>3, <2>4, <2>5, <2>6 DEF x, C, c, low, n
<1>9. ASSUME n = 1 PROVE LocalHomeIn(f) = Low(f) /\ StackWord(Low(f)) /\ Low(f) + 4 <= f.sp
  <2>1. low % 4 = 0 /\ low + 4 <= x /\ low >= low
    BY <1>1, <1>2, <1>3, <1>4, <1>9
  <2>2. StackWord(low) /\ Word(low) = low
    BY <1>3, <1>7, <2>1
  <2>3. x - 4 * C - 4 = low
    BY <1>1, <1>2, <1>9
  <2>4. LocalHomeIn(f) = low
    BY <2>2, <2>3 DEF LocalHomeIn, x, C
  <2>5. QED
    BY <2>1, <2>2, <2>4 DEF low, x
<1>10. QED
  BY <1>8, <1>9 DEF n

------------------------------------------------------------------------------
(* The contexts of the frames fs, in the memory m with the registers rg. *)
ReturnOf(f, m, lr) == Even(IF REG_LR \in f.pushed THEN WordIn(m, HomeIn(f, REG_LR)) ELSE lr)
LocalOf(f, m) == IF f.locals = 1 THEN <<WordIn(m, LocalHomeIn(f))>> ELSE <<>>

Savers(fs, k) == {j \in k .. Len(fs) : 4 \in fs[j].pushed}
SavedIn(fs, m, r4, k) ==
  IF Savers(fs, k) = {} THEN r4
  ELSE WordIn(m, HomeIn(fs[CHOOSE j \in Savers(fs, k) : \A l \in Savers(fs, k) : j <= l], 4))

ContextIn(fs, m, r4, lr, k) ==
  [ret |-> ReturnOf(fs[k], m, lr), saved |-> SavedIn(fs, m, r4, k), sp |-> fs[k].sp, local |-> LocalOf(fs[k], m)]
ContextsIn(fs, m, rg) == [k \in 1 .. Len(fs) |-> ContextIn(fs, m, rg[4], rg[REG_LR], k)]

LEMMA ContextsByState ==
  /\ Contexts = ContextsIn(frames, mem, reg)
  /\ Contexts' = ContextsIn(frames', mem', reg')
<1>1. Contexts = ContextsIn(frames, mem, reg)
  BY DEF Contexts, Context, SavedR4, Home, LocalHome, read_n,
         ContextsIn, ContextIn, ReturnOf, LocalOf, Savers, SavedIn, WordIn, HomeIn, LocalHomeIn
<1>2. Contexts' = ContextsIn(frames', mem', reg')
  BY DEF Contexts, Context, SavedR4, Home, LocalHome, read_n,
         ContextsIn, ContextIn, ReturnOf, LocalOf, Savers, SavedIn, WordIn, HomeIn, LocalHomeIn
<1>3. QED
  BY <1>1, <1>2

(* The callers' contexts do not need lr, they have pushed it; of the current
   frame f they need the r4 that it has saved for them. *)
CallersIn(gs, m, r4) == [k \in 1 .. Len(gs) |-> ContextIn(gs, m, r4, 0, k)]
SavedBy(f, m, r4) == IF 4 \in f.pushed THEN WordIn(m, HomeIn(f, 4)) ELSE r4
TopIn(f, m, r4, lr) == [ret |-> ReturnOf(f, m, lr), saved |-> SavedBy(f, m, r4), sp |-> f.sp, local |-> LocalOf(f, m)]

LEMMA LeastSaver ==
  ASSUME NEW S \in SUBSET Nat, NEW a \in S, \A l \in S : a <= l
  PROVE  (CHOOSE j \in S : \A l \in S : j <= l) = a
<1> DEFINE P(j) == \A l \in S : j <= l
<1>1. \A j \in S : P(j) => j = a
  BY DEF P
<1>2. P(a)
  OBVIOUS
<1> HIDE DEF P
<1>3. (CHOOSE j \in S : P(j)) = a
  BY <1>1, <1>2
<1>4. QED
  BY <1>3 DEF P

LEMMA SavedBelow ==
  ASSUME NEW gs \in Seq(Frame), NEW f \in Frame, NEW m, NEW r4, NEW k \in 1 .. Len(gs)
  PROVE  SavedIn(Append(gs, f), m, r4, k) = SavedIn(gs, m, SavedBy(f, m, r4), k)
<1> DEFINE fs == Append(gs, f)
           n == Len(gs)
           A == Savers(gs, k)
           B == Savers(fs, k)
<1>1. /\ n \in Nat /\ Len(fs) = n + 1 /\ fs[n + 1] = f
      /\ \A j \in 1 .. n : fs[j] = gs[j] /\ gs[j] \in Frame
  <2>1. fs = Append(gs, f)
    OBVIOUS
  <2> HIDE DEF fs
  <2>2. QED
    BY <2>1, LastOf
<1> HIDE DEF fs
<1>2. B = A \cup (IF 4 \in f.pushed THEN {n + 1} ELSE {})
  <2>1. \A j : j \in k .. n + 1 <=> (j \in k .. n \/ j = n + 1)
    BY <1>1
  <2>2. \A j \in k .. n : fs[j] = gs[j]
    BY <1>1
  <2>3. B = {j \in k .. n + 1 : 4 \in fs[j].pushed}
    BY <1>1 DEF Savers
  <2>4. A = {j \in k .. n : 4 \in gs[j].pushed}
    BY DEF Savers
  <2>5. QED
    BY <1>1, <2>1, <2>2, <2>3, <2>4
<1>3. A \in SUBSET Nat /\ \A j \in A : j \in 1 .. n
  BY <1>1 DEF Savers
<1> HIDE DEF A, B, n
<1>4. CASE A = {}
  <2>1. SavedIn(gs, m, SavedBy(f, m, r4), k) = SavedBy(f, m, r4)
    BY <1>4 DEF SavedIn, A
  <2>2. CASE 4 \in f.pushed
    <3>1. B = {n + 1}
      BY <1>2, <1>4, <2>2
    <3>2. (CHOOSE j \in B : \A l \in B : j <= l) = n + 1
      BY <1>1, <3>1, LeastSaver
    <3>3. SavedIn(fs, m, r4, k) = WordIn(m, HomeIn(fs[n + 1], 4))
      BY <3>1, <3>2 DEF SavedIn, B
    <3>4. QED
      BY <1>1, <2>1, <2>2, <3>3 DEF SavedBy, fs
  <2>3. CASE 4 \notin f.pushed
    BY <1>2, <1>4, <2>1, <2>3 DEF SavedIn, SavedBy, B, fs
  <2>4. QED
    BY <2>2, <2>3
<1>5. CASE A # {}
  <2>1. PICK a \in A : \A l \in A : a <= l
    BY <1>3, <1>5, LeastHit
  <2>2. (CHOOSE j \in A : \A l \in A : j <= l) = a
    BY <1>3, <2>1, LeastSaver
  <2>3. SavedIn(gs, m, SavedBy(f, m, r4), k) = WordIn(m, HomeIn(gs[a], 4))
    BY <1>5, <2>2 DEF SavedIn, A
  <2>4. a \in B /\ B # {} /\ B \in SUBSET Nat /\ \A l \in B : a <= l
    BY <1>1, <1>2, <1>3, <2>1
  <2>5. (CHOOSE j \in B : \A l \in B : j <= l) = a
    BY <2>4, LeastSaver
  <2>6. SavedIn(fs, m, r4, k) = WordIn(m, HomeIn(fs[a], 4))
    BY <2>4, <2>5 DEF SavedIn, B
  <2>7. QED
    BY <1>1, <1>3, <2>1, <2>3, <2>6 DEF fs
<1>6. QED
  BY <1>4, <1>5

(* The contexts, one frame at a time. *)
LEMMA ContextsOfTop ==
  ASSUME NEW gs \in Seq(Frame), NEW f \in Frame, NEW m, NEW rg, Sealed(gs), \A k \in 1 .. Len(gs) : Shaped(gs[k])
  PROVE  ContextsIn(Append(gs, f), m, rg) =
           Append(CallersIn(gs, m, SavedBy(f, m, rg[4])), TopIn(f, m, rg[4], rg[REG_LR]))
<1> DEFINE fs == Append(gs, f)
           n == Len(gs)
           r4 == SavedBy(f, m, rg[4])
           C == CallersIn(gs, m, r4)
           t == TopIn(f, m, rg[4], rg[REG_LR])
           D == ContextsIn(fs, m, rg)
<1>1. /\ n \in Nat /\ Len(fs) = n + 1 /\ fs[n + 1] = f
      /\ \A j \in 1 .. n : fs[j] = gs[j] /\ gs[j] \in Frame
  <2>1. fs = Append(gs, f)
    OBVIOUS
  <2> HIDE DEF fs
  <2>2. QED
    BY <2>1, LastOf
<1>2. \A k \in 1 .. n : ReturnOf(gs[k], m, rg[REG_LR]) = ReturnOf(gs[k], m, 0)
  <2>1. \A k \in 1 .. n : REG_LR \in gs[k].pushed
    BY DEF Sealed, Shaped
  <2>2. QED
    BY <2>1 DEF ReturnOf
<1>3. \A k \in 1 .. n : SavedIn(fs, m, rg[4], k) = SavedIn(gs, m, r4, k)
  BY SavedBelow
<1>4. SavedIn(fs, m, rg[4], n + 1) = r4
  <2>1. Savers(fs, n + 1) = IF 4 \in f.pushed THEN {n + 1} ELSE {}
    BY <1>1 DEF Savers
  <2>2. CASE 4 \in f.pushed
    <3>1. Savers(fs, n + 1) = {n + 1}
      BY <2>1, <2>2
    <3>2. (CHOOSE j \in {n + 1} : \A l \in {n + 1} : j <= l) = n + 1
      BY <1>1, LeastSaver
    <3>3. QED
      BY <1>1, <2>2, <3>1, <3>2 DEF SavedIn, SavedBy
  <2>3. CASE 4 \notin f.pushed
    BY <2>1, <2>3 DEF SavedIn, SavedBy
  <2>4. QED
    BY <2>2, <2>3
<1>5. D = [k \in 1 .. n + 1 |-> ContextIn(fs, m, rg[4], rg[REG_LR], k)]
  BY <1>1 DEF ContextsIn
<1> HIDE DEF fs, n, r4
<1>6. \A k \in 1 .. n : ContextIn(fs, m, rg[4], rg[REG_LR], k) = ContextIn(gs, m, r4, 0, k)
  BY <1>1, <1>2, <1>3 DEF ContextIn
<1>7. ContextIn(fs, m, rg[4], rg[REG_LR], n + 1) = t
  BY <1>1, <1>4 DEF ContextIn, TopIn, r4
<1>8. C = [k \in 1 .. n |-> ContextIn(gs, m, r4, 0, k)]
  BY DEF CallersIn, n
<1>9. PICK S : C \in Seq(S) /\ t \in S
  <2> DEFINE S == {C[k] : k \in 1 .. n} \cup {t}
  <2>1. C \in [1 .. n -> S] /\ t \in S
    BY <1>8
  <2> HIDE DEF C, S
  <2>2. C \in Seq(S)
    BY <1>1, <2>1
  <2>3. QED
    BY <2>1, <2>2
<1>10. Len(C) = n
  <2>1. DOMAIN C = 1 .. n
    BY <1>8
  <2> HIDE DEF C
  <2>2. Len(C) \in Nat /\ DOMAIN C = 1 .. Len(C)
    BY <1>9
  <2>3. QED
    BY <1>1, <2>1, <2>2
<1>11. \A k \in 1 .. n : C[k] = ContextIn(gs, m, r4, 0, k)
  BY <1>8
<1> HIDE DEF C, t
<1>12. Append(C, t) = [k \in 1 .. n + 1 |-> IF k = n + 1 THEN t ELSE C[k]]
  <2>1. DOMAIN Append(C, t) = 1 .. n + 1 /\ Append(C, t)[n + 1] = t
    BY <1>1, <1>9, <1>10
  <2>2. \A k \in 1 .. n : Append(C, t)[k] = C[k]
    BY <1>1, <1>9, <1>10
  <2>3. Append(C, t) = [k \in 1 .. n + 1 |-> Append(C, t)[k]]
    <3> DEFINE q == Append(C, t)
    <3>1. q \in Seq(S) /\ Len(q) = n + 1
      BY <1>1, <1>9, <1>10
    <3> HIDE DEF q
    <3>2. q \in [1 .. n + 1 -> S]
      BY <3>1
    <3>3. q = [k \in 1 .. n + 1 |-> q[k]]
      BY <3>2
    <3>4. QED
      BY <3>3 DEF q
  <2>4. \A k \in 1 .. n + 1 : Append(C, t)[k] = IF k = n + 1 THEN t ELSE C[k]
    BY <1>1, <2>1, <2>2
  <2>5. QED
    BY <2>3, <2>4
<1>13. D = [k \in 1 .. n + 1 |-> IF k = n + 1 THEN t ELSE C[k]]
  <2>1. ASSUME NEW k \in 1 .. n + 1
        PROVE  ContextIn(fs, m, rg[4], rg[REG_LR], k) = IF k = n + 1 THEN t ELSE C[k]
    <3>1. k # n + 1 => k \in 1 .. n
      BY <1>1
    <3>2. QED
      BY <1>6, <1>7, <1>11, <3>1
  <2>2. QED
    BY <1>5, <2>1
<1>14. QED
  BY <1>12, <1>13 DEF D, C, t, fs, r4

(* Frames that are all sealed are all callers. *)
LEMMA ContextsOfCallers ==
  ASSUME NEW gs \in Seq(Frame), NEW m, NEW rg, Sealed(gs), \A k \in 1 .. Len(gs) : Shaped(gs[k])
  PROVE  ContextsIn(gs, m, rg) = CallersIn(gs, m, rg[4])
<1>1. \A k \in 1 .. Len(gs) : REG_LR \in gs[k].pushed
  BY DEF Sealed, Shaped
<1>2. \A k \in 1 .. Len(gs) : ContextIn(gs, m, rg[4], rg[REG_LR], k) = ContextIn(gs, m, rg[4], 0, k)
  BY <1>1 DEF ContextIn, ReturnOf
<1>3. QED
  BY <1>2 DEF ContextsIn, CallersIn

LEMMA CallersAreContexts ==
  ASSUME NEW gs \in Seq(Frame), NEW m, NEW r4
  PROVE  /\ \E S : CallersIn(gs, m, r4) \in Seq(S)
         /\ Len(CallersIn(gs, m, r4)) = Len(gs) /\ Len(gs) \in Nat
<1> DEFINE C == CallersIn(gs, m, r4)
           S == {C[k] : k \in 1 .. Len(gs)}
<1>1. Len(gs) \in Nat
  OBVIOUS
<1>2. C \in [1 .. Len(gs) -> S]
  BY DEF CallersIn
<1> HIDE DEF C
<1>3. C \in Seq(S) /\ Len(C) = Len(gs)
  BY <1>1, <1>2
<1>4. QED
  BY <1>1, <1>3 DEF C

------------------------------------------------------------------------------
(* Contexts stay, when the words of the stack do. *)
LEMMA HomesKept ==
  ASSUME NEW f \in Frame, Shaped(f), Roomy(Low(f)), NEW m1, NEW m2,
         Unchanged(m1, m2, Low(f)) \/ Unchanged(m1, m2, Low(f) + 4 * f.locals)
  PROVE  /\ \A r \in f.pushed : WordIn(m2, HomeIn(f, r)) = WordIn(m1, HomeIn(f, r))
         /\ \A r4, lr : SavedBy(f, m2, r4) = SavedBy(f, m1, r4) /\ ReturnOf(f, m2, lr) = ReturnOf(f, m1, lr)
         /\ Unchanged(m1, m2, Low(f)) => LocalOf(f, m2) = LocalOf(f, m1)
<1>1. Low(f) \in Int /\ f.locals \in {0, 1}
  BY FrameFields
<1>2. ASSUME NEW r \in f.pushed PROVE WordIn(m2, HomeIn(f, r)) = WordIn(m1, HomeIn(f, r))
  <2>1. HomeIn(f, r) \in Int /\ StackWord(HomeIn(f, r)) /\ HomeIn(f, r) >= Low(f) + 4 * f.locals
    BY Places
  <2>2. HomeIn(f, r) >= Low(f)
    BY <1>1, <2>1
  <2>3. QED
    BY <2>1, <2>2 DEF Unchanged
<1>3. \A r4, lr : SavedBy(f, m2, r4) = SavedBy(f, m1, r4) /\ ReturnOf(f, m2, lr) = ReturnOf(f, m1, lr)
  BY <1>2 DEF SavedBy, ReturnOf
<1>4. ASSUME Unchanged(m1, m2, Low(f)) PROVE LocalOf(f, m2) = LocalOf(f, m1)
  <2>1. CASE f.locals = 1
    <3>1. LocalHomeIn(f) = Low(f) /\ StackWord(Low(f)) /\ Low(f) >= Low(f)
      BY <1>1, <2>1, Places
    <3>2. WordIn(m2, LocalHomeIn(f)) = WordIn(m1, LocalHomeIn(f))
      BY <1>4, <3>1 DEF Unchanged
    <3>3. QED
      BY <3>2 DEF LocalOf
  <2>2. CASE f.locals # 1
    BY <2>2 DEF LocalOf
  <2>3. QED
    BY <2>1, <2>2
<1>5. QED
  BY <1>2, <1>3, <1>4

(* Every frame is above the tip of the stack. *)
LEMMA AboveTip ==
  ASSUME NEW gs \in Seq(Frame), Stacked(gs), NEW k \in 1 .. Len(gs) PROVE Low(gs[k]) >= Tip(gs)
<1> DEFINE n == Len(gs)
<1>1. n \in Nat /\ n \in 1 .. n /\ gs # <<>> /\ gs[k] \in Frame /\ gs[n] \in Frame
  OBVIOUS
<1>2. Tip(gs) = Low(gs[n])
  BY <1>1 DEF Tip
<1> HIDE DEF n
<1>3. Low(gs[k]) \in Int /\ Low(gs[n]) \in Int /\ gs[n].sp \in Int /\ Low(gs[n]) <= gs[n].sp
  BY <1>1, FrameFields
<1>4. CASE k = n
  BY <1>2, <1>3, <1>4
<1>5. CASE k # n
  <2>1. k < n
    BY <1>1, <1>5 DEF n
  <2>2. gs[n].sp <= Low(gs[k])
    BY <1>1, <2>1 DEF Stacked, n
  <2>3. QED
    BY <1>2, <1>3, <2>2
<1>6. QED
  BY <1>4, <1>5

LEMMA RoomAbove ==
  ASSUME NEW x, Roomy(x), NEW y \in Address, y >= x PROVE Roomy(y)
<1>1. \A g \in Globals : g \in Int
  <2>1. \A g \in Globals : g \in Address
    BY ProceduresAssumption
  <2>2. QED
    BY <2>1, AddrModAssumption DEF Address
<1>2. x \in Int /\ y \in Int
  BY AddrModAssumption DEF Roomy, Address
<1>3. QED
  BY <1>1, <1>2 DEF Roomy

LEMMA LowIsRoomy ==
  ASSUME NEW gs \in Seq(Frame), Stacked(gs), Roomy(Tip(gs)), NEW k \in 1 .. Len(gs)
  PROVE  gs[k] \in Frame /\ Shaped(gs[k]) /\ Roomy(Low(gs[k])) /\ Low(gs[k]) >= Tip(gs)
<1>1. gs[k] \in Frame /\ Shaped(gs[k])
  BY DEF Stacked
<1>2. Low(gs[k]) >= Tip(gs)
  BY AboveTip
<1>3. Low(gs[k]) \in Address
  <2>1. Low(gs[k]) \in Int /\ Low(gs[k]) <= gs[k].sp /\ gs[k].sp \in Address
    BY <1>1, FrameFields
  <2>2. Tip(gs) \in Address
    BY DEF Roomy
  <2>3. QED
    BY <1>2, <2>1, <2>2, AddrModAssumption DEF Address
<1>4. QED
  BY <1>1, <1>2, <1>3, RoomAbove

LEMMA LessIsUnchanged ==
  ASSUME NEW m1, NEW m2, NEW x \in Int, NEW y \in Int, y >= x, Unchanged(m1, m2, x) PROVE Unchanged(m1, m2, y)
<1> SUFFICES ASSUME NEW w, StackWord(w), w >= y PROVE WordIn(m2, w) = WordIn(m1, w)
  BY DEF Unchanged
<1>1. w \in Int
  BY StackWordFits
<1>2. w >= x
  BY <1>1
<1>3. QED
  BY <1>2 DEF Unchanged

LEMMA CallersKept ==
  ASSUME NEW gs \in Seq(Frame), Stacked(gs), Roomy(Tip(gs)), NEW m1, NEW m2, Unchanged(m1, m2, Tip(gs)), NEW r4
  PROVE  CallersIn(gs, m2, r4) = CallersIn(gs, m1, r4)
<1>1. ASSUME NEW k \in 1 .. Len(gs)
      PROVE  /\ gs[k] \in Frame /\ LocalOf(gs[k], m2) = LocalOf(gs[k], m1) /\ ReturnOf(gs[k], m2, 0) = ReturnOf(gs[k], m1, 0)
             /\ 4 \in gs[k].pushed => WordIn(m2, HomeIn(gs[k], 4)) = WordIn(m1, HomeIn(gs[k], 4))
  <2>1. gs[k] \in Frame /\ Shaped(gs[k]) /\ Roomy(Low(gs[k])) /\ Low(gs[k]) >= Tip(gs)
    BY LowIsRoomy
  <2>2. Low(gs[k]) \in Int /\ Tip(gs) \in Int
    BY <2>1, FrameFields, AddrModAssumption DEF Roomy, Address
  <2>3. Unchanged(m1, m2, Low(gs[k]))
    BY <2>1, <2>2, LessIsUnchanged
  <2>4. QED
    BY <2>1, <2>3, HomesKept
<1>2. ASSUME NEW k \in 1 .. Len(gs) PROVE SavedIn(gs, m2, r4, k) = SavedIn(gs, m1, r4, k)
  <2> DEFINE A == Savers(gs, k)
  <2>1. A \in SUBSET Nat /\ \A j \in A : j \in 1 .. Len(gs) /\ 4 \in gs[j].pushed
    BY DEF Savers
  <2> HIDE DEF A
  <2>2. CASE A = {}
    BY <2>2 DEF SavedIn, A
  <2>3. CASE A # {}
    <3>1. PICK a \in A : \A l \in A : a <= l
      BY <2>1, <2>3, LeastHit
    <3>2. (CHOOSE j \in A : \A l \in A : j <= l) = a
      BY <2>1, <3>1, LeastSaver
    <3>3. WordIn(m2, HomeIn(gs[a], 4)) = WordIn(m1, HomeIn(gs[a], 4))
      BY <1>1, <2>1
    <3>4. QED
      BY <2>3, <3>2, <3>3 DEF SavedIn, A
  <2>4. QED
    BY <2>2, <2>3
<1>3. \A k \in 1 .. Len(gs) : ContextIn(gs, m2, r4, 0, k) = ContextIn(gs, m1, r4, 0, k)
  BY <1>1, <1>2 DEF ContextIn
<1>4. QED
  BY <1>3 DEF CallersIn

------------------------------------------------------------------------------
LEMMA TopFrame ==
  ASSUME IInv, Settled(frames, reg), ~Main, NEW f, f = Current, NEW gs, gs = Callers
  PROVE  /\ f \in Frame /\ gs \in Seq(Frame) /\ frames = Append(gs, f)
         /\ Stacked(gs) /\ Sealed(gs) /\ Shaped(f) /\ f.sp = Tip(gs) /\ Roomy(Tip(gs))
         /\ reg[REG_SP] = Low(f) /\ Roomy(Low(f)) /\ Low(f) <= Tip(gs) /\ Low(f) \in Int /\ Tip(gs) \in Int
<1>1. f \in Frame /\ gs \in Seq(Frame)
  BY CurrentIsFrame DEF IInv
<1>2. frames = Append(gs, f)
  <2>1. frames \in Seq(Frame) /\ frames # <<>>
    BY DEF IInv, FramesInv, Main
  <2> DEFINE n == Len(frames)
  <2>2. n \in Nat \ {0} /\ frames \in [1 .. n -> Frame]
    BY <2>1
  <2>3. gs = SubSeq(frames, 1, n - 1) /\ f = frames[n]
    BY DEF Callers, Current
  <2> HIDE DEF n
  <2>4. Len(gs) = n - 1 /\ \A k \in 1 .. n - 1 : gs[k] = frames[k]
    BY <2>1, <2>2, <2>3 DEF n
  <2>5. Len(Append(gs, f)) = n /\ \A k \in 1 .. n : Append(gs, f)[k] = frames[k]
    BY <1>1, <2>2, <2>3, <2>4
  <2> DEFINE q == Append(gs, f)
  <2>6. q \in Seq(Frame) /\ Len(q) = n /\ \A k \in 1 .. n : q[k] = frames[k]
    BY <1>1, <2>5
  <2> HIDE DEF q
  <2>7. q \in [1 .. n -> Frame]
    BY <2>6
  <2>8. q = frames
    BY <2>2, <2>6, <2>7
  <2>9. QED
    BY <2>8 DEF q
<1>3. Stacked(gs) /\ Sealed(gs) /\ Shaped(f) /\ f.sp = Tip(gs)
  BY <1>1, <1>2, StackedAbove DEF Settled
<1>4. Tip(frames) = Low(f)
  BY <1>1, <1>2, LastOf
<1>5. reg[REG_SP] = Low(f) /\ Roomy(Low(f))
  BY <1>4 DEF Settled
<1>6. f.sp \in Address /\ f.sp \in Int /\ Low(f) \in Int /\ Low(f) <= f.sp
  BY <1>1, FrameFields
<1>7. Roomy(f.sp)
  BY <1>5, <1>6, RoomAbove
<1>8. QED
  BY <1>1, <1>2, <1>3, <1>5, <1>6, <1>7

LEMMA OldTop ==
  ASSUME IInv, Settled(frames, reg), ~Main, NEW f, f = Current, NEW gs, gs = Callers
  PROVE  /\ Contexts = Append(CallersIn(gs, mem, SavedBy(f, mem, reg[4])), TopIn(f, mem, reg[4], reg[REG_LR]))
         /\ Contexts # <<>> /\ Len(Contexts) = Len(gs) + 1
         /\ Calls!Top = TopIn(f, mem, reg[4], reg[REG_LR])
         /\ Calls!Rest = CallersIn(gs, mem, SavedBy(f, mem, reg[4]))
<1> DEFINE C == CallersIn(gs, mem, SavedBy(f, mem, reg[4]))
           t == TopIn(f, mem, reg[4], reg[REG_LR])
<1>1. f \in Frame /\ gs \in Seq(Frame) /\ frames = Append(gs, f) /\ Stacked(gs) /\ Sealed(gs)
  BY TopFrame
<1>2. Contexts = Append(C, t)
  <2>1. \A k \in 1 .. Len(gs) : Shaped(gs[k])
    BY <1>1 DEF Stacked
  <2>2. ContextsIn(Append(gs, f), mem, reg) = Append(C, t)
    BY <1>1, <2>1, ContextsOfTop
  <2>3. QED
    BY <1>1, <2>2, ContextsByState
<1>3. PICK S : C \in Seq(S)
  BY <1>1, CallersAreContexts
<1>4. Len(C) = Len(gs) /\ Len(gs) \in Nat
  BY <1>1, CallersAreContexts
<1> DEFINE T == S \cup {t}
<1>5. C \in Seq(T) /\ t \in T
  BY <1>3
<1> HIDE DEF C, t, T
<1>6. Len(Append(C, t)) = Len(gs) + 1 /\ Append(C, t) # <<>> /\ Append(C, t)[Len(gs) + 1] = t
  BY <1>4, <1>5
<1>7. SubSeq(Append(C, t), 1, Len(gs)) = C
  <2> DEFINE n == Len(gs)
             q == SubSeq(Append(C, t), 1, n)
  <2>1. q \in Seq(T) /\ Len(q) = n /\ \A k \in 1 .. n : q[k] = C[k]
    BY <1>4, <1>5
  <2>2. C \in [1 .. n -> T]
    BY <1>4, <1>5
  <2> HIDE DEF q
  <2>3. q \in [1 .. n -> T]
    BY <2>1
  <2>4. q = C
    BY <2>1, <2>2, <2>3
  <2>5. QED
    BY <2>4 DEF q
<1>8. Len(Contexts) - 1 = Len(gs)
  BY <1>2, <1>4, <1>6
<1>9. Calls!Top = t
  BY <1>2, <1>6 DEF Calls!Top
<1>10. Calls!Rest = C
  BY <1>2, <1>7, <1>8 DEF Calls!Rest
<1>11. QED
  BY <1>2, <1>6, <1>9, <1>10 DEF C, t

LEMMA NewTop ==
  ASSUME NEW gs \in Seq(Frame), Stacked(gs), Sealed(gs), NEW f \in Frame, frames' = Append(gs, f)
  PROVE  /\ Contexts' = Append(CallersIn(gs, mem', SavedBy(f, mem', reg'[4])), TopIn(f, mem', reg'[4], reg'[REG_LR]))
         /\ Calls!Top' = TopIn(f, mem', reg'[4], reg'[REG_LR])
         /\ Len(Contexts') = Len(gs) + 1
<1> DEFINE C == CallersIn(gs, mem', SavedBy(f, mem', reg'[4]))
           t == TopIn(f, mem', reg'[4], reg'[REG_LR])
<1>1. Contexts' = Append(C, t)
  <2>1. \A k \in 1 .. Len(gs) : Shaped(gs[k])
    BY DEF Stacked
  <2>2. ContextsIn(Append(gs, f), mem', reg') = Append(C, t)
    BY <2>1, ContextsOfTop
  <2>3. QED
    BY <2>2, ContextsByState
<1>2. PICK S : C \in Seq(S)
  BY CallersAreContexts
<1>3. Len(C) = Len(gs) /\ Len(gs) \in Nat
  BY CallersAreContexts
<1> DEFINE T == S \cup {t}
<1>4. C \in Seq(T) /\ t \in T
  BY <1>2
<1> HIDE DEF C, t, T
<1>5. Len(Append(C, t)) = Len(gs) + 1 /\ Append(C, t)[Len(gs) + 1] = t
  BY <1>3, <1>4
<1>6. Calls!Top' = Contexts'[Len(Contexts')]
  BY DEF Calls!Top
<1>7. QED
  BY <1>1, <1>5, <1>6 DEF C, t

(* Work: nothing that a context is made of changes. *)
LEMMA SameFrames ==
  ASSUME IInv, Settled(frames, reg), frames' = frames, Unchanged(mem, mem', Tip(frames)),
         reg'[REG_LR] = reg[REG_LR], ~Main => (reg'[4] = reg[4] \/ 4 \in Current.pushed)
  PROVE  Contexts' = Contexts
<1>1. CASE Main
  <2>1. frames = <<>> /\ frames' = <<>> /\ Len(<<>>) = 0
    BY <1>1 DEF Main
  <2>2. ContextsIn(<<>>, mem', reg') = ContextsIn(<<>>, mem, reg)
    <3>1. \A k \in 1 .. 0 : FALSE
      OBVIOUS
    <3>2. QED
      BY <2>1, <3>1 DEF ContextsIn
  <2>3. QED
    BY <2>1, <2>2, ContextsByState
<1>2. CASE ~Main
  <2> DEFINE f == Current
             gs == Callers
  <2>1. /\ f \in Frame /\ gs \in Seq(Frame) /\ frames = Append(gs, f)
        /\ Stacked(gs) /\ Sealed(gs) /\ Shaped(f) /\ Roomy(Tip(gs))
        /\ Roomy(Low(f)) /\ Low(f) <= Tip(gs) /\ Low(f) \in Int /\ Tip(gs) \in Int
    BY <1>2, TopFrame
  <2>2. Contexts = Append(CallersIn(gs, mem, SavedBy(f, mem, reg[4])), TopIn(f, mem, reg[4], reg[REG_LR]))
    BY <1>2, OldTop
  <2>3. reg'[4] = reg[4] \/ 4 \in f.pushed
    BY <1>2
  <2> HIDE DEF f, gs
  <2>4. Tip(frames) = Low(f)
    <3>1. f \in Frame /\ gs \in Seq(Frame) /\ frames = Append(gs, f)
      BY ONLY <2>1
    <3>2. QED
      BY ONLY <3>1, LastOf
  <2>5. /\ \A r4, lr : SavedBy(f, mem', r4) = SavedBy(f, mem, r4) /\ ReturnOf(f, mem', lr) = ReturnOf(f, mem, lr)
        /\ LocalOf(f, mem') = LocalOf(f, mem)
    BY <2>1, <2>4, HomesKept
  <2>6. SavedBy(f, mem', reg'[4]) = SavedBy(f, mem, reg[4])
    BY <2>3, <2>5 DEF SavedBy
  <2>7. TopIn(f, mem', reg'[4], reg'[REG_LR]) = TopIn(f, mem, reg[4], reg[REG_LR])
    BY <2>5, <2>6 DEF TopIn
  <2>8. Unchanged(mem, mem', Tip(gs))
    BY <2>1, <2>4, LessIsUnchanged
  <2>9. \A r4 : CallersIn(gs, mem', r4) = CallersIn(gs, mem, r4)
    BY <2>1, <2>8, CallersKept
  <2>10. Contexts' = Append(CallersIn(gs, mem', SavedBy(f, mem', reg'[4])), TopIn(f, mem', reg'[4], reg'[REG_LR]))
    BY <2>1, NewTop
  <2>11. QED
    BY <2>2, <2>6, <2>7, <2>9, <2>10
<1>3. QED
  BY <1>1, <1>2

------------------------------------------------------------------------------
(* What the steps do to the registers. *)
LEMMA EvenWord == ASSUME NEW a \in Address, a % 2 = 0, NEW n \in {0, 2, 4} PROVE Word(a + n) % 2 = 0
<1>1. AddrMod \in Nat /\ AddrMod >= 4 /\ AddrMod % 4 = 0
  BY ProceduresAssumption, AddrModAssumption
<1>2. a \in Int /\ a >= 0 /\ a < AddrMod
  BY AddrModAssumption DEF Address
<1>3. CASE a + n < AddrMod
  <2>1. a + n \in Address
    BY <1>1, <1>2, <1>3 DEF Address
  <2>2. QED
    BY <1>2, <2>1, AddressIsWord
<1>4. CASE a + n >= AddrMod
  <2>1. a + n - AddrMod \in Address /\ a + n \in Int /\ a + n - AddrMod \in Int
    BY <1>1, <1>2, <1>4 DEF Address
  <2>2. (a + n + AddrMod * (-1)) % AddrMod = (a + n) % AddrMod
    <3> DEFINE x == a + n
               q == -1
    <3>1. x \in Int /\ q \in Int /\ AddrMod \in Nat \ {0}
      BY <1>1, <2>1
    <3> HIDE DEF x, q
    <3>2. (x + AddrMod * q) % AddrMod = x % AddrMod
      BY <3>1, SameMod
    <3>3. QED
      BY <3>2 DEF x, q
  <2>3. a + n + AddrMod * (-1) = a + n - AddrMod
    BY <1>1, <1>2
  <2>4. Word(a + n) = Word(a + n - AddrMod)
    BY <2>2, <2>3 DEF Word
  <2>5. Word(a + n) = a + n - AddrMod
    BY <2>1, <2>4, AddressIsWord
  <2>6. QED
    BY <1>1, <1>2, <2>5
<1>5. QED
  BY <1>1, <1>2, <1>3, <1>4

(* After an instruction of the given length that does not branch. *)
GoesOn(after, r, m, length) == after = Outcome(r, m, TRUE, length)

LEMMA PlainOutcome ==
  ASSUME NEW r, IsRegFile(r), r[REG_PC] % 2 = 0, NEW m, NEW length, length \in {2, 4},
         NEW after, GoesOn(after, r, m, length)
  PROVE  /\ after.mem = m /\ after.reg[REG_PC] % 2 = 0
         /\ \A q \in Registers : q # REG_PC => after.reg[q] = r[q]
<1> DEFINE pc == Word(r[REG_PC] + length)
           next == [r EXCEPT ![REG_PC] = pc]
<1>1. after = [reg |-> next, mem |-> m]
  BY DEF Outcome, GoesOn
<1>2. r[REG_PC] \in Address /\ REG_PC \in Registers
  BY Named3 DEF IsRegFile
<1>3. pc % 2 = 0
  BY <1>2, EvenWord
<1>4. after.mem = m /\ after.reg = next
  <2> HIDE DEF next
  <2>1. [reg |-> next, mem |-> m].mem = m /\ [reg |-> next, mem |-> m].reg = next
    OBVIOUS
  <2>2. QED
    BY <1>1, <2>1, Zenon
<1>5. next[REG_PC] = pc /\ \A q \in Registers : q # REG_PC => next[q] = r[q]
  <2> HIDE DEF pc
  <2>1. QED
    BY <1>2 DEF IsRegFile
<1>6. QED
  BY <1>3, <1>4, <1>5

LEMMA LengthIs2Or4 == ASSUME NEW i PROVE Length(i) \in {2, 4}
BY DEF Length

LEMMA StackRegisters == {4, REG_SP, REG_LR, REG_PC} \subseteq Registers /\ 4 # REG_SP /\ 4 # REG_LR /\ 4 # REG_PC
                          /\ REG_SP # REG_LR /\ REG_SP # REG_PC /\ REG_LR # REG_PC
BY Named3, ProceduresAssumption DEF REG_SP, REG_LR, REG_PC

(* What the code does when the stack fits afterwards. *)
LEMMA DoWhileItFits ==
  ASSUME IInv, IInv', NEW i, Do(i), fits'
  PROVE  /\ reg' = Executed(i).reg /\ mem' = Executed(i).mem
         /\ fits /\ reg[REG_PC] < CodeEnd
         /\ reg'[REG_SP] \in Address /\ Roomy(reg'[REG_SP])
<1>1. reg' = Executed(i).reg /\ mem' = Executed(i).mem /\ reg[REG_PC] < CodeEnd
  BY DEF Do, Execute
<1>2. fits /\ \A g \in Globals : g < reg'[REG_SP]
  BY DEF Do
<1>3. reg'[REG_SP] \in Address
  BY StackRegisters DEF IInv, MachineInv, RegFile
<1>4. QED
  BY <1>1, <1>2, <1>3 DEF Roomy

LEMMA RegistersOf ==
  ASSUME IInv
  PROVE  /\ RegFile /\ IsRegFile(reg) /\ mem \in Memories /\ reg[REG_SP] % 4 = 0
         /\ \A r \in Registers : reg[r] \in Address /\ reg[r] \in Int
         /\ frames \in Seq(Frame) /\ Len(frames) \in Nat
<1>1. RegFile /\ mem \in Memories /\ reg[REG_SP] % 4 = 0 /\ frames \in Seq(Frame)
  BY DEF IInv, MachineInv, FramesInv
<1>2. IsRegFile(reg)
  BY <1>1 DEF RegFile, IsRegFile
<1>3. \A r \in Registers : reg[r] \in Address /\ reg[r] \in Int
  BY <1>1, RegisterIsAddress
<1>4. Len(frames) \in Nat
  BY <1>1
<1>5. QED
  BY <1>1, <1>2, <1>3, <1>4

LEMMA NothingUnchanged == ASSUME NEW m, NEW a PROVE Unchanged(m, m, a)
BY DEF Unchanged

(* The branch to the start of the code. *)
LEMMA BranchTarget ==
  ASSUME NEW pc \in Int, pc % 2 = 0 PROVE pc + 2 * (-((pc + 4) \div 2)) + 4 = 0 /\ (pc + 4) % 2 = 0
OBVIOUS

(* bl: lr is behind the call, with its lowest bit set. *)
LEMMA Link ==
  ASSUME NEW pc \in Address, pc % 2 = 0, pc + 4 < AddrMod
  PROVE  Even(Even(Word(pc + 4)) + 1) = pc + 4
<1>1. pc \in Int /\ pc + 4 \in Address
  BY AddrModAssumption DEF Address
<1>2. Word(pc + 4) = pc + 4
  BY <1>1, AddressIsWord
<1>3. Even(pc + 4) = pc + 4
  BY <1>1 DEF Even
<1>4. Even(pc + 4 + 1) = pc + 4
  BY <1>1 DEF Even
<1>5. QED
  BY <1>2, <1>3, <1>4

LEMMA ExecutedBl ==
  ASSUME IInv, reg[REG_PC] % 2 = 0, NEW i, i.op = "bl", i.imm = -((reg[REG_PC] + 4) \div 2),
         NEW after, after = Executed(i)
  PROVE  /\ after.mem = mem /\ after.reg[4] = reg[4] /\ after.reg[REG_SP] = reg[REG_SP]
         /\ after.reg[REG_LR] = Even(Word(reg[REG_PC] + 4)) + 1 /\ after.reg[REG_PC] % 2 = 0
<1> DEFINE lr == Even(Word(reg[REG_PC] + 4)) + 1
           pc == Word(reg[REG_PC] + 2 * i.imm + 4)
           linked == [reg EXCEPT ![REG_LR] = lr]
           r == [linked EXCEPT ![REG_PC] = pc]
<1>1. IsRegFile(reg) /\ reg[REG_PC] \in Int
  BY RegistersOf, StackRegisters
<1>2. linked[REG_PC] = reg[REG_PC]
  BY <1>1, StackRegisters DEF IsRegFile
<1>3. Executed(i) = Outcome(r, mem, FALSE, 4)
  <2>1. bl(i) = Outcome(r, mem, FALSE, 4)
    BY <1>2 DEF bl
  <2>2. QED
    BY <2>1 DEF Executed
<1>4. pc % 2 = 0
  <2>1. reg[REG_PC] + 2 * i.imm + 4 = 0
    BY <1>1, BranchTarget
  <2>2. 0 \in Address
    BY AddrModAssumption DEF Address
  <2>3. QED
    BY <2>1, <2>2, AddressIsWord
<1>5. after.reg = r /\ after.mem = mem
  BY <1>3 DEF Outcome
<1> HIDE DEF lr, pc
<1>6. r[4] = reg[4] /\ r[REG_SP] = reg[REG_SP] /\ r[REG_LR] = lr /\ r[REG_PC] = pc
  BY <1>1, StackRegisters DEF IsRegFile
<1>7. QED
  BY <1>4, <1>5, <1>6 DEF lr

(* A step of main or of a procedure: what Activations has for it. *)
CallsStep == Calls!Work \/ Calls!Call \/ Calls!Return \/ Calls!Locals

LEMMA CallSteps ==
  ASSUME IInv, IInv', Settled(frames, reg), Call, fits'
  PROVE  Settled(frames', reg') /\ CallsStep
<1> DEFINE i == [Plain EXCEPT !.op = "bl", !.imm = -((reg[REG_PC] + 4) \div 2)]
           f == [sp |-> reg[REG_SP], pushed |-> {}, locals |-> 0]
           after == Executed(i)
<1>1. OwnsLr /\ Do(i) /\ frames' = Append(frames, f)
  BY DEF Call
<1>2. i.op = "bl" /\ i.imm = -((reg[REG_PC] + 4) \div 2)
  BY DEF Plain
<1> HIDE DEF i
<1>3. reg' = after.reg /\ mem' = after.mem /\ reg[REG_PC] < CodeEnd /\ Roomy(reg'[REG_SP])
  BY <1>1, DoWhileItFits
<1>4. reg[REG_PC] % 2 = 0 /\ Stacked(frames) /\ reg[REG_SP] = Tip(frames)
  BY DEF Settled
<1>5. /\ mem' = mem /\ reg'[4] = reg[4] /\ reg'[REG_SP] = reg[REG_SP]
      /\ reg'[REG_LR] = Even(Word(reg[REG_PC] + 4)) + 1 /\ reg'[REG_PC] % 2 = 0
  BY <1>2, <1>3, <1>4, ExecutedBl
<1> HIDE DEF after
<1>6. /\ frames \in Seq(Frame) /\ Len(frames) \in Nat /\ reg[REG_SP] \in Address /\ reg[REG_SP] \in Int
      /\ reg[REG_SP] % 4 = 0 /\ reg[REG_PC] \in Address
  BY RegistersOf, StackRegisters
<1>7. f \in Frame
  BY <1>6 DEF Frame
<1>8. Sealed(frames)
  <2> SUFFICES ASSUME NEW k \in 1 .. Len(frames) PROVE frames[k].pushed # {}
    BY DEF Sealed
  <2>1. CASE k \in 1 .. Len(frames) - 1
    BY <1>4, <2>1 DEF Stacked
  <2>2. CASE k = Len(frames)
    <3>1. ~Main
      BY <1>6, <2>2 DEF Main
    <3>2. REG_LR \in Current.pushed
      BY <1>1, <3>1 DEF OwnsLr
    <3>3. QED
      BY <2>2, <3>2 DEF Current
  <2>3. QED
    BY <1>6, <2>1, <2>2
<1>9. Cardinality({}) = 0
  BY FS_EmptySet
<1>10. Low(f) = reg[REG_SP]
  BY <1>6, <1>9 DEF Low
<1>11. reg[REG_SP] <= StackTop
  <2>1. StackTop \in Int
    BY ProceduresAssumption, AddrModAssumption DEF Address
  <2>2. CASE Main
    BY <1>4, <2>1, <2>2 DEF Main, Tip
  <2>3. CASE ~Main
    <3>1. /\ Current \in Frame /\ Shaped(Current) /\ Low(Current) <= Tip(Callers) /\ Current.sp = Tip(Callers)
          /\ reg[REG_SP] = Low(Current) /\ Low(Current) \in Int /\ Tip(Callers) \in Int
      BY <2>3, TopFrame
    <3>2. QED
      BY <2>1, <3>1 DEF Shaped
  <2>4. QED
    BY <2>2, <2>3
<1>12. Shaped(f) /\ f.sp = Tip(frames)
  BY <1>4, <1>6, <1>11 DEF Shaped
<1>13. f.sp = reg[REG_SP] /\ f.pushed = {} /\ f.locals = 0
  OBVIOUS
<1> HIDE DEF f
<1>14. Stacked(frames') /\ Tip(frames') = Low(f)
  <2>1. frames' = Append(frames, f)
    BY <1>1
  <2>2. Stacked(Append(frames, f))
    BY <1>4, <1>6, <1>7, <1>8, <1>12, StackedAbove
  <2>3. Tip(frames') = Low(f)
    BY <1>6, <1>7, <2>1, LastOf
  <2>4. QED
    BY <2>1, <2>2, <2>3
<1>15. Settled(frames', reg')
  BY <1>3, <1>5, <1>10, <1>14 DEF Settled
<1>16. Contexts' = Append(CallersIn(frames, mem', SavedBy(f, mem', reg'[4])), TopIn(f, mem', reg'[4], reg'[REG_LR]))
  BY <1>1, <1>4, <1>6, <1>7, <1>8, NewTop
<1>17. SavedBy(f, mem', reg'[4]) = reg[4]
  BY <1>5, <1>13 DEF SavedBy
<1>18. Contexts = CallersIn(frames, mem, reg[4])
  <2>1. \A k \in 1 .. Len(frames) : Shaped(frames[k])
    BY <1>4 DEF Stacked
  <2>2. ContextsIn(frames, mem, reg) = CallersIn(frames, mem, reg[4])
    BY <1>6, <1>8, <2>1, ContextsOfCallers
  <2>3. QED
    BY <2>2, ContextsByState
<1>19. ReturnOf(f, mem', reg'[REG_LR]) = reg[REG_PC] + 4
  <2>1. reg[REG_PC] + 4 < AddrMod
    <3>1. CodeEnd \in Nat /\ CodeEnd + 4 <= AddrMod /\ AddrMod \in Nat
      BY CallsAssumption, AddrModAssumption
    <3>2. reg[REG_PC] \in Int
      BY RegistersOf, StackRegisters
    <3>3. QED
      BY <1>3, <3>1, <3>2
  <2>2. Even(Even(Word(reg[REG_PC] + 4)) + 1) = reg[REG_PC] + 4
    BY <1>4, <1>6, <2>1, Link
  <2>3. QED
    BY <1>5, <1>13, <2>2 DEF ReturnOf
<1>20. TopIn(f, mem', reg'[4], reg'[REG_LR]) = [ret |-> reg[REG_PC] + 4, saved |-> reg[4], sp |-> reg[REG_SP], local |-> <<>>]
  BY <1>13, <1>17, <1>19 DEF TopIn, LocalOf
<1>21. Contexts' = Append(Contexts, [ret |-> reg[REG_PC] + 4, saved |-> reg[4], sp |-> reg[REG_SP], local |-> <<>>])
  BY <1>5, <1>16, <1>17, <1>18, <1>20
<1>22. Calls!Call
  BY <1>5, <1>21 DEF Calls!Call
<1>23. QED
  BY <1>15, <1>22 DEF CallsStep

------------------------------------------------------------------------------
(* The kinds of steps, whatever the instruction. *)
LEMMA WorkSteps ==
  ASSUME IInv, Settled(frames, reg), frames' = frames, Unchanged(mem, mem', Tip(frames)),
         reg'[REG_LR] = reg[REG_LR], reg'[REG_SP] = reg[REG_SP], reg'[REG_PC] % 2 = 0,
         ~Main => (reg'[4] = reg[4] \/ 4 \in Current.pushed)
  PROVE  Settled(frames', reg') /\ CallsStep
<1>1. Contexts' = Contexts
  BY SameFrames
<1>2. Calls!Work
  BY <1>1 DEF Calls!Work
<1>3. Settled(frames', reg')
  BY DEF Settled
<1>4. QED
  BY <1>2, <1>3 DEF CallsStep

(* f2 is the current frame after its local word has come, changed or gone. *)
LEMMA LocalsSteps ==
  ASSUME IInv, Settled(frames, reg), ~Main, NEW f2 \in Frame, Shaped(f2), f2.sp = Current.sp, f2.pushed = Current.pushed,
         frames' = Append(Callers, f2), reg'[4] = reg[4], reg'[REG_LR] = reg[REG_LR],
         reg'[REG_SP] = Low(f2), Roomy(reg'[REG_SP]), reg'[REG_PC] % 2 = 0,
         Unchanged(mem, mem', Low(Current) + 4 * Current.locals),
         LocalOf(f2, mem') \in {<<>>, <<reg[4]>>} \/ Current.locals # 1
  PROVE  Settled(frames', reg') /\ CallsStep
<1> DEFINE f == Current
           gs == Callers
<1>1. /\ f \in Frame /\ gs \in Seq(Frame) /\ Stacked(gs) /\ Sealed(gs) /\ Shaped(f) /\ f.sp = Tip(gs) /\ Roomy(Tip(gs))
      /\ Roomy(Low(f)) /\ Low(f) <= Tip(gs) /\ Low(f) \in Int /\ Tip(gs) \in Int
  BY TopFrame
<1>2. /\ Contexts # <<>> /\ Len(Contexts) = Len(gs) + 1
      /\ Calls!Top = TopIn(f, mem, reg[4], reg[REG_LR]) /\ Calls!Rest = CallersIn(gs, mem, SavedBy(f, mem, reg[4]))
  BY OldTop
<1>3. f2.sp = f.sp /\ f2.pushed = f.pushed /\ frames' = Append(gs, f2) /\ Unchanged(mem, mem', Low(f) + 4 * f.locals)
  OBVIOUS
<1>4. LocalOf(f2, mem') \in {<<>>, <<reg[4]>>} \/ f.locals # 1
  OBVIOUS
<1> HIDE DEF f, gs
<1>5. /\ Contexts' = Append(CallersIn(gs, mem', SavedBy(f2, mem', reg'[4])), TopIn(f2, mem', reg'[4], reg'[REG_LR]))
      /\ Calls!Top' = TopIn(f2, mem', reg'[4], reg'[REG_LR]) /\ Len(Contexts') = Len(gs) + 1
  BY <1>1, <1>3, NewTop
<1>6. /\ \A r4 : SavedBy(f2, mem', r4) = SavedBy(f, mem', r4)
      /\ \A lr : ReturnOf(f2, mem', lr) = ReturnOf(f, mem', lr)
  BY <1>3 DEF SavedBy, ReturnOf, HomeIn
<1>7. \A r4, lr : SavedBy(f, mem', r4) = SavedBy(f, mem, r4) /\ ReturnOf(f, mem', lr) = ReturnOf(f, mem, lr)
  BY <1>1, <1>3, HomesKept
<1>8. Unchanged(mem, mem', Tip(gs))
  <2>1. f.locals \in {0, 1} /\ Low(f) + 4 * f.locals <= f.sp
    <3>1. f.locals \in {0, 1} /\ Cardinality(f.pushed) \in Nat /\ f.sp \in Int
      BY <1>1, FrameFields
    <3>2. QED
      BY <3>1 DEF Low
  <2>2. Low(f) + 4 * f.locals \in Int /\ Tip(gs) >= Low(f) + 4 * f.locals
    BY <1>1, <2>1
  <2>3. QED
    BY <1>1, <1>3, <2>2, LessIsUnchanged
<1>9. \A r4 : CallersIn(gs, mem', r4) = CallersIn(gs, mem, r4)
  BY <1>1, <1>8, CallersKept
<1> DEFINE local == LocalOf(f2, mem')
<1>10. TopIn(f2, mem', reg'[4], reg'[REG_LR]) = [TopIn(f, mem, reg[4], reg[REG_LR]) EXCEPT !.local = local]
  BY <1>3, <1>6, <1>7 DEF TopIn
<1>11. Calls!Top'.local = local
  BY <1>5 DEF TopIn
<1>12. local \in {<<>>, <<reg[4]>>} \/ Calls!Top.local = <<>>
  <2>1. f.locals # 1 => Calls!Top.local = <<>>
    BY <1>2 DEF TopIn, LocalOf
  <2>2. QED
    BY <1>4, <2>1
<1> HIDE DEF local
<1>13. Contexts' = Append(Calls!Rest, [Calls!Top EXCEPT !.local = local])
  BY <1>2, <1>5, <1>6, <1>7, <1>9, <1>10
<1>14. Calls!Locals
  BY <1>2, <1>5, <1>11, <1>12, <1>13 DEF Calls!Locals
<1>15. Stacked(frames') /\ Tip(frames') = Low(f2)
  <2>1. f2.sp = Tip(gs)
    BY <1>1, <1>3
  <2>2. Stacked(Append(gs, f2))
    BY <1>1, <2>1, StackedAbove
  <2>3. Tip(Append(gs, f2)) = Low(f2)
    <3>1. f2 \in Frame /\ gs \in Seq(Frame)
      BY <1>1
    <3>2. QED
      BY ONLY <3>1, LastOf
  <2>4. QED
    BY <1>3, <2>2, <2>3
<1>16. Settled(frames', reg')
  BY <1>15 DEF Settled
<1>17. QED
  BY <1>14, <1>16 DEF CallsStep

LEMMA ReturnSteps ==
  ASSUME IInv, Settled(frames, reg), ~Main, frames' = Callers, mem' = mem, reg'[REG_SP] = Current.sp,
         reg'[4] = SavedBy(Current, mem, reg[4]), reg'[REG_PC] = ReturnOf(Current, mem, reg[REG_LR]), reg'[REG_PC] % 2 = 0
  PROVE  Settled(frames', reg') /\ CallsStep
<1> DEFINE f == Current
           gs == Callers
<1>1. gs \in Seq(Frame) /\ Stacked(gs) /\ Sealed(gs) /\ f.sp = Tip(gs) /\ Roomy(Tip(gs))
  BY TopFrame
<1>2. /\ Contexts # <<>> /\ Calls!Top = TopIn(f, mem, reg[4], reg[REG_LR])
      /\ Calls!Rest = CallersIn(gs, mem, SavedBy(f, mem, reg[4]))
  BY OldTop
<1>3. /\ frames' = gs /\ reg'[REG_SP] = f.sp /\ reg'[4] = SavedBy(f, mem, reg[4])
      /\ reg'[REG_PC] = ReturnOf(f, mem, reg[REG_LR])
  OBVIOUS
<1> HIDE DEF f, gs
<1>4. Contexts' = CallersIn(gs, mem, reg'[4])
  <2>1. \A k \in 1 .. Len(gs) : Shaped(gs[k])
    BY <1>1 DEF Stacked
  <2>2. ContextsIn(gs, mem', reg') = CallersIn(gs, mem', reg'[4])
    BY <1>1, <2>1, ContextsOfCallers
  <2>3. QED
    BY <1>3, <2>2, ContextsByState
<1>5. Calls!Top.sp = f.sp /\ Calls!Top.ret = ReturnOf(f, mem, reg[REG_LR]) /\ Calls!Top.saved = SavedBy(f, mem, reg[4])
  BY <1>2 DEF TopIn
<1>6. Calls!Return
  BY <1>2, <1>3, <1>4, <1>5 DEF Calls!Return
<1>7. Settled(frames', reg')
  BY <1>1, <1>3 DEF Settled
<1>8. QED
  BY <1>6, <1>7 DEF CallsStep

------------------------------------------------------------------------------
(* Action by action. *)
LEMMA MoveSteps ==
  ASSUME IInv, IInv', Settled(frames, reg), NEW v \in Values, Move(v), fits' PROVE Settled(frames', reg') /\ CallsStep
<1> DEFINE i == [Plain EXCEPT !.op = "mov_imm", !.Rt = 4, !.imm = v]
           r == [reg EXCEPT ![4] = v]
           after == Executed(i)
<1>1. OwnsR4 /\ Do(i) /\ frames' = frames
  BY DEF Move
<1>2. GoesOn(after, r, mem, Length(i))
  <2>1. i.op = "mov_imm" /\ i.Rt = 4 /\ i.imm = v
    BY DEF Plain
  <2> HIDE DEF i
  <2>2. QED
    BY <2>1 DEF Executed, mov_imm, GoesOn
<1> HIDE DEF i
<1>3. reg' = after.reg /\ mem' = after.mem
  BY <1>1, DoWhileItFits
<1>4. v \in Address /\ IsRegFile(reg) /\ reg[REG_PC] % 2 = 0
  BY ProceduresAssumption, RegistersOf DEF Settled
<1>5. IsRegFile(r) /\ r[REG_SP] = reg[REG_SP] /\ r[REG_LR] = reg[REG_LR] /\ r[REG_PC] = reg[REG_PC]
  BY <1>4, StackRegisters, Put
<1> HIDE DEF r, after
<1>6. /\ after.mem = mem /\ after.reg[REG_PC] % 2 = 0
      /\ \A q \in Registers : q # REG_PC => after.reg[q] = r[q]
  BY <1>2, <1>4, <1>5, LengthIs2Or4, PlainOutcome
<1>7. reg'[REG_LR] = reg[REG_LR] /\ reg'[REG_SP] = reg[REG_SP] /\ reg'[REG_PC] % 2 = 0
  BY <1>3, <1>5, <1>6, StackRegisters
<1>8. Unchanged(mem, mem', Tip(frames))
  BY <1>3, <1>6, NothingUnchanged
<1>9. ~Main => 4 \in Current.pushed
  BY <1>1 DEF OwnsR4
<1>10. QED
  BY <1>1, <1>7, <1>8, <1>9, WorkSteps

LEMMA LoopSteps ==
  ASSUME IInv, IInv', Settled(frames, reg), Loop PROVE Settled(frames', reg') /\ CallsStep
<1> DEFINE i == [Plain EXCEPT !.op = "b", !.imm = -((reg[REG_PC] + 4) \div 2)]
           pc == Word(reg[REG_PC] + 2 * i.imm + 4)
           r == [reg EXCEPT ![REG_PC] = pc]
<1>1. Execute(i) /\ frames' = frames
  BY DEF Loop
<1>2. i.op = "b" /\ i.imm = -((reg[REG_PC] + 4) \div 2)
  BY DEF Plain
<1> HIDE DEF i
<1>3. Executed(i) = Outcome(r, mem, FALSE, 4)
  BY <1>2 DEF Executed, b
<1>4. IsRegFile(reg) /\ reg[REG_PC] \in Int /\ reg[REG_PC] % 2 = 0
  BY RegistersOf, StackRegisters DEF Settled
<1>5. pc % 2 = 0
  <2>1. reg[REG_PC] + 2 * i.imm + 4 = 0
    BY <1>2, <1>4, BranchTarget
  <2>2. 0 \in Address
    BY AddrModAssumption DEF Address
  <2>3. QED
    BY <2>1, <2>2, AddressIsWord
<1>6. reg' = r /\ mem' = mem
  BY <1>1, <1>3 DEF Execute, Outcome
<1> HIDE DEF pc
<1>7. r[4] = reg[4] /\ r[REG_SP] = reg[REG_SP] /\ r[REG_LR] = reg[REG_LR] /\ r[REG_PC] = pc
  BY <1>4, StackRegisters DEF IsRegFile
<1> HIDE DEF r
<1>8. /\ reg'[REG_LR] = reg[REG_LR] /\ reg'[REG_SP] = reg[REG_SP] /\ reg'[REG_PC] % 2 = 0 /\ reg'[4] = reg[4]
      /\ Unchanged(mem, mem', Tip(frames))
  BY <1>5, <1>6, <1>7, NothingUnchanged
<1>9. QED
  BY <1>1, <1>8, WorkSteps

LEMMA BackSteps ==
  ASSUME IInv, IInv', Settled(frames, reg), Back, fits' PROVE Settled(frames', reg') /\ CallsStep
<1> DEFINE i == [Plain EXCEPT !.op = "bx", !.Rm = REG_LR]
           pc == Even(reg[REG_LR])
           r == [reg EXCEPT ![REG_PC] = pc]
           f == Current
<1>1. ~Main /\ f.pushed = {} /\ Do(i) /\ frames' = Callers
  BY DEF Back
<1>2. i.op = "bx" /\ i.Rm = REG_LR
  BY DEF Plain
<1> HIDE DEF i
<1>3. Executed(i) = Outcome(r, mem, FALSE, 2)
  BY <1>2 DEF Executed, bx
<1>4. reg' = r /\ mem' = mem
  <2>1. reg' = Executed(i).reg /\ mem' = Executed(i).mem
    BY <1>1, DoWhileItFits
  <2>2. QED
    BY <1>3, <2>1 DEF Outcome
<1>5. IsRegFile(reg) /\ reg[REG_LR] \in Address
  BY RegistersOf, StackRegisters
<1>6. pc % 2 = 0
  BY <1>5, EvenIsAddress
<1> HIDE DEF pc
<1>7. r[4] = reg[4] /\ r[REG_SP] = reg[REG_SP] /\ r[REG_PC] = pc
  BY <1>5, StackRegisters DEF IsRegFile
<1> HIDE DEF r
<1>8. f \in Frame /\ Shaped(f) /\ reg[REG_SP] = Low(f)
  BY <1>1, TopFrame
<1> HIDE DEF f
<1>9. Low(f) = f.sp
  <2>1. f.locals = 0 /\ f.sp \in Int
    BY <1>1, <1>8, FrameFields DEF Shaped
  <2>2. Cardinality(f.pushed) = 0
    BY <1>1, FS_EmptySet
  <2>3. QED
    BY <2>1, <2>2 DEF Low
<1>10. SavedBy(f, mem, reg[4]) = reg[4] /\ ReturnOf(f, mem, reg[REG_LR]) = pc
  BY <1>1 DEF SavedBy, ReturnOf, pc
<1>11. reg'[REG_SP] = f.sp /\ reg'[4] = SavedBy(f, mem, reg[4]) /\ reg'[REG_PC] = ReturnOf(f, mem, reg[REG_LR]) /\ reg'[REG_PC] % 2 = 0
  BY <1>4, <1>6, <1>7, <1>8, <1>9, <1>10
<1>12. QED
  BY <1>1, <1>4, <1>11, ReturnSteps DEF f

LEMMA OpenLocalSteps ==
  ASSUME IInv, IInv', Settled(frames, reg), OpenLocal, fits' PROVE Settled(frames', reg') /\ CallsStep
<1> DEFINE i == [Plain EXCEPT !.op = "sub_SP", !.imm = 1]
           sp == Word(reg[REG_SP] - 4 * i.imm)
           r == [reg EXCEPT ![REG_SP] = sp]
           after == Executed(i)
           f == Current
           f2 == [f EXCEPT !.locals = 1]
<1>1. ~Main /\ f.pushed # {} /\ f.locals = 0 /\ Do(i) /\ frames' = Append(Callers, f2)
  BY DEF OpenLocal
<1>2. i.op = "sub_SP" /\ i.imm = 1
  BY DEF Plain
<1> HIDE DEF i
<1>3. IsRegFile(reg) /\ reg[REG_SP] \in Address /\ reg[REG_SP] \in Int /\ reg[REG_PC] % 2 = 0
  BY RegistersOf, StackRegisters DEF Settled
<1>4. GoesOn(after, r, mem, 2)
  BY <1>2 DEF Executed, sub_SP, GoesOn
<1>5. sp = reg[REG_SP] - 4
  <2>1. reg[REG_SP] > 4 * 16
    BY NotBelowZero DEF Settled
  <2>2. reg[REG_SP] - 4 \in Address
    BY <1>3, <2>1, AddrModAssumption DEF Address
  <2>3. reg[REG_SP] - 4 * i.imm = reg[REG_SP] - 4
    BY <1>2, <1>3
  <2>4. QED
    BY <2>2, <2>3, AddressIsWord
<1>6. sp \in Address
  <2>1. reg[REG_SP] - 4 * i.imm \in Int
    BY <1>2, <1>3
  <2>2. QED
    BY <2>1, WordIsAddress
<1>7. reg' = after.reg /\ mem' = after.mem /\ Roomy(reg'[REG_SP])
  BY <1>1, DoWhileItFits
<1> HIDE DEF sp, after
<1>8. IsRegFile(r) /\ r[4] = reg[4] /\ r[REG_SP] = sp /\ r[REG_LR] = reg[REG_LR] /\ r[REG_PC] = reg[REG_PC]
  BY <1>3, <1>6, StackRegisters, Put
<1> HIDE DEF r
<1>9. /\ after.mem = mem /\ after.reg[REG_PC] % 2 = 0
      /\ \A q \in Registers : q # REG_PC => after.reg[q] = r[q]
  <2>1. 2 \in {2, 4} /\ r[REG_PC] % 2 = 0
    BY <1>3, <1>8
  <2>2. QED
    BY <1>4, <1>8, <2>1, PlainOutcome
<1>10. reg'[4] = reg[4] /\ reg'[REG_SP] = sp /\ reg'[REG_LR] = reg[REG_LR] /\ reg'[REG_PC] % 2 = 0 /\ mem' = mem
  BY <1>7, <1>8, <1>9, StackRegisters
<1>11. f \in Frame /\ Shaped(f) /\ reg[REG_SP] = Low(f)
  BY <1>1, TopFrame
<1> HIDE DEF f
<1>12. f2.sp = f.sp /\ f2.pushed = f.pushed /\ f2.locals = 1 /\ f2 \in Frame
  BY <1>11 DEF Frame
<1> HIDE DEF f2
<1>13. Shaped(f2)
  BY <1>1, <1>11, <1>12 DEF Shaped
<1>14. Low(f2) = Low(f) - 4
  <2>1. f.sp \in Int /\ Cardinality(f.pushed) \in Nat
    BY <1>11, FrameFields
  <2>2. QED
    BY <1>1, <1>12, <2>1 DEF Low
<1>15. Unchanged(mem, mem', Low(f) + 4 * f.locals)
  BY <1>10, NothingUnchanged
<1>16. f.locals # 1 /\ reg'[REG_SP] = Low(f2)
  BY <1>1, <1>5, <1>10, <1>11, <1>14
<1>17. QED
  BY <1>1, <1>7, <1>10, <1>12, <1>13, <1>15, <1>16, LocalsSteps DEF f

LEMMA CloseLocalSteps ==
  ASSUME IInv, IInv', Settled(frames, reg), CloseLocal, fits' PROVE Settled(frames', reg') /\ CallsStep
<1> DEFINE i == [Plain EXCEPT !.op = "add_SP", !.imm = 1]
           sp == Word(reg[REG_SP] + 4 * i.imm)
           r == [reg EXCEPT ![REG_SP] = sp]
           after == Executed(i)
           f == Current
           f2 == [f EXCEPT !.locals = 0]
<1>1. ~Main /\ f.locals = 1 /\ Do(i) /\ frames' = Append(Callers, f2)
  BY DEF CloseLocal
<1>2. i.op = "add_SP" /\ i.imm = 1
  BY DEF Plain
<1> HIDE DEF i
<1>3. IsRegFile(reg) /\ reg[REG_SP] \in Address /\ reg[REG_SP] \in Int /\ reg[REG_PC] % 2 = 0
  BY RegistersOf, StackRegisters DEF Settled
<1>4. GoesOn(after, r, mem, 2)
  BY <1>2 DEF Executed, add_SP, GoesOn
<1>5. f \in Frame /\ Shaped(f) /\ reg[REG_SP] = Low(f)
  BY <1>1, TopFrame
<1> HIDE DEF f
<1>6. f2.sp = f.sp /\ f2.pushed = f.pushed /\ f2.locals = 0 /\ f2 \in Frame
  BY <1>5 DEF Frame
<1> HIDE DEF f2
<1>7. Shaped(f2)
  BY <1>5, <1>6 DEF Shaped
<1>8. Low(f2) = Low(f) + 4 /\ Low(f2) \in Int /\ Low(f2) <= f.sp /\ f.sp \in Address
  <2>1. f.sp \in Int /\ f.sp \in Address /\ Cardinality(f.pushed) \in Nat
    BY <1>5, FrameFields
  <2>2. QED
    BY <1>1, <1>6, <2>1 DEF Low
<1>9. sp = Low(f2) /\ sp \in Address
  <2>1. Low(f2) \in Address
    BY <1>3, <1>5, <1>8, AddrModAssumption DEF Address
  <2>2. reg[REG_SP] + 4 * i.imm = Low(f2)
    BY <1>2, <1>3, <1>5, <1>8
  <2>3. QED
    BY <2>1, <2>2, AddressIsWord
<1>10. reg' = after.reg /\ mem' = after.mem /\ Roomy(reg'[REG_SP])
  BY <1>1, DoWhileItFits
<1> HIDE DEF sp, after
<1>11. IsRegFile(r) /\ r[4] = reg[4] /\ r[REG_SP] = sp /\ r[REG_LR] = reg[REG_LR] /\ r[REG_PC] = reg[REG_PC]
  BY <1>3, <1>9, StackRegisters, Put
<1> HIDE DEF r
<1>12. /\ after.mem = mem /\ after.reg[REG_PC] % 2 = 0
       /\ \A q \in Registers : q # REG_PC => after.reg[q] = r[q]
  <2>1. 2 \in {2, 4} /\ r[REG_PC] % 2 = 0
    BY <1>3, <1>11
  <2>2. QED
    BY <1>4, <1>11, <2>1, PlainOutcome
<1>13. reg'[4] = reg[4] /\ reg'[REG_SP] = Low(f2) /\ reg'[REG_LR] = reg[REG_LR] /\ reg'[REG_PC] % 2 = 0 /\ mem' = mem
  BY <1>9, <1>10, <1>11, <1>12, StackRegisters
<1>14. Unchanged(mem, mem', Low(f) + 4 * f.locals)
  BY <1>13, NothingUnchanged
<1>15. LocalOf(f2, mem') = <<>>
  BY <1>6 DEF LocalOf
<1>16. QED
  BY <1>1, <1>6, <1>7, <1>10, <1>13, <1>14, <1>15, LocalsSteps DEF f

LEMMA GetLocalSteps ==
  ASSUME IInv, IInv', Settled(frames, reg), GetLocal, fits' PROVE Settled(frames', reg') /\ CallsStep
<1> DEFINE i == [Plain EXCEPT !.op = "ldr_imm", !.T = 2, !.Rt = 4, !.Rn = REG_SP]
           a == reg[REG_SP]
           v == read_n(a, 4)
           r == [reg EXCEPT ![4] = v]
           after == Executed(i)
<1>1. ~Main /\ OwnsR4 /\ Do(i) /\ frames' = frames
  BY DEF GetLocal
<1>2. i.op = "ldr_imm" /\ i.T = 2 /\ i.Rt = 4 /\ i.imm = 0 /\ i.W = FALSE /\ i.Rn = REG_SP
  BY DEF Plain
<1> HIDE DEF i
<1>3. IsRegFile(reg) /\ a \in Address /\ a \in Int /\ reg[REG_PC] % 2 = 0 /\ mem \in Memories /\ a % 4 = 0
  BY RegistersOf, StackRegisters DEF Settled
<1>4. Word(reg[i.Rn] + 4 * i.imm) = a
  <2>1. reg[i.Rn] + 4 * i.imm = a
    BY <1>2, <1>3
  <2>2. QED
    BY <1>3, <2>1, AddressIsWord
<1> HIDE DEF a
<1>5. GoesOn(after, r, mem, Length(i))
  BY <1>2, <1>4 DEF Executed, ldr_imm, Load, Writeback, GoesOn
<1>6. v \in Address
  <2>1. a + 4 <= AddrMod
    BY <1>3, AlignedHasRoom
  <2>2. QED
    BY <1>3, <2>1, ReadIsAddress
<1>7. reg' = after.reg /\ mem' = after.mem
  BY <1>1, DoWhileItFits
<1> HIDE DEF v
<1>8. IsRegFile(r) /\ r[REG_SP] = reg[REG_SP] /\ r[REG_LR] = reg[REG_LR] /\ r[REG_PC] = reg[REG_PC]
  BY <1>3, <1>6, StackRegisters, Put
<1> HIDE DEF r, after
<1>9. /\ after.mem = mem /\ after.reg[REG_PC] % 2 = 0
      /\ \A q \in Registers : q # REG_PC => after.reg[q] = r[q]
  BY <1>3, <1>5, <1>8, LengthIs2Or4, PlainOutcome
<1>10. reg'[REG_LR] = reg[REG_LR] /\ reg'[REG_SP] = reg[REG_SP] /\ reg'[REG_PC] % 2 = 0
  BY <1>7, <1>8, <1>9, StackRegisters
<1>11. Unchanged(mem, mem', Tip(frames))
  BY <1>7, <1>9, NothingUnchanged
<1>12. ~Main => 4 \in Current.pushed
  BY <1>1 DEF OwnsR4
<1>13. QED
  BY <1>1, <1>10, <1>11, <1>12, WorkSteps

LEMMA SetLocalSteps ==
  ASSUME IInv, IInv', Settled(frames, reg), SetLocal, fits' PROVE Settled(frames', reg') /\ CallsStep
<1> DEFINE i == [Plain EXCEPT !.op = "str_imm", !.T = 2, !.Rt = 4, !.Rn = REG_SP]
           a == reg[REG_SP]
           m == write_n(mem, a, 4, reg[4])
           after == Executed(i)
           f == Current
<1>1. ~Main /\ f.locals = 1 /\ Do(i) /\ frames' = frames
  BY DEF SetLocal
<1>2. i.op = "str_imm" /\ i.T = 2 /\ i.Rt = 4 /\ i.imm = 0 /\ i.W = FALSE /\ i.Rn = REG_SP
  BY DEF Plain
<1> HIDE DEF i
<1>3. /\ IsRegFile(reg) /\ a \in Address /\ a \in Int /\ reg[REG_PC] % 2 = 0 /\ mem \in Memories
      /\ reg[4] \in Address /\ Roomy(a)
  BY RegistersOf, StackRegisters DEF Settled
<1>4. Word(reg[i.Rn] + 4 * i.imm) = a
  <2>1. reg[i.Rn] + 4 * i.imm = a
    BY <1>2, <1>3
  <2>2. QED
    BY <1>3, <2>1, AddressIsWord
<1>5. f \in Frame /\ Shaped(f) /\ Roomy(Low(f)) /\ a = Low(f) /\ frames = Append(Callers, f)
  BY <1>1, TopFrame
<1> HIDE DEF a, f
<1>6. GoesOn(after, reg, m, Length(i))
  BY <1>2, <1>4 DEF Executed, str_imm, Store, Writeback, GoesOn
<1>7. reg' = after.reg /\ mem' = after.mem /\ Roomy(reg'[REG_SP])
  BY <1>1, DoWhileItFits
<1>8. StackWord(a) /\ LocalHomeIn(f) = a
  BY <1>1, <1>5, Places
<1>9. WordIn(m, a) = reg[4] /\ ChangesBelow(mem, m, a + 4)
  BY <1>3, <1>8, StoredWord
<1> HIDE DEF m, after
<1>10. /\ after.mem = m /\ after.reg[REG_PC] % 2 = 0
       /\ \A q \in Registers : q # REG_PC => after.reg[q] = reg[q]
  BY <1>3, <1>6, LengthIs2Or4, PlainOutcome
<1>11. mem' = m /\ reg'[4] = reg[4] /\ reg'[REG_LR] = reg[REG_LR] /\ reg'[REG_SP] = Low(f) /\ reg'[REG_PC] % 2 = 0
  BY <1>5, <1>7, <1>10, StackRegisters DEF a
<1>12. Unchanged(mem, mem', Low(f) + 4 * f.locals)
  <2>1. a + 4 \in Int /\ Low(f) + 4 * f.locals = a + 4
    BY <1>1, <1>3, <1>5
  <2>2. Unchanged(mem, m, a + 4)
    BY <1>9, <2>1, BelowIsUnchanged
  <2>3. QED
    BY <1>11, <2>1, <2>2
<1>13. LocalOf(f, mem') = <<reg[4]>>
  BY <1>1, <1>8, <1>9, <1>11 DEF LocalOf
<1>14. frames' = Append(Callers, f) /\ LocalOf(f, mem') \in {<<>>, <<reg[4]>>}
  BY <1>1, <1>5, <1>13
<1>15. QED
  BY <1>1, <1>5, <1>7, <1>11, <1>12, <1>14, LocalsSteps DEF f

------------------------------------------------------------------------------
(* What a procedure saves and restores.  f2 is the current frame afterwards; its
   context is what it was. *)
LEMMA FrameSteps ==
  ASSUME IInv, Settled(frames, reg), ~Main, NEW f2 \in Frame, Shaped(f2), f2.sp = Current.sp,
         frames' = Append(Callers, f2), Unchanged(mem, mem', Current.sp),
         SavedBy(f2, mem', reg'[4]) = SavedBy(Current, mem, reg[4]),
         ReturnOf(f2, mem', reg'[REG_LR]) = ReturnOf(Current, mem, reg[REG_LR]),
         LocalOf(f2, mem') = LocalOf(Current, mem),
         reg'[REG_SP] = Low(f2), Roomy(reg'[REG_SP]), reg'[REG_PC] % 2 = 0
  PROVE  Settled(frames', reg') /\ CallsStep
<1> DEFINE f == Current
           gs == Callers
<1>1. /\ f \in Frame /\ gs \in Seq(Frame) /\ Stacked(gs) /\ Sealed(gs) /\ f.sp = Tip(gs) /\ Roomy(Tip(gs))
  BY TopFrame
<1>2. Contexts = Append(CallersIn(gs, mem, SavedBy(f, mem, reg[4])), TopIn(f, mem, reg[4], reg[REG_LR]))
  BY OldTop
<1>3. /\ f2.sp = f.sp /\ frames' = Append(gs, f2) /\ Unchanged(mem, mem', f.sp)
      /\ SavedBy(f2, mem', reg'[4]) = SavedBy(f, mem, reg[4])
      /\ ReturnOf(f2, mem', reg'[REG_LR]) = ReturnOf(f, mem, reg[REG_LR])
      /\ LocalOf(f2, mem') = LocalOf(f, mem)
  OBVIOUS
<1> HIDE DEF f, gs
<1>4. Contexts' = Append(CallersIn(gs, mem', SavedBy(f2, mem', reg'[4])), TopIn(f2, mem', reg'[4], reg'[REG_LR]))
  BY <1>1, <1>3, NewTop
<1>5. TopIn(f2, mem', reg'[4], reg'[REG_LR]) = TopIn(f, mem, reg[4], reg[REG_LR])
  BY <1>3 DEF TopIn
<1>6. \A r4 : CallersIn(gs, mem', r4) = CallersIn(gs, mem, r4)
  BY <1>1, <1>3, CallersKept
<1>7. Contexts' = Contexts
  BY <1>2, <1>3, <1>4, <1>5, <1>6
<1>8. Calls!Work
  BY <1>7 DEF Calls!Work
<1>9. Stacked(frames') /\ Tip(frames') = Low(f2)
  <2>1. f2.sp = Tip(gs)
    BY <1>1, <1>3
  <2>2. Stacked(Append(gs, f2))
    BY <1>1, <2>1, StackedAbove
  <2>3. f2 \in Frame /\ gs \in Seq(Frame)
    BY <1>1
  <2>4. Tip(Append(gs, f2)) = Low(f2)
    BY ONLY <2>3, LastOf
  <2>5. QED
    BY <1>3, <2>2, <2>4
<1>10. Settled(frames', reg')
  BY <1>9 DEF Settled
<1>11. QED
  BY <1>8, <1>10 DEF CallsStep

(* A push puts each register where the frame has its place. *)
LEMMA PushEffect ==
  ASSUME IInv, Roomy(reg[REG_SP]), NEW i \in Pushes, NEW l, l = Listed(i),
         NEW f \in Frame, f.sp = reg[REG_SP], f.pushed = i.register_list, f.locals = 0
  PROVE  /\ l.base = REG_SP /\ l.list = f.pushed /\ l.down = TRUE /\ InMemory(l)
         /\ \A r \in f.pushed : Slot(l, r) = HomeIn(f, r)
         /\ Beyond(l) = Low(f)
         /\ GoesOn(Executed(i), [reg EXCEPT ![REG_SP] = Beyond(l)], StoredAsListed(l), Length(i))
<1>1. /\ l.base = REG_SP /\ l.base \in Registers /\ l.list \in SUBSET Registers /\ l.list = f.pushed /\ l.down = TRUE
      /\ Executed(i) = storeRegisters(l.base, l.list, ~l.down, TRUE, Length(i))
  BY PushOperands
<1> DEFINE C == Cardinality(f.pushed)
           x == f.sp
<1>2. x \in Int /\ x > 4 * 16 /\ x < AddrMod /\ C \in 0 .. 16
  <2>1. f.pushed \in SUBSET (0 .. 15)
    BY FrameFields
  <2>2. QED
    BY <2>1, NotBelowZero, AtMostSixteen
<1>3. Low(f) = x - 4 * C
  BY <1>2 DEF Low
<1>4. Lowest(l) = Word(x - 4 * C)
  BY <1>1 DEF Lowest
<1> HIDE DEF C, x
<1>5. x - 4 * C \in Address
  BY <1>2, AddrModAssumption DEF Address
<1>6. Lowest(l) = x - 4 * C
  BY <1>4, <1>5, AddressIsWord
<1>7. InMemory(l)
  <2>1. Lowest(l) + 4 * C <= AddrMod
    BY <1>2, <1>6, AddrModAssumption
  <2>2. QED
    BY <1>1, <2>1 DEF InMemory, C
<1>8. ASSUME NEW r \in f.pushed PROVE Slot(l, r) = HomeIn(f, r)
  <2>1. Slot(l, r) = Word(Lowest(l) + 4 * Cardinality({q \in f.pushed : q < r}))
    BY <1>1 DEF Slot
  <2>2. HomeIn(f, r) = Word(x - 4 * C + 4 * Cardinality({q \in f.pushed : q < r}))
    BY DEF HomeIn, x, C
  <2>3. QED
    BY <1>6, <2>1, <2>2
<1>9. Beyond(l) = Low(f)
  <2>1. Beyond(l) = Word(Lowest(l))
    BY <1>1 DEF Beyond
  <2>2. QED
    BY <1>3, <1>5, <1>6, <2>1, AddressIsWord
<1>10. Executed(i) = Outcome([reg EXCEPT ![REG_SP] = Beyond(l)], StoredAsListed(l), TRUE, Length(i))
  <2> DEFINE writeback == TRUE
             length == Length(i)
             next == IF writeback THEN [reg EXCEPT ![l.base] = Beyond(l)] ELSE reg
  <2>1. RegFile /\ mem \in Memories /\ l.down \in BOOLEAN
    BY <1>1, RegistersOf
  <2>2. next = [reg EXCEPT ![REG_SP] = Beyond(l)]
    BY <1>1
  <2>3. Executed(i) = storeRegisters(l.base, l.list, ~l.down, writeback, length)
    BY <1>1
  <2> HIDE DEF writeback, length
  <2>4. storeRegisters(l.base, l.list, ~l.down, writeback, length) = Outcome(next, StoredAsListed(l), TRUE, length)
    <3>1. l.base \in Registers /\ l.list \in SUBSET Registers /\ InMemory(l)
      BY <1>1, <1>7
    <3>2. QED
      BY <2>1, <3>1, StoreBlock
  <2> HIDE DEF next
  <2>5. QED
    BY <2>2, <2>3, <2>4, Zenon DEF length
<1>11. QED
  BY <1>1, <1>7, <1>8, <1>9, <1>10 DEF GoesOn

LEMMA EnterSteps ==
  ASSUME IInv, IInv', Settled(frames, reg), NEW i \in Pushes, Enter(i), fits' PROVE Settled(frames', reg') /\ CallsStep
<1> DEFINE f == Current
           f2 == [f EXCEPT !.pushed = i.register_list]
           l == Listed(i)
           r == [reg EXCEPT ![REG_SP] = Beyond(l)]
           m == StoredAsListed(l)
           after == Executed(i)
<1>1. ~Main /\ f.pushed = {} /\ Do(i) /\ frames' = Append(Callers, f2)
  BY DEF Enter
<1>2. f \in Frame /\ Shaped(f) /\ reg[REG_SP] = Low(f)
  BY <1>1, TopFrame
<1> HIDE DEF f
<1>3. f.locals = 0 /\ Low(f) = f.sp /\ f.sp \in Int
  <2>1. f.locals = 0 /\ f.sp \in Int
    BY <1>1, <1>2, FrameFields DEF Shaped
  <2>2. Cardinality(f.pushed) = 0
    BY <1>1, FS_EmptySet
  <2>3. QED
    BY <2>1, <2>2 DEF Low
<1>4. Decoded(i) /\ REG_LR \in i.register_list /\ REG_SP \notin i.register_list /\ REG_PC \notin i.register_list
  BY ProceduresAssumption, CallsAssumption
<1>5. f2.sp = f.sp /\ f2.pushed = i.register_list /\ f2.locals = 0 /\ f2 \in Frame
  <2>1. i.register_list \in SUBSET Registers
    BY <1>4 DEF Decoded
  <2>2. QED
    BY <1>2, <1>3, <2>1 DEF Frame
<1> HIDE DEF f2
<1>6. Shaped(f2)
  BY <1>2, <1>4, <1>5 DEF Shaped
<1>7. /\ IsRegFile(reg) /\ RegFile /\ mem \in Memories /\ reg[REG_PC] % 2 = 0 /\ Roomy(reg[REG_SP])
  BY RegistersOf DEF Settled
<1>8. /\ l.base = REG_SP /\ l.list = f2.pushed /\ l.down = TRUE /\ InMemory(l)
      /\ \A q \in f2.pushed : Slot(l, q) = HomeIn(f2, q)
      /\ Beyond(l) = Low(f2)
      /\ GoesOn(after, r, m, Length(i))
  <2> HIDE DEF l
  <2>1. l = Listed(i)
    BY DEF l
  <2>2. QED
    BY <1>2, <1>3, <1>5, <1>7, <2>1, PushEffect
<1>9. reg' = after.reg /\ mem' = after.mem /\ Roomy(reg'[REG_SP])
  BY <1>1, DoWhileItFits
<1> HIDE DEF after, m, l
<1>10. l.base \in Registers /\ l.list \in SUBSET Registers /\ l.down \in BOOLEAN /\ Beyond(l) \in Address
  <2>1. l.base \in Registers /\ l.list \in SUBSET Registers /\ l.down \in BOOLEAN
    BY <1>5, <1>8, StackRegisters, FrameFields
  <2>2. QED
    BY <1>7, <2>1, BeyondIsAddress
<1>11. IsRegFile(r) /\ r[4] = reg[4] /\ r[REG_SP] = Low(f2) /\ r[REG_LR] = reg[REG_LR] /\ r[REG_PC] = reg[REG_PC]
  BY <1>7, <1>8, <1>10, StackRegisters, Put
<1> HIDE DEF r
<1>12. /\ after.mem = m /\ after.reg[REG_PC] % 2 = 0
       /\ \A q \in Registers : q # REG_PC => after.reg[q] = r[q]
  BY <1>7, <1>8, <1>11, LengthIs2Or4, PlainOutcome
<1>13. mem' = m /\ reg'[4] = reg[4] /\ reg'[REG_LR] = reg[REG_LR] /\ reg'[REG_SP] = Low(f2) /\ reg'[REG_PC] % 2 = 0
  BY <1>9, <1>11, <1>12, StackRegisters
<1>14. \A q \in f2.pushed : StackWord(HomeIn(f2, q)) /\ HomeIn(f2, q) + 4 <= f.sp
  BY <1>5, <1>6, <1>9, <1>13, Places
<1>15. ASSUME NEW q \in f2.pushed PROVE WordIn(mem', HomeIn(f2, q)) = reg[q]
  <2>1. q \in l.list /\ StackWord(Slot(l, q))
    BY <1>8, <1>14
  <2>2. WordIn(StoredAsListed(l), Slot(l, q)) = reg[q]
    BY <1>7, <1>8, <1>10, <2>1, StoredSlot
  <2>3. QED
    BY <1>8, <1>13, <2>2 DEF m
<1>16. Unchanged(mem, mem', f.sp)
  <2>1. \A q \in l.list : Slot(l, q) \in Address /\ Slot(l, q) + 4 <= f.sp
    BY <1>8, <1>14 DEF StackWord, Roomy
  <2>2. ChangesBelow(mem, StoredAsListed(l), f.sp)
    BY <1>3, <1>7, <2>1, StoredBelow
  <2>3. QED
    BY <1>3, <1>13, <2>2, BelowIsUnchanged DEF m
<1>17. SavedBy(f2, mem', reg'[4]) = SavedBy(f, mem, reg[4])
  BY <1>1, <1>13, <1>15 DEF SavedBy
<1>18. ReturnOf(f2, mem', reg'[REG_LR]) = ReturnOf(f, mem, reg[REG_LR])
  BY <1>1, <1>4, <1>5, <1>15 DEF ReturnOf
<1>19. LocalOf(f2, mem') = LocalOf(f, mem)
  BY <1>3, <1>5 DEF LocalOf
<1>20. QED
  BY <1>1, <1>5, <1>6, <1>9, <1>13, <1>16, <1>17, <1>18, <1>19, FrameSteps DEF f

(* A pop takes each register from the place that the frame has for one with as
   many registers below it. *)
PlaceOf(f, list, r) == Word(f.sp - 4 * Cardinality(f.pushed) + 4 * Cardinality({q \in list : q < r}))
Popped(next, i, f) ==
  /\ IsRegFile(next) /\ next[REG_SP] = f.sp
  /\ \A r \in Registers :
       r # REG_SP => next[r] = IF r \in i.register_list
                               THEN LoadedInto(r, WordIn(mem, PlaceOf(f, i.register_list, r))) ELSE reg[r]
  /\ REG_PC \notin i.register_list => GoesOn(Executed(i), next, mem, Length(i))
  /\ REG_PC \in i.register_list => Executed(i).reg = next /\ Executed(i).mem = mem

LEMMA PopEffect ==
  ASSUME IInv, NEW i \in Pops, NEW f \in Frame, f.locals = 0, Low(f) = reg[REG_SP],
         Cardinality(i.register_list) = Cardinality(f.pushed)
  PROVE  \E next : Popped(next, i, f)
<1> DEFINE l == Listed(i)
           loaded == LoadedAsListed(l)
           next == [loaded EXCEPT ![REG_SP] = Beyond(l)]
           C == Cardinality(f.pushed)
           x == f.sp
<1>1. /\ l.base = REG_SP /\ l.base \in Registers /\ l.list \in SUBSET Registers /\ l.list = i.register_list
      /\ l.down = FALSE /\ REG_SP \notin l.list
      /\ Executed(i) = loadRegisters(l.base, l.list, TRUE, Length(i))
  BY PopOperands
<1> HIDE DEF l
<1>2. RegFile /\ mem \in Memories /\ l.down \in BOOLEAN /\ reg[l.base] % 4 = 0 /\ reg[REG_SP] \in Address
  BY <1>1, RegistersOf, StackRegisters
<1>3. x \in Address /\ x \in Int /\ C \in Nat
  BY FrameFields
<1>4. reg[REG_SP] = x - 4 * C
  BY <1>3 DEF Low
<1> HIDE DEF C, x
<1>5. Beyond(l) = x
  <2>1. Beyond(l) = Word(reg[REG_SP] + 4 * C)
    BY <1>1 DEF Beyond, C
  <2>2. reg[REG_SP] + 4 * C = x
    BY <1>3, <1>4
  <2>3. QED
    BY <1>3, <2>1, <2>2, AddressIsWord
<1>6. \A r \in l.list : Slot(l, r) = PlaceOf(f, i.register_list, r)
  <2> SUFFICES ASSUME NEW r \in l.list PROVE Slot(l, r) = PlaceOf(f, i.register_list, r)
    OBVIOUS
  <2>1. Lowest(l) = x - 4 * C
    <3>1. Lowest(l) = Word(reg[REG_SP])
      BY <1>1 DEF Lowest
    <3>2. QED
      BY <1>2, <1>4, <3>1, AddressIsWord
  <2>2. Slot(l, r) = Word(x - 4 * C + 4 * Cardinality({q \in i.register_list : q < r}))
    BY <1>1, <2>1 DEF Slot
  <2>3. QED
    BY <2>2 DEF PlaceOf, x, C
<1>7. HasRoom(l)
  BY <1>1, <1>2, SlotsAligned DEF HasRoom
<1>8. /\ IsRegFile(loaded)
      /\ \A r \in Registers : loaded[r] = IF r \in l.list THEN LoadedInto(r, read_n(Slot(l, r), 4)) ELSE reg[r]
  BY <1>2, <1>7, LoadedRegisters
<1> HIDE DEF loaded
<1>9. IsRegFile(next) /\ next[REG_SP] = x /\ \A r \in Registers : r # REG_SP => next[r] = loaded[r]
  BY <1>1, <1>3, <1>5, <1>8 DEF IsRegFile
<1>10. Executed(i) = Outcome(next, mem, REG_PC \notin l.list, Length(i))
  <2> DEFINE writeback == TRUE
             length == Length(i)
             moved == IF writeback THEN [LoadedAsListed(l) EXCEPT ![l.base] = Beyond(l)] ELSE LoadedAsListed(l)
  <2>1. moved = next
    BY <1>1 DEF loaded
  <2>2. Executed(i) = loadRegisters(l.base, l.list, writeback, length)
    BY <1>1
  <2> HIDE DEF writeback, length
  <2>3. loadRegisters(l.base, l.list, writeback, length) = Outcome(moved, mem, REG_PC \notin l.list, length)
    BY <1>1, <1>2, LoadBlock
  <2> HIDE DEF moved, next
  <2>4. QED
    BY <2>1, <2>2, <2>3, Zenon DEF length
<1> HIDE DEF next
<1>11. ASSUME REG_PC \notin i.register_list PROVE GoesOn(Executed(i), next, mem, Length(i))
  <2>1. Executed(i) = [reg |-> [next EXCEPT ![REG_PC] = Word(@ + Length(i))], mem |-> mem]
    BY <1>1, <1>10, <1>11 DEF Outcome
  <2>2. QED
    BY <2>1 DEF GoesOn, Outcome
<1>12. ASSUME REG_PC \in i.register_list PROVE Executed(i).reg = next /\ Executed(i).mem = mem
  <2>1. Executed(i) = [reg |-> next, mem |-> mem]
    BY <1>1, <1>10, <1>12 DEF Outcome
  <2>2. QED
    BY <2>1
<1>13. ASSUME NEW r \in Registers, r # REG_SP
       PROVE  next[r] = IF r \in i.register_list
                        THEN LoadedInto(r, WordIn(mem, PlaceOf(f, i.register_list, r))) ELSE reg[r]
  <2>1. CASE r \in i.register_list
    <3>1. read_n(Slot(l, r), 4) = WordIn(mem, PlaceOf(f, i.register_list, r))
      BY <1>1, <1>6, <2>1, ReadIsWord
    <3>2. QED
      BY <1>1, <1>8, <1>9, <1>13, <2>1, <3>1
  <2>2. CASE r \notin i.register_list
    BY <1>1, <1>8, <1>9, <1>13, <2>2
  <2>3. QED
    BY <2>1, <2>2
<1>14. Popped(next, i, f)
  BY <1>9, <1>11, <1>12, <1>13 DEF Popped, x
<1>15. QED
  BY <1>14

LEMMA RestoreSteps ==
  ASSUME IInv, IInv', Settled(frames, reg), NEW i \in Pops, Restore(i), fits' PROVE Settled(frames', reg') /\ CallsStep
<1> DEFINE f == Current
           f2 == [f EXCEPT !.pushed = {}]
           after == Executed(i)
<1>1. /\ ~Main /\ f.locals = 0 /\ f.pushed # {} /\ i.register_list = f.pushed
      /\ Do(i) /\ frames' = Append(Callers, f2)
  BY DEF Restore
<1>2. f \in Frame /\ Shaped(f) /\ reg[REG_SP] = Low(f) /\ Roomy(Low(f))
  BY <1>1, TopFrame
<1> HIDE DEF f
<1>3. f2.sp = f.sp /\ f2.pushed = {} /\ f2.locals = 0 /\ f2 \in Frame
  BY <1>1, <1>2 DEF Frame
<1> HIDE DEF f2
<1>4. Shaped(f2)
  BY <1>2, <1>3 DEF Shaped
<1>5. Low(f2) = f.sp /\ f.sp \in Int
  <2>1. Cardinality(f2.pushed) = 0 /\ f.sp \in Int
    BY <1>2, <1>3, FS_EmptySet, FrameFields
  <2>2. QED
    BY <1>3, <2>1 DEF Low
<1>6. PICK next : Popped(next, i, f)
  BY <1>1, <1>2, PopEffect
<1>7. \A r \in f.pushed : PlaceOf(f, i.register_list, r) = HomeIn(f, r)
  BY <1>1 DEF PlaceOf, HomeIn
<1>8. REG_LR \in f.pushed /\ REG_SP \notin f.pushed /\ REG_PC \notin f.pushed
  BY <1>1, <1>2 DEF Shaped
<1>9. /\ IsRegFile(next) /\ next[REG_SP] = f.sp /\ next[REG_PC] = reg[REG_PC]
      /\ \A r \in f.pushed : next[r] = WordIn(mem, HomeIn(f, r))
      /\ 4 \notin f.pushed => next[4] = reg[4]
      /\ GoesOn(after, next, mem, Length(i))
  <2>1. f.pushed \in SUBSET Registers
    BY <1>2, FrameFields
  <2>2. \A r \in f.pushed : next[r] = LoadedInto(r, WordIn(mem, HomeIn(f, r)))
    BY <1>1, <1>6, <1>7, <1>8, <2>1 DEF Popped
  <2>3. \A r \in f.pushed : next[r] = WordIn(mem, HomeIn(f, r))
    BY <1>8, <2>2 DEF LoadedInto
  <2>4. QED
    BY <1>1, <1>6, <1>8, <2>3, StackRegisters DEF Popped
<1>10. reg' = after.reg /\ mem' = after.mem /\ Roomy(reg'[REG_SP])
  BY <1>1, DoWhileItFits
<1> HIDE DEF after
<1>11. reg[REG_PC] % 2 = 0
  BY DEF Settled
<1>12. /\ after.mem = mem /\ after.reg[REG_PC] % 2 = 0
       /\ \A q \in Registers : q # REG_PC => after.reg[q] = next[q]
  BY <1>9, <1>11, LengthIs2Or4, PlainOutcome
<1>13. mem' = mem /\ reg'[4] = next[4] /\ reg'[REG_LR] = next[REG_LR] /\ reg'[REG_SP] = f.sp /\ reg'[REG_PC] % 2 = 0
  BY <1>9, <1>10, <1>12, StackRegisters
<1>14. SavedBy(f2, mem', reg'[4]) = SavedBy(f, mem, reg[4])
  BY <1>3, <1>9, <1>13 DEF SavedBy
<1>15. ReturnOf(f2, mem', reg'[REG_LR]) = ReturnOf(f, mem, reg[REG_LR])
  BY <1>3, <1>8, <1>9, <1>13 DEF ReturnOf
<1>16. LocalOf(f2, mem') = LocalOf(f, mem)
  BY <1>1, <1>3 DEF LocalOf
<1>17. Unchanged(mem, mem', f.sp)
  BY <1>13, NothingUnchanged
<1>18. reg'[REG_SP] = Low(f2)
  BY <1>5, <1>13
<1>19. QED
  BY <1>1, <1>3, <1>4, <1>10, <1>13, <1>14, <1>15, <1>16, <1>17, <1>18, FrameSteps DEF f

(* With pc in the list for lr, the same places are read. *)
LEMMA PcForLr ==
  ASSUME NEW f \in Frame, Shaped(f), f.pushed # {}, NEW list, list = (f.pushed \ {REG_LR}) \cup {REG_PC}
  PROVE  /\ Cardinality(list) = Cardinality(f.pushed)
         /\ PlaceOf(f, list, REG_PC) = HomeIn(f, REG_LR)
         /\ 4 \in f.pushed => PlaceOf(f, list, 4) = HomeIn(f, 4)
<1>1. f.pushed \in SUBSET (0 .. 15) /\ REG_LR \in f.pushed /\ REG_PC \notin f.pushed /\ f.pushed \in SUBSET f.pushed
  BY FrameFields DEF Shaped
<1>2. Cardinality(list) = Cardinality(f.pushed)
  <2> DEFINE rest == f.pushed \ {REG_LR}
  <2>1. IsFiniteSet(f.pushed) /\ Cardinality(f.pushed) \in Nat
    BY <1>1, FinitePart
  <2>2. IsFiniteSet(rest) /\ Cardinality(rest) = Cardinality(f.pushed) - 1
    BY <1>1, <2>1, FS_RemoveElement
  <2>3. REG_PC \notin rest /\ list = rest \cup {REG_PC}
    BY <1>1
  <2> HIDE DEF rest
  <2>4. Cardinality(rest \cup {REG_PC}) = Cardinality(rest) + 1
    BY <2>2, <2>3, FS_AddElement
  <2>5. Cardinality(list) = Cardinality(rest) + 1
    BY <2>3, <2>4
  <2>6. QED
    BY ONLY <2>1, <2>2, <2>5
<1>3. {q \in list : q < REG_PC} = {q \in f.pushed : q < REG_LR}
  BY <1>1 DEF REG_LR, REG_PC
<1>4. {q \in list : q < 4} = {q \in f.pushed : q < 4}
  BY <1>1 DEF REG_LR, REG_PC
<1>5. QED
  BY <1>2, <1>3, <1>4 DEF PlaceOf, HomeIn

LEMMA LeaveSteps ==
  ASSUME IInv, IInv', Settled(frames, reg), NEW i \in Pops, Leave(i), fits' PROVE Settled(frames', reg') /\ CallsStep
<1> DEFINE f == Current
           after == Executed(i)
<1>1. /\ ~Main /\ f.locals = 0 /\ f.pushed # {} /\ i.register_list = (f.pushed \ {REG_LR}) \cup {REG_PC}
      /\ Do(i) /\ frames' = Callers
  BY DEF Leave
<1>2. f \in Frame /\ Shaped(f) /\ reg[REG_SP] = Low(f) /\ Roomy(Low(f))
  BY <1>1, TopFrame
<1> HIDE DEF f
<1>3. /\ Cardinality(i.register_list) = Cardinality(f.pushed)
      /\ PlaceOf(f, i.register_list, REG_PC) = HomeIn(f, REG_LR)
      /\ 4 \in f.pushed => PlaceOf(f, i.register_list, 4) = HomeIn(f, 4)
  BY <1>1, <1>2, PcForLr
<1>4. PICK next : Popped(next, i, f)
  BY <1>1, <1>2, <1>3, PopEffect
<1>5. REG_LR \in f.pushed
  BY <1>1, <1>2 DEF Shaped
<1>6. next[REG_PC] = Even(WordIn(mem, HomeIn(f, REG_LR)))
  <2>1. REG_PC \in i.register_list
    BY <1>1
  <2>2. next[REG_PC] = LoadedInto(REG_PC, WordIn(mem, HomeIn(f, REG_LR)))
    BY <1>3, <1>4, <2>1, StackRegisters DEF Popped
  <2>3. QED
    BY <2>2 DEF LoadedInto
<1>7. next[4] = SavedBy(f, mem, reg[4])
  <2>1. 4 \in i.register_list <=> 4 \in f.pushed
    BY <1>1, StackRegisters
  <2>2. 4 \in f.pushed => next[4] = LoadedInto(4, WordIn(mem, HomeIn(f, 4)))
    BY <1>3, <1>4, <2>1, StackRegisters DEF Popped
  <2>3. 4 \notin f.pushed => next[4] = reg[4]
    BY <1>4, <2>1, StackRegisters DEF Popped
  <2>4. QED
    BY <2>2, <2>3, StackRegisters DEF SavedBy, LoadedInto
<1>8. reg' = next /\ mem' = mem /\ next[REG_SP] = f.sp
  <2>1. reg' = after.reg /\ mem' = after.mem
    BY <1>1, DoWhileItFits
  <2>2. after.reg = next /\ after.mem = mem /\ next[REG_SP] = f.sp
    BY <1>1, <1>4 DEF Popped
  <2>3. QED
    BY <2>1, <2>2
<1> HIDE DEF after
<1>9. reg'[REG_PC] = ReturnOf(f, mem, reg[REG_LR])
  BY <1>5, <1>6, <1>8 DEF ReturnOf
<1>10. reg'[REG_PC] % 2 = 0
  <2> DEFINE a == HomeIn(f, REG_LR)
             v == read_n(a, 4)
  <2>1. StackWord(a)
    BY <1>2, <1>5, Places
  <2> HIDE DEF a
  <2>2. v \in Address
    BY <2>1, StackWordFits, ReadIsAddress, RegistersOf
  <2> HIDE DEF v
  <2>3. Even(v) % 2 = 0
    BY <2>2, EvenIsAddress
  <2>4. v = WordIn(mem, a)
    BY ReadIsWord DEF v
  <2>5. QED
    BY <1>6, <1>8, <2>3, <2>4 DEF a
<1>11. QED
  BY <1>1, <1>7, <1>8, <1>9, <1>10, ReturnSteps DEF f

------------------------------------------------------------------------------
(* Loads and stores of global data stay below the stack, and change the
   registers that they write by their listing. *)
LEMMA WriteBelow ==
  ASSUME NEW m \in Memories, NEW a \in Address, NEW n \in {1, 2, 4}, NEW v \in Int, NEW low \in Int, a + n <= low
  PROVE  ChangesBelow(m, write_n(m, a, n, v), low)
<1> SUFFICES ASSUME NEW s \in DOMAIN Machine, NEW k \in 0 .. SliceLength(Machine[s]) - 1, Machine[s].begin + k >= low
             PROVE  write_n(m, a, n, v)[s][k] = m[s][k]
  BY DEF ChangesBelow
<1>1. a \in Int /\ Machine[s].begin \in Int /\ k \in Int
  BY MachineAssumption, AddrModAssumption DEF Address
<1>2. ~(Machine[s].begin + k - a \in 0 .. n - 1)
  BY <1>1
<1>3. ~Lands(a, n, s, k)
  BY <1>2 DEF Lands
<1>4. PutsBytes(m, a, n, v)
  BY WriteByte
<1>5. QED
  BY <1>3, <1>4 DEF PutsBytes

LEMMA BothBelow ==
  ASSUME NEW m1, NEW m2, NEW m3, NEW low, ChangesBelow(m1, m2, low), ChangesBelow(m2, m3, low) PROVE ChangesBelow(m1, m3, low)
BY DEF ChangesBelow

LEMMA DataIsBelow ==
  ASSUME NEW sp, Roomy(sp), NEW start \in Address, NEW n \in Nat \ {0}, start + n <= AddrMod,
         {Word(start + k) : k \in 0 .. n - 1} \subseteq Globals
  PROVE  start + n <= sp
<1> DEFINE k == n - 1
           g == start + k
<1>1. start \in Int /\ sp \in Int /\ k \in 0 .. n - 1 /\ k \in Nat
  BY AddrModAssumption DEF Roomy, Address
<1>2. g \in Address
  BY <1>1, AddrModAssumption DEF Address
<1>3. Word(start + k) \in Globals
  BY <1>1
<1> HIDE DEF k
<1>4. g \in Globals
  BY <1>2, <1>3, AddressIsWord
<1>5. g < sp
  BY <1>4 DEF Roomy
<1>6. QED
  BY <1>1, <1>5 DEF k

(* Whatever i transfers. *)
DataDone(next, m, i) ==
  /\ IsRegFile(next) /\ \A r \in Registers : r \notin Written(i) => next[r] = reg[r]
  /\ ChangesBelow(mem, m, reg[REG_SP])
  /\ GoesOn(Executed(i), next, m, Length(i))

LEMMA SingleDone ==
  ASSUME IInv, Roomy(reg[REG_SP]), NEW i, Decoded(i), i.op \notin Blocks, Lawful(i), ~Misprinted(i), ~ByteByRegister(i),
         Footprint(i) \subseteq Globals
  PROVE  \E next, m : DataDone(next, m, i)
<1> DEFINE l == Listed(i)
           a == Accessed(l)
           dual == i.op \in {"ldrd_imm", "strd_imm"}
           n == IF dual THEN 8 ELSE Width(i)
           v1 == read_n(a, Width(i))
           v2 == read_n(Word(a + 4), 4)
           next == [r \in Registers |->
                      IF i.op \in Loads /\ r = i.Rt THEN v1
                      ELSE IF i.op \in Loads /\ dual /\ r = i.Rtx THEN v2
                      ELSE IF l.mode # "offset" /\ r = l.base THEN Word(Named(l))
                      ELSE reg[r]]
           first == write_n(mem, a, Width(i), reg[i.Rt])
           stored == IF i.op \in Loads THEN mem
                     ELSE IF dual THEN write_n(first, Word(a + 4), 4, reg[i.Rtx])
                     ELSE first
<1>1. RegFile /\ mem \in Memories /\ reg[REG_SP] \in Int
  BY RegistersOf, StackRegisters
<1>2. GoesOn(Executed(i), next, stored, Length(i))
  <2>1. Executed(i) = AsListed(i)
    BY <1>1, EveryAccessAsListed
  <2>2. AsListed(i) = SingleAsListed(i, l)
    BY SingleIsListed
  <2>3. SingleAsListed(i, l) = Outcome(next, stored, TRUE, Length(i))
    BY DEF SingleAsListed
  <2> HIDE DEF l, next, stored
  <2>4. QED
    BY <2>1, <2>2, <2>3 DEF GoesOn
<1>3. NamesWell(i, l)
  BY <1>1, ListingIsNamed
<1>4. a + n <= AddrMod /\ {Word(a + k) : k \in 0 .. n - 1} \subseteq Globals
  BY DEF Lawful, Footprint, Start, Extent
<1>5. i.Rt \in Registers /\ i.Rtx \in Registers /\ i.Rn \in Registers
  BY DEF Decoded
<1>6. Width(i) \in {1, 2, 4} /\ (dual => Width(i) = 4)
  BY Widths DEF Width
<1>7. /\ i.op \in Loads => i.Rt \in Written(i)
      /\ i.op \in Loads /\ dual => i.Rtx \in Written(i)
      /\ l.mode # "offset" => i.Rn \in Written(i)
  BY DEF Written, Updates, Loads
<1> HIDE DEF l
<1>8. a \in Address /\ Word(Named(l)) \in Address
  BY <1>3, AccessIsAddress
<1>9. l.mode # "offset" => l.base = i.Rn
  BY <1>3 DEF NamesWell
<1> HIDE DEF a, dual
<1>10. n \in Nat \ {0} /\ Width(i) <= n /\ (dual => n = 8)
  BY <1>6
<1> HIDE DEF n
<1>11. a + n <= reg[REG_SP]
  BY <1>4, <1>8, <1>10, DataIsBelow
<1>12. a \in Nat
  BY <1>8, AddrModAssumption DEF Address
<1>13. dual => Word(a + 4) = a + 4 /\ a + 4 \in Address /\ (a + 4) + 4 <= AddrMod /\ (a + 4) + 4 <= reg[REG_SP]
  <2>1. dual => a + 4 \in Address /\ (a + 4) + 4 <= AddrMod /\ (a + 4) + 4 <= reg[REG_SP]
    BY <1>1, <1>4, <1>10, <1>11, <1>12, AddrModAssumption DEF Address
  <2>2. dual => Word(a + 4) = a + 4
    BY <2>1, AddressIsWord
  <2>3. QED
    BY <2>1, <2>2
<1>14. a + Width(i) <= AddrMod /\ a + Width(i) <= reg[REG_SP]
  BY <1>1, <1>4, <1>6, <1>10, <1>11, <1>12, AddrModAssumption
<1>15. v1 \in Address
  BY <1>1, <1>6, <1>8, <1>14, ReadIsAddress
<1>16. dual => v2 \in Address
  <2> SUFFICES ASSUME dual PROVE v2 \in Address
    OBVIOUS
  <2> DEFINE c == a + 4
  <2>1. c \in Address /\ c + 4 <= AddrMod /\ Word(a + 4) = c
    BY <1>13
  <2> HIDE DEF c
  <2>2. read_n(c, 4) \in Address
    BY <1>1, <2>1, ReadIsAddress
  <2>3. QED
    BY <2>1, <2>2
<1>17. IsRegFile(next)
  <2>1. \A r \in Registers : reg[r] \in Address
    BY <1>1, RegisterIsAddress
  <2> HIDE DEF v1, v2
  <2>2. \A r \in Registers : next[r] \in Address
    BY <1>8, <1>15, <1>16, <2>1
  <2>3. next = [r \in Registers |-> next[r]]
    OBVIOUS
  <2> HIDE DEF next
  <2>4. QED
    BY <2>2, <2>3 DEF IsRegFile
<1>18. \A r \in Registers : r \notin Written(i) => next[r] = reg[r]
  <2> HIDE DEF v1, v2
  <2>1. QED
    BY <1>7, <1>9
<1>19. ChangesBelow(mem, stored, reg[REG_SP])
  <2>1. reg[i.Rt] \in Int /\ reg[i.Rtx] \in Int
    BY <1>1, <1>5, RegisterIsAddress
  <2>2. first \in Memories
    BY <1>1, <1>6, <1>8, <2>1, WriteByte
  <2>3. ChangesBelow(mem, first, reg[REG_SP])
    BY <1>1, <1>6, <1>8, <1>14, <2>1, WriteBelow
  <2> HIDE DEF first
  <2>4. ASSUME dual PROVE ChangesBelow(mem, write_n(first, Word(a + 4), 4, reg[i.Rtx]), reg[REG_SP])
    <3> DEFINE c == Word(a + 4)
               width == 4
    <3>1. c \in Address /\ c + width <= reg[REG_SP] /\ width \in {1, 2, 4}
      BY <1>13, <2>4
    <3>2. 4 = width
      OBVIOUS
    <3> HIDE DEF c, width
    <3>3. ChangesBelow(first, write_n(first, c, width, reg[i.Rtx]), reg[REG_SP])
      BY <1>1, <2>1, <2>2, <3>1, WriteBelow
    <3>4. ChangesBelow(mem, write_n(first, c, width, reg[i.Rtx]), reg[REG_SP])
      BY <2>3, <3>3, BothBelow
    <3>5. QED
      BY <3>4 DEF c, width
  <2>5. ChangesBelow(mem, mem, reg[REG_SP])
    BY DEF ChangesBelow
  <2>6. QED
    BY <2>3, <2>4, <2>5
<1> HIDE DEF next, stored
<1>20. QED
  BY <1>2, <1>17, <1>18, <1>19 DEF DataDone

LEMMA BlockSlotsBelow ==
  ASSUME IInv, Roomy(reg[REG_SP]), NEW i, Decoded(i), i.op \in Blocks, Lawful(i), Footprint(i) \subseteq Globals,
         NEW l, l = Listed(i)
  PROVE  InMemory(l) /\ \A r \in l.list : Slot(l, r) \in Address /\ Slot(l, r) + 4 <= reg[REG_SP]
<1> DEFINE C == Cardinality(l.list)
           low == Lowest(l)
           n == 4 * C
<1>1. l.base \in Registers /\ l.list \in SUBSET (0 .. 15) /\ l.list \in SUBSET Registers /\ l.list = i.register_list
  BY BlockOperands, ListOfNumbers
<1>2. C \in Nat /\ reg[REG_SP] \in Int
  <2>1. l.list \in SUBSET l.list
    OBVIOUS
  <2>2. C \in Nat
    BY <1>1, <2>1, FinitePart
  <2>3. QED
    BY <2>2, RegistersOf, StackRegisters
<1>3. low \in Address /\ low \in Nat
  <2>1. reg[l.base] \in Int
    BY <1>1, RegistersOf
  <2>2. reg[l.base] - 4 * C \in Int
    BY <1>2, <2>1
  <2>3. low \in Address
    BY <2>1, <2>2, WordIsAddress DEF Lowest
  <2> HIDE DEF low
  <2>4. QED
    BY <2>3, AddrModAssumption DEF Address
<1>4. low + n <= AddrMod /\ {Word(low + k) : k \in 0 .. n - 1} \subseteq Globals
  BY <1>1 DEF Lawful, Footprint, Start, Extent
<1>5. InMemory(l)
  BY <1>4 DEF InMemory
<1>6. ASSUME NEW r \in l.list PROVE Slot(l, r) \in Address /\ Slot(l, r) + 4 <= reg[REG_SP]
  <2> DEFINE c == Cardinality({q \in l.list : q < r})
             a == low + 4 * c
  <2>1. c \in Nat /\ c + 1 <= C
    BY <1>1, CountPlace
  <2>2. Slot(l, r) = Word(a)
    BY DEF Slot
  <2> HIDE DEF c, C, low
  <2>3. n \in Nat \ {0} /\ a + 4 <= low + n
    BY <1>2, <1>3, <2>1
  <2>4. low + n <= reg[REG_SP]
    <3> HIDE DEF n
    <3>1. QED
      BY <1>3, <1>4, <2>3, DataIsBelow
  <2>5. a \in Address
    BY <1>2, <1>3, <1>4, <2>1, <2>3, AddrModAssumption DEF Address
  <2>6. Slot(l, r) = a
    BY <2>2, <2>5, AddressIsWord
  <2>7. a \in Int
    BY <1>3, <2>1
  <2> HIDE DEF a
  <2>8. QED
    BY <1>2, <1>3, <2>3, <2>4, <2>5, <2>6, <2>7
<1>7. QED
  BY <1>5, <1>6

LEMMA BlockDone ==
  ASSUME IInv, Roomy(reg[REG_SP]), NEW i, Decoded(i), i.op \in {"ldm", "stm", "stmdb"}, Lawful(i), ~Misprinted(i),
         REG_PC \notin i.register_list, Footprint(i) \subseteq Globals
  PROVE  \E next, m : DataDone(next, m, i)
<1> DEFINE l == Listed(i)
           u == l.update
           start == IF i.op = "ldm" THEN LoadedAsListed(l) ELSE reg
           next == IF u THEN [start EXCEPT ![l.base] = Beyond(l)] ELSE start
           m == IF i.op = "ldm" THEN mem ELSE StoredAsListed(l)
<1>1. i.op \in Blocks
  BY DEF Blocks
<1>2. /\ l.base = i.Rn /\ l.base \in Registers /\ l.list \in SUBSET Registers /\ l.list = i.register_list
      /\ l.down \in BOOLEAN /\ (i.op = "ldm" => l.down = FALSE)
  <2>1. /\ l.base \in Registers /\ l.list \in SUBSET Registers /\ l.list = i.register_list
        /\ l.base = IF i.op \in {"push", "pop"} THEN REG_SP ELSE i.Rn
        /\ l.down = (i.op \in {"push", "stmdb"})
    BY <1>1, BlockOperands
  <2>2. (i.op \in {"push", "stmdb"}) \in BOOLEAN /\ (i.op = "ldm" => (i.op \in {"push", "stmdb"}) = FALSE)
    OBVIOUS
  <2>3. i.op \notin {"push", "pop"}
    OBVIOUS
  <2> HIDE DEF l
  <2>4. QED
    BY <2>1, <2>2, <2>3
<1>3. InMemory(l) /\ \A r \in l.list : Slot(l, r) \in Address /\ Slot(l, r) + 4 <= reg[REG_SP]
  BY <1>1, BlockSlotsBelow
<1>4. RegFile /\ IsRegFile(reg) /\ mem \in Memories /\ reg[REG_SP] \in Int
  BY RegistersOf, StackRegisters
<1>5. Executed(i) = IF i.op \in {"ldm", "pop"} THEN loadRegisters(l.base, l.list, u, Length(i))
                    ELSE storeRegisters(l.base, l.list, ~l.down, u, Length(i))
  BY <1>1, BlockHandlers
<1>6. /\ i.op = "ldm" => l.list \subseteq Written(i)
      /\ u => i.Rn \in Written(i)
  BY <1>1, <1>2 DEF Written, Updates, Loads
<1> HIDE DEF l, u
<1>7. GoesOn(Executed(i), next, m, Length(i))
  <2> DEFINE length == Length(i)
  <2>1. CASE i.op = "ldm"
    <3> DEFINE loaded == IF u THEN [LoadedAsListed(l) EXCEPT ![l.base] = Beyond(l)] ELSE LoadedAsListed(l)
    <3>1. loadRegisters(l.base, l.list, u, length) = Outcome(loaded, mem, REG_PC \notin l.list, length)
      <4> HIDE DEF length
      <4>1. QED
        BY <1>2, <1>4, <2>1, LoadBlock
    <3>2. loaded = next /\ m = mem
      BY <2>1
    <3>3. Executed(i) = loadRegisters(l.base, l.list, u, length)
      BY <1>5, <2>1
    <3> HIDE DEF loaded, next, m
    <3>4. Executed(i) = [reg |-> [next EXCEPT ![REG_PC] = Word(@ + length)], mem |-> m]
      BY <1>2, <3>1, <3>2, <3>3 DEF Outcome
    <3>5. QED
      BY <3>4 DEF GoesOn, Outcome
  <2>2. CASE i.op # "ldm"
    <3> DEFINE moved == IF u THEN [reg EXCEPT ![l.base] = Beyond(l)] ELSE reg
    <3>1. storeRegisters(l.base, l.list, ~l.down, u, length) = Outcome(moved, StoredAsListed(l), TRUE, length)
      <4> HIDE DEF length
      <4>1. QED
        BY <1>2, <1>3, <1>4, StoreBlock
    <3>2. moved = next /\ m = StoredAsListed(l)
      BY <2>2
    <3>3. Executed(i) = storeRegisters(l.base, l.list, ~l.down, u, length)
      BY <1>5, <2>2
    <3> HIDE DEF moved, next, m
    <3>4. Executed(i) = Outcome(next, m, TRUE, length)
      BY <3>1, <3>2, <3>3, Zenon
    <3>5. QED
      BY <3>4 DEF GoesOn
  <2>3. QED
    BY <2>1, <2>2
<1>8. IsRegFile(start) /\ \A r \in Registers : r \notin Written(i) => start[r] = reg[r]
  <2>1. CASE i.op = "ldm"
    <3> DEFINE loaded == LoadedAsListed(l)
    <3>1. HasRoom(l)
      BY <1>2, <1>3, <1>4, SlotsApart DEF HasRoom
    <3>2. IsRegFile(loaded) /\ \A r \in Registers : loaded[r] = IF r \in l.list THEN LoadedInto(r, read_n(Slot(l, r), 4)) ELSE reg[r]
      BY <1>4, <3>1, LoadedRegisters
    <3>3. start = loaded
      BY <2>1
    <3> HIDE DEF loaded, start
    <3>4. QED
      BY <1>6, <2>1, <3>2, <3>3
  <2>2. CASE i.op # "ldm"
    BY <1>4, <2>2
  <2>3. QED
    BY <2>1, <2>2
<1>9. Beyond(l) \in Address
  BY <1>2, <1>4, BeyondIsAddress
<1> HIDE DEF start
<1>10. IsRegFile(next) /\ \A r \in Registers : r \notin Written(i) => next[r] = reg[r]
  <2>1. CASE u
    BY <1>2, <1>6, <1>8, <1>9, <2>1, Put
  <2>2. CASE ~u
    BY <1>8, <2>2
  <2>3. QED
    BY <2>1, <2>2
<1>11. ChangesBelow(mem, m, reg[REG_SP])
  <2>1. ChangesBelow(mem, mem, reg[REG_SP])
    BY DEF ChangesBelow
  <2>2. ChangesBelow(mem, StoredAsListed(l), reg[REG_SP])
    BY <1>3, <1>4, StoredBelow
  <2>3. QED
    BY <2>1, <2>2
<1> HIDE DEF next, m
<1>12. QED
  BY <1>7, <1>10, <1>11 DEF DataDone

LEMMA DataSteps ==
  ASSUME IInv, IInv', Settled(frames, reg), NEW i \in DataInsns, Data(i), fits' PROVE Settled(frames', reg') /\ CallsStep
<1> DEFINE after == Executed(i)
<1>1. /\ Lawful(i) /\ Footprint(i) \subseteq Globals /\ (4 \in Written(i) => OwnsR4)
      /\ Do(i) /\ frames' = frames
  BY DEF Data
<1>2. Decoded(i) /\ i.op \notin {"push", "pop"} /\ ~Misprinted(i) /\ ~ByteByRegister(i)
  BY ProceduresAssumption, CallsAssumption
<1>3. ({i.Rn, i.Rt, i.Rtx} \cup i.register_list) \cap {REG_SP, REG_LR, REG_PC} = {}
  BY ProceduresAssumption
<1>4. /\ reg[REG_SP] = Tip(frames) /\ Roomy(reg[REG_SP]) /\ reg[REG_PC] % 2 = 0 /\ IsRegFile(reg) /\ reg[REG_SP] \in Int
  BY RegistersOf, StackRegisters DEF Settled
<1>5. PICK next, m : DataDone(next, m, i)
  <2>1. CASE i.op \in Blocks
    <3>1. i.op \in {"ldm", "stm", "stmdb"} /\ REG_PC \notin i.register_list
      BY <1>2, <1>3, <2>1 DEF Blocks
    <3>2. QED
      BY <1>1, <1>2, <1>4, <3>1, BlockDone
  <2>2. CASE i.op \notin Blocks
    BY <1>1, <1>2, <1>4, <2>2, SingleDone
  <2>3. QED
    BY <2>1, <2>2
<1>6. REG_SP \notin Written(i) /\ REG_LR \notin Written(i) /\ REG_PC \notin Written(i)
  <2>1. Written(i) \subseteq {i.Rn, i.Rt, i.Rtx} \cup i.register_list
    BY DEF Written
  <2>2. QED
    BY <1>3, <2>1
<1>7. /\ IsRegFile(next) /\ next[REG_SP] = reg[REG_SP] /\ next[REG_LR] = reg[REG_LR] /\ next[REG_PC] = reg[REG_PC]
      /\ 4 \notin Written(i) => next[4] = reg[4]
      /\ ChangesBelow(mem, m, reg[REG_SP]) /\ GoesOn(after, next, m, Length(i))
  BY <1>5, <1>6, StackRegisters DEF DataDone
<1>8. reg' = after.reg /\ mem' = after.mem
  BY <1>1, DoWhileItFits
<1> HIDE DEF after
<1>9. /\ after.mem = m /\ after.reg[REG_PC] % 2 = 0
      /\ \A q \in Registers : q # REG_PC => after.reg[q] = next[q]
  BY <1>4, <1>7, LengthIs2Or4, PlainOutcome
<1>10. reg'[REG_LR] = reg[REG_LR] /\ reg'[REG_SP] = reg[REG_SP] /\ reg'[REG_PC] % 2 = 0 /\ mem' = m
  BY <1>7, <1>8, <1>9, StackRegisters
<1>11. ~Main => (reg'[4] = reg[4] \/ 4 \in Current.pushed)
  <2>1. CASE 4 \in Written(i)
    BY <1>1, <2>1 DEF OwnsR4
  <2>2. CASE 4 \notin Written(i)
    BY <1>7, <1>8, <1>9, <2>2, StackRegisters
  <2>3. QED
    BY <2>1, <2>2
<1>12. Unchanged(mem, mem', Tip(frames))
  BY <1>4, <1>7, <1>10, BelowIsUnchanged
<1>13. QED
  BY <1>1, <1>10, <1>11, <1>12, WorkSteps

------------------------------------------------------------------------------
(* The invariant, and the step of Activations that a step maps to. *)
CInv == IInv /\ (fits => Settled(frames, reg))

LEMMA InitSettles == Init => CInv /\ Calls!Init
<1> SUFFICES ASSUME Init PROVE CInv /\ Calls!Init
  OBVIOUS
<1>1. IInv
  BY InitIsKept
<1>2. reg[REG_SP] = StackTop /\ reg[4] = 0 /\ reg[REG_PC] = 0 /\ frames = <<>> /\ fits = TRUE
  <2>1. frames = <<>> /\ fits = TRUE
    BY DEF Init
  <2>2. reg = [r \in Registers |-> CASE r = REG_SP -> StackTop [] r = REG_LR -> AddrMod - 1 [] r = 0 -> Pointer [] OTHER -> 0]
    BY DEF Init
  <2>3. reg[REG_SP] = StackTop
    BY <2>2, StackRegisters DEF REG_SP, REG_LR
  <2>4. reg[4] = 0
    BY <2>2, StackRegisters DEF REG_SP, REG_LR
  <2>5. reg[REG_PC] = 0
    BY <2>2, StackRegisters DEF REG_SP, REG_LR, REG_PC
  <2>6. QED
    BY <2>1, <2>3, <2>4, <2>5
<1>3. Stacked(<<>>) /\ Tip(<<>>) = StackTop
  <2>1. \A k \in 1 .. Len(<<>>) : FALSE
    OBVIOUS
  <2>2. \A k \in 1 .. Len(<<>>) - 1 : FALSE
    OBVIOUS
  <2>3. QED
    BY <2>1, <2>2 DEF Stacked, Tip
<1>4. Roomy(StackTop)
  BY ProceduresAssumption, CallsAssumption DEF Roomy
<1>5. Settled(frames, reg)
  BY <1>2, <1>3, <1>4 DEF Settled
<1>6. Contexts = <<>>
  <2>1. \A k : k \in 1 .. Len(<<>>) <=> k \in 1 .. 0
    OBVIOUS
  <2>2. Contexts = [k \in 1 .. 0 |-> Context(k)]
    BY <1>2, <2>1 DEF Contexts
  <2>3. QED
    BY <2>2
<1>7. Calls!Init
  BY <1>2, <1>6 DEF Calls!Init
<1>8. QED
  BY <1>1, <1>5, <1>7 DEF CInv

LEMMA ActionSettles ==
  ASSUME IInv, IInv', Settled(frames, reg), Next, fits' PROVE Settled(frames', reg') /\ CallsStep
<1>1. CASE Call
  BY <1>1, CallSteps
<1>2. CASE OpenLocal
  BY <1>2, OpenLocalSteps
<1>3. CASE CloseLocal
  BY <1>3, CloseLocalSteps
<1>4. CASE SetLocal
  BY <1>4, SetLocalSteps
<1>5. CASE GetLocal
  BY <1>5, GetLocalSteps
<1>6. CASE Back
  BY <1>6, BackSteps
<1>7. CASE Loop
  BY <1>7, LoopSteps
<1>8. ASSUME NEW i \in Pushes, Enter(i) PROVE Settled(frames', reg') /\ CallsStep
  BY <1>8, EnterSteps
<1>9. ASSUME NEW i \in Pops, Leave(i) \/ Restore(i) PROVE Settled(frames', reg') /\ CallsStep
  BY <1>9, LeaveSteps, RestoreSteps
<1>10. ASSUME NEW i \in DataInsns, Data(i) PROVE Settled(frames', reg') /\ CallsStep
  BY <1>10, DataSteps
<1>11. ASSUME NEW v \in Values, Move(v) PROVE Settled(frames', reg') /\ CallsStep
  BY <1>11, MoveSteps
<1>12. QED
  BY <1>1, <1>2, <1>3, <1>4, <1>5, <1>6, <1>7, <1>8, <1>9, <1>10, <1>11 DEF Next

LEMMA FitsBefore == ASSUME Next, fits' PROVE fits
BY DEF Next, Call, OpenLocal, CloseLocal, SetLocal, GetLocal, Back, Loop, Enter, Leave, Restore, Data, Move, Do

LEMMA StepSettles == CInv /\ [Next]_vars => CInv' /\ [Calls!Next]_Calls!vars
<1> SUFFICES ASSUME CInv, [Next]_vars PROVE CInv' /\ [Calls!Next]_Calls!vars
  OBVIOUS
<1>1. IInv /\ (fits => Settled(frames, reg)) /\ IInv'
  BY StepIsKept DEF CInv
<1>2. CASE UNCHANGED vars
  <2>1. reg' = reg /\ mem' = mem /\ frames' = frames /\ fits' = fits
    BY <1>2 DEF vars, transfer_vars
  <2>2. Contexts' = Contexts
    BY <2>1, ContextsByState
  <2>3. UNCHANGED Calls!vars
    BY <2>1, <2>2 DEF Calls!vars
  <2>4. fits' => Settled(frames', reg')
    BY <1>1, <2>1
  <2>5. QED
    BY <1>1, <2>3, <2>4 DEF CInv
<1>3. CASE Next /\ fits'
  <2>1. fits
    BY <1>3, FitsBefore
  <2>2. Settled(frames', reg') /\ CallsStep
    BY <1>1, <1>3, <2>1, ActionSettles
  <2>3. Calls!Next
    BY <2>1, <2>2 DEF CallsStep, Calls!Next
  <2>4. QED
    BY <1>1, <2>2, <2>3 DEF CInv
<1>4. CASE Next /\ ~fits'
  <2>1. Calls!Next
    BY <1>4 DEF Calls!Next
  <2>2. QED
    BY <1>1, <1>4, <2>1 DEF CInv
<1>5. QED
  BY <1>2, <1>3, <1>4

(* Where the code has its stack pointer is where the frames say, for any code that
   the assumption admits: it is what push, pop, ldm, stmdb, add and sub of sp in
   impl_emulation.c leave in it. *)
THEOREM StackStaysSettled == Spec => []StackSettled
<1>1. Spec => []CInv
  BY InitSettles, StepSettles, PTL DEF Spec
<1>2. CInv => StackSettled
  BY DEF CInv, StackSettled
<1>3. QED
  BY <1>1, <1>2, PTL

(* Calls work, on any machine and for any code that the assumption admits: as long
   as the stack fits, every procedure returns behind its call with the caller's r4,
   stack pointer and local variable, whatever bl, push, pop, ldm, stmdb and bx of
   impl_emulation.c have done with the words on the stack in between. *)
THEOREM ProceduresKeepContexts == Spec => ImplementsActivations
<1>1. Init => CInv /\ Calls!Init
  BY InitSettles
<1>2. CInv /\ [Next]_vars => CInv' /\ [Calls!Next]_Calls!vars
  BY StepSettles
<1>3. Spec => Calls!Init /\ [][Calls!Next]_Calls!vars
  BY <1>1, <1>2, PTL DEF Spec
<1>4. QED
  BY <1>3, PTL DEF ImplementsActivations, Calls!Spec
==============================================================================

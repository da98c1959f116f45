----------------------------- MODULE Alu_proofs -----------------------------
(* Proofs about Alu, for words of any width. *)
EXTENDS Alu, TLAPS

(* Arithmetic on uint32_t gives words. *)
LEMMA WordIsWord == ASSUME NEW v \in Int PROVE Word(v) \in Words
BY HalfAssumption DEF Word, Words, Size

(* A sum of two words wraps once at most. *)
LEMMA SumOfWords ==
  ASSUME NEW x \in Words, NEW y \in Words
  PROVE  Word(x + y) = IF x + y < Size THEN x + y ELSE x + y - Size
BY HalfAssumption DEF Word, Words, Size

(* Wrapping may be put off to the end of a sum. *)
LEMMA SumOfThree ==
  ASSUME NEW x \in Words, NEW y \in Words, NEW c \in {0, 1}
  PROVE  Word(x + Word(y + c)) = Word(x + y + c)
<1>1. CASE y + c < Size
  <2>1. Word(y + c) = y + c
    BY <1>1, HalfAssumption DEF Word, Words, Size
  <2>2. x + Word(y + c) = x + y + c
    BY <2>1 DEF Words, Size
  <2>3. QED
    BY <2>2
<1>2. CASE y + c >= Size
  <2>1. y + c = Size /\ Word(y + c) = 0
    BY <1>2, HalfAssumption DEF Word, Words, Size
  <2>2. Word(x) = x
    BY HalfAssumption DEF Word, Words, Size
  <2>3. Word(x + Size) = x
    BY HalfAssumption DEF Word, Words, Size
  <2>4. x + y + c = x + Size /\ x + Word(y + c) = x
    BY <2>1 DEF Words, Size
  <2>5. QED
    BY <2>2, <2>3, <2>4
<1>3. QED
  BY <1>1, <1>2, HalfAssumption DEF Words, Size

(* Every way to compute the flags gives flags. *)
LEMMA FlagsAreFlags ==
  ASSUME flags \in Flags, NEW x \in Words, NEW y \in Words, NEW b \in BOOLEAN
  PROVE  /\ addCondCode(x, y) \in Flags
         /\ subCondCodes(x, y) \subseteq Flags
         /\ setMov(x) \in Flags
         /\ setLsl(x, b) \in Flags
<1>1. addCondCode(x, y) \in Flags
  BY DEF addCondCode, Flags
<1>2. ASSUME NEW f \in subCondCodes(x, y) PROVE f \in Flags
  <2>1. PICK d \in Overflowing(Signed(x) - Signed(y)), o \in Overflowing(Signed(y) - Signed(x) - 1) :
          f = [n |-> d < 0, z |-> x = y, c |-> x >= y,
               v |-> /\ (Signed(x) >= 0) # (Signed(y) >= 0)
                     /\ (o >= 0) = (y > x)]
    BY DEF subCondCodes
  <2>2. QED
    BY <2>1 DEF Flags
<1>3. ASSUME NEW n \in BOOLEAN, NEW z \in BOOLEAN
      PROVE  /\ [flags EXCEPT !.n = n, !.z = z] \in Flags
             /\ [flags EXCEPT !.n = n, !.z = z, !.c = b] \in Flags
  BY DEF Flags
<1>4. (x >= Half) \in BOOLEAN /\ (x = 0) \in BOOLEAN
  OBVIOUS
<1>5. setMov(x) \in Flags /\ setLsl(x, b) \in Flags
  BY <1>3, <1>4, Zenon DEF setMov, setLsl
<1>6. QED
  BY <1>1, <1>2, <1>5

(* addCondCode: the carry is that of the exact sum, N differs from V exactly when
   the exact sum of the signed operands is negative, and V says that this sum is
   no int32_t. *)
LEMMA AddIsExact ==
  ASSUME NEW x \in Words, NEW y \in Words
  PROVE  /\ addCondCode(x, y).c <=> x + y >= Size
         /\ (addCondCode(x, y).n # addCondCode(x, y).v) <=> Signed(x) + Signed(y) < 0
         /\ addCondCode(x, y).v <=> Signed(x) + Signed(y) \notin -Half .. Half - 1
<1> DEFINE r == Word(x + y)
<1>1. r = IF x + y < Size THEN x + y ELSE x + y - Size
  BY SumOfWords
<1>2. /\ x \in Int /\ x >= 0 /\ x < Size
      /\ y \in Int /\ y >= 0 /\ y < Size
      /\ Size = 2 * Half /\ Half \in Int /\ Half > 0
  BY HalfAssumption DEF Words, Size
<1> HIDE DEF r
<1>3. (r < x \/ r < y) <=> x + y >= Size
  BY <1>1, <1>2
<1>4. /\ Signed(x) = IF x < Half THEN x ELSE x - Size
      /\ Signed(y) = IF y < Half THEN y ELSE y - Size
  BY DEF Signed
<1>5. /\ (x >= Half /\ y >= Half) => Signed(x) + Signed(y) = x + y - 2 * Size
      /\ (x >= Half /\ y < Half) => Signed(x) + Signed(y) = x + y - Size
      /\ (x < Half /\ y >= Half) => Signed(x) + Signed(y) = x + y - Size
      /\ (x < Half /\ y < Half) => Signed(x) + Signed(y) = x + y
  BY <1>2, <1>4
<1> DEFINE n == r >= Half
           v == (x >= Half) = (y >= Half) /\ (x >= Half) # (r >= Half)
<1>6. (n # v) <=> Signed(x) + Signed(y) < 0
  BY <1>1, <1>2, <1>5
<1>7. v <=> Signed(x) + Signed(y) \notin -Half .. Half - 1
  BY <1>1, <1>2, <1>5
<1>8. addCondCode(x, y) = [n |-> n, z |-> r = 0, c |-> r < x \/ r < y, v |-> v]
  BY DEF addCondCode, r
<1> HIDE DEF n, v
<1>9. addCondCode(x, y).c = (r < x \/ r < y) /\ addCondCode(x, y).n = n /\ addCondCode(x, y).v = v
  BY <1>8
<1>10. QED
  BY <1>3, <1>6, <1>7, <1>9

(* subCondCode: whatever becomes of the overflowing expressions, Z and C are those
   of the unsigned comparison. *)
LEMMA SubCompares ==
  ASSUME NEW x \in Words, NEW y \in Words, NEW f \in subCondCodes(x, y)
  PROVE  (f.z <=> x = y) /\ (f.c <=> x >= y)
<1>1. PICK d \in Overflowing(Signed(x) - Signed(y)), o \in Overflowing(Signed(y) - Signed(x) - 1) :
          f = [n |-> d < 0, z |-> x = y, c |-> x >= y,
               v |-> /\ (Signed(x) >= 0) # (Signed(y) >= 0)
                     /\ (o >= 0) = (y > x)]
  BY DEF subCondCodes
<1>2. QED
  BY <1>1

------------------------------------------------------------------------------
(* Division leaves a remainder. *)
LEMMA DivMod ==
  ASSUME NEW a \in Nat, NEW b \in Nat \ {0}
  PROVE  /\ a \div b \in Nat /\ a % b \in 0 .. b - 1
         /\ a = b * (a \div b) + (a % b)
OBVIOUS

(* There is only one quotient. *)
LEMMA OneQuotient ==
  ASSUME NEW b \in Nat \ {0}, NEW k \in Int, NEW s \in 0 .. b - 1, NEW m \in Int, NEW t \in 0 .. b - 1,
         b * k + s = b * m + t
  PROVE  k = m
<1>1. b * (k - m) = t - s
  OBVIOUS
<1>2. ~(k - m >= 1)
  <2>1. k - m >= 1 => b * (k - m) >= b
    OBVIOUS
  <2>2. QED
    BY <1>1, <2>1
<1>3. ~(m - k >= 1)
  <2>1. m - k >= 1 => b * (m - k) >= b
    OBVIOUS
  <2>2. b * (m - k) = s - t
    OBVIOUS
  <2>3. QED
    BY <2>1, <2>2
<1>4. QED
  BY <1>2, <1>3

LEMMA DivUnique ==
  ASSUME NEW a \in Nat, NEW b \in Nat \ {0}, NEW k \in Nat, NEW s \in 0 .. b - 1, a = b * k + s
  PROVE  a \div b = k
<1>1. /\ a \div b \in Nat /\ a % b \in 0 .. b - 1
      /\ a = b * (a \div b) + (a % b)
  BY DivMod
<1>2. QED
  BY <1>1, OneQuotient

(* A factor of both cancels. *)
LEMMA ScaledDiv ==
  ASSUME NEW x \in Nat, NEW f \in Nat \ {0}, NEW q \in Nat \ {0}
  PROVE  (x * f) \div (q * f) = x \div q
<1> DEFINE k == x \div q
           r == x % q
<1>1. k \in Nat /\ r \in 0 .. q - 1 /\ x = q * k + r
  BY DivMod
<1> HIDE DEF k, r
<1>2. x * f = (q * f) * k + r * f
  <2>1. (q * k + r) * f = (q * f) * k + r * f
    BY <1>1
  <2>2. QED
    BY <1>1, <2>1
<1>3. r * f \in 0 .. q * f - 1
  <2>1. r * f >= 0
    BY <1>1
  <2>2. (q - r) * f >= 1
    BY <1>1
  <2>3. (q - r) * f = q * f - r * f
    BY <1>1
  <2>4. QED
    BY <1>1, <2>1, <2>2, <2>3
<1>4. q * f \in Nat \ {0} /\ x * f \in Nat
  OBVIOUS
<1>5. (x * f) \div (q * f) = k
  BY <1>1, <1>2, <1>3, <1>4, DivUnique
<1>6. QED
  BY <1>5 DEF k

(* The last bit below the point is whether the remainder is half the divisor. *)
LEMMA HalfOfRemainder ==
  ASSUME NEW x \in Nat, NEW h \in Nat \ {0}
  PROVE  (x \div h) % 2 = 1 <=> x % (2 * h) >= h
<1> DEFINE k == x \div (2 * h)
           r == x % (2 * h)
<1>1. k \in Nat /\ r \in 0 .. 2 * h - 1 /\ x = (2 * h) * k + r
  <2> DEFINE d == 2 * h
  <2>1. d \in Nat \ {0}
    OBVIOUS
  <2> HIDE DEF d
  <2>2. x \div d \in Nat /\ x % d \in 0 .. d - 1 /\ x = d * (x \div d) + (x % d)
    BY <2>1, DivMod
  <2>3. QED
    BY <2>2 DEF d
<1> HIDE DEF k, r
<1>2. (2 * h) * k = h * (2 * k)
  BY <1>1
<1>3. CASE r < h
  <2>1. 2 * k \in Nat /\ r \in 0 .. h - 1 /\ x = h * (2 * k) + r
    BY <1>1, <1>2, <1>3
  <2>2. x \div h = 2 * k
    <3> DEFINE m == 2 * k
    <3> HIDE DEF m
    <3> QED  BY <2>1, DivUnique DEF m
  <2>3. (2 * k) % 2 = 0
    BY <1>1
  <2>4. QED
    BY <1>1, <1>3, <2>2, <2>3 DEF r
<1>4. CASE ~(r < h)
  <2>1. h * (2 * k + 1) = h * (2 * k) + h
    BY <1>1
  <2>2. 2 * k + 1 \in Nat /\ r - h \in 0 .. h - 1 /\ x = h * (2 * k + 1) + (r - h)
    BY <1>1, <1>2, <1>4, <2>1
  <2>3. x \div h = 2 * k + 1
    <3> DEFINE m == 2 * k + 1
               t == r - h
    <3>1. m \in Nat /\ t \in 0 .. h - 1 /\ x = h * m + t
      BY <2>2
    <3> HIDE DEF m, t
    <3>2. x \div h = m
      BY <3>1, DivUnique
    <3>3. QED
      BY <3>2 DEF m
  <2>4. (2 * k + 1) % 2 = 1
    BY <1>1
  <2>5. QED
    BY <1>1, <1>4, <2>3, <2>4 DEF r
<1>5. QED
  BY <1>3, <1>4

(* What the factor of a shift leaves of the word. *)
LEMMA Factor ==
  ASSUME NEW f \in Factors
  PROVE  /\ f \in Nat \ {0} /\ (f = 1 \/ f % 2 = 0)
         /\ Size \div f \in Nat \ {0} /\ Size = (Size \div f) * f
<1>1. f \in Nat \ {0} /\ (f = 1 \/ f % 2 = 0)
  BY FactorsAssumption
<1>2. PICK q \in 1 .. Size : Size = q * f
  BY FactorsAssumption
<1>3. Size \in Nat
  BY HalfAssumption DEF Size
<1> HIDE DEF Size
<1>4. q \in Nat /\ q # 0
  BY <1>2, <1>3
<1>5. Size = f * q + 0 /\ 0 \in 0 .. f - 1
  BY <1>1, <1>2, <1>4
<1>6. Size \div f = q
  BY <1>1, <1>3, <1>4, <1>5, DivUnique
<1>7. QED
  BY <1>1, <1>2, <1>4, <1>6

(* Bit 32 of the word shifted left as a uint64_t, and the top bit for a shift by
   one, are the last bit moved out at the top. *)
LEMMA TopBitOut ==
  ASSUME NEW x \in Words, NEW f \in Factors, f # 1
  PROVE  /\ OutAtTop(x, f) \in {0, 1}
         /\ ((x * f) \div Size) % 2 = 1 <=> OutAtTop(x, f) = 1
         /\ f = 2 => (x >= Half <=> OutAtTop(x, f) = 1)
<1> DEFINE q == Size \div f
<1>1. f \in Nat \ {0} /\ q \in Nat \ {0} /\ Size = q * f /\ x \in Nat
  BY Factor DEF Words
<1>2. OutAtTop(x, f) = (x \div q) % 2
  BY DEF OutAtTop
<1> HIDE DEF q
<1>3. (x * f) \div Size = x \div q
  BY <1>1, ScaledDiv
<1>4. x \div q \in Nat
  BY <1>1, DivMod
<1>5. (x \div q) % 2 \in {0, 1}
  BY <1>4
<1>6. ASSUME f = 2 PROVE x >= Half <=> (x \div q) % 2 = 1
  <2>1. q = Half /\ Half \in Nat \ {0} /\ x < 2 * Half
    BY <1>1, <1>6, HalfAssumption DEF Size, Words
  <2>2. CASE x < Half
    <3>1. x = Half * 0 + x /\ x \in 0 .. Half - 1
      BY <1>1, <2>1, <2>2
    <3>2. x \div Half = 0
      BY <1>1, <2>1, <3>1, DivUnique
    <3>3. x \div q = 0 /\ 0 % 2 # 1
      BY <2>1, <3>2
    <3>4. QED
      BY <1>1, <2>1, <2>2, <3>3
  <2>3. CASE ~(x < Half)
    <3>1. x = Half * 1 + (x - Half) /\ x - Half \in 0 .. Half - 1
      BY <1>1, <2>1, <2>3
    <3>2. x \div Half = 1
      <4> DEFINE t == x - Half
      <4> HIDE DEF t
      <4> QED  BY <1>1, <2>1, <3>1, DivUnique DEF t
    <3>3. x \div q = 1 /\ 1 % 2 = 1
      BY <2>1, <3>2
    <3>4. QED
      BY <1>1, <2>1, <2>3, <3>3
  <2>4. QED
    BY <2>2, <2>3
<1>7. QED
  BY <1>2, <1>3, <1>5, <1>6

(* Bit n - 1 of the operand is the last bit moved out at the bottom. *)
LEMMA BottomBitOut ==
  ASSUME NEW x \in Words, NEW f \in Factors, f # 1, NEW carry \in BitsBelow(x, f)
  PROVE  OutAtBottom(x, f) \in {0, 1} /\ (carry <=> OutAtBottom(x, f) = 1)
<1> DEFINE h == f \div 2
<1>1. f = 2 * h /\ h \in Nat \ {0} /\ x \in Nat
  BY Factor DEF Words
<1>2. OutAtBottom(x, f) = IF x % f >= h THEN 1 ELSE 0
  BY DEF OutAtBottom
<1>3. carry <=> (x \div h) % 2 = 1
  BY DEF BitsBelow
<1> HIDE DEF h
<1>4. (x \div h) % 2 = 1 <=> x % f >= h
  BY <1>1, HalfOfRemainder
<1>5. QED
  BY <1>2, <1>3, <1>4

(* Shifts give words. *)
LEMMA ShiftsAreWords ==
  ASSUME NEW x \in Words, NEW f \in Factors
  PROVE  /\ Word(x * f) \in Words
         /\ x \div f \in Words
         /\ Word(Signed(x) \div f) \in Words
         /\ (x % f) * (Size \div f) + (x \div f) \in Words
<1> DEFINE q == Size \div f
           u == x % f
           w == x \div f
<1>1. f \in Nat \ {0} /\ q \in Nat \ {0} /\ Size = q * f /\ x \in Nat /\ x < Size
  BY Factor, HalfAssumption DEF Words, Size
<1>2. w \in Nat /\ u \in 0 .. f - 1 /\ x = f * w + u
  BY <1>1, DivMod
<1>3. Word(x * f) \in Words
  BY <1>1, WordIsWord
<1>4. Word(Signed(x) \div f) \in Words
  <2>1. Signed(x) \in Int
    BY <1>1, HalfAssumption DEF Signed, Size
  <2>2. Signed(x) \div f \in Int
    BY <1>1, <2>1
  <2>3. QED
    BY <2>2, WordIsWord
<1> HIDE DEF q, u, w
<1>5. w < q
  <2>1. w >= q => f * w >= f * q
    BY <1>1, <1>2
  <2>2. QED
    BY <1>1, <1>2, <2>1
<1>6. w \in Words
  <2>1. q <= q * f
    BY <1>1
  <2>2. QED
    BY <1>1, <1>2, <1>5, <2>1 DEF Words
<1>7. u * q + w \in Words
  <2>1. u * q <= (f - 1) * q
    BY <1>1, <1>2
  <2>2. (f - 1) * q = Size - q
    BY <1>1
  <2>3. u * q \in Nat
    BY <1>1, <1>2
  <2>4. u * q + w < Size /\ u * q + w \in Nat
    BY <1>1, <1>2, <1>5, <2>1, <2>2, <2>3
  <2>5. QED
    BY <1>1, <2>4 DEF Words
<1>8. QED
  BY <1>3, <1>4, <1>6, <1>7 DEF q, u, w

------------------------------------------------------------------------------
(* The carry that is due is in the flags. *)
CarryKept == carry_due # NoCarry => (flags.c <=> carry_due = 1)

IInv == TypeOK /\ UnsignedComparisonsDecided /\ SumsDecided /\ CarryKept

LEMMA InitIInv == Init => IInv
<1> SUFFICES ASSUME Init PROVE IInv
  OBVIOUS
<1>1. TypeOK
  BY HalfAssumption DEF Init, TypeOK, NoFlags, Flags, Undecided, NoCarry, Words, Size
<1>2. UnsignedComparisonsDecided /\ SumsDecided /\ CarryKept
  BY DEF Init, UnsignedComparisonsDecided, SumsDecided, CarryKept, Undecided
<1>3. QED
  BY <1>1, <1>2 DEF IInv

(* The conditions the properties speak of, by the flags. *)
LEMMA ConditionsByFlags ==
  ASSUME NEW f \in Flags
  PROVE  /\ cond_satisfied(f, 0) <=> f.z
         /\ cond_satisfied(f, 1) <=> ~f.z
         /\ cond_satisfied(f, 2) <=> f.c
         /\ cond_satisfied(f, 3) <=> ~f.c
         /\ cond_satisfied(f, 6) <=> f.v
         /\ cond_satisfied(f, 8) <=> f.c /\ ~f.z
         /\ cond_satisfied(f, 9) <=> ~(f.c /\ ~f.z)
         /\ cond_satisfied(f, 10) <=> ~(f.n # f.v)
         /\ cond_satisfied(f, 11) <=> f.n # f.v
BY DEF cond_satisfied, Flags

(* An instruction that leaves the flags alone. *)
LEMMA KeptIInv == ASSUME IInv, KeepFlags, result' \in Words PROVE IInv'
<1>1. TypeOK'
  BY DEF IInv, TypeOK, KeepFlags
<1>2. UnsignedComparisonsDecided' /\ SumsDecided' /\ CarryKept'
  BY Zenon DEF IInv, KeepFlags, UnsignedComparisonsDecided, SumsDecided, CarryKept
<1>3. QED
  BY <1>1, <1>2 DEF IInv

(* One that sets them to what is no verdict on its operands. *)
LEMMA UndecidedIInv ==
  ASSUME flags' \in Flags, decided' = Undecided, carry_due' = NoCarry, result' \in Words
  PROVE  IInv'
<1>1. Undecided \in [op : {"none", "add", "sub"}, x : Words, y : Words]
  BY HalfAssumption DEF Undecided, Words, Size
<1>2. TypeOK'
  BY <1>1 DEF TypeOK
<1>3. UnsignedComparisonsDecided' /\ SumsDecided' /\ CarryKept'
  BY DEF Undecided, UnsignedComparisonsDecided, SumsDecided, CarryKept
<1>4. QED
  BY <1>2, <1>3 DEF IInv

(* One that compares its operands. *)
LEMMA ComparedIInv ==
  ASSUME IInv, NEW x \in Words, NEW y \in Words, result' \in Words,
         flags' \in subCondCodes(x, y),
         decided' = [op |-> "sub", x |-> x, y |-> y], carry_due' = NoCarry
  PROVE  IInv'
<1>1. flags' \in Flags
  BY FlagsAreFlags DEF IInv, TypeOK
<1>2. TypeOK'
  BY <1>1 DEF TypeOK
<1>3. SumsDecided' /\ CarryKept'
  BY DEF SumsDecided, CarryKept
<1>4. (flags'.z <=> x = y) /\ (flags'.c <=> x >= y)
  BY SubCompares
<1>5. decided'.x = x /\ decided'.y = y
  OBVIOUS
<1>6. x \in Int /\ y \in Int
  BY DEF Words
<1>7. /\ cond_satisfied(flags', 0) <=> flags'.z
      /\ cond_satisfied(flags', 1) <=> ~flags'.z
      /\ cond_satisfied(flags', 2) <=> flags'.c
      /\ cond_satisfied(flags', 3) <=> ~flags'.c
      /\ cond_satisfied(flags', 8) <=> flags'.c /\ ~flags'.z
      /\ cond_satisfied(flags', 9) <=> ~(flags'.c /\ ~flags'.z)
  BY <1>1, ConditionsByFlags
<1>8. UnsignedComparisonsDecided'
  BY <1>4, <1>5, <1>6, <1>7 DEF UnsignedComparisonsDecided
<1>9. QED
  BY <1>2, <1>3, <1>8 DEF IInv

(* One that sets them by the sum of its operands. *)
LEMMA SummedIInv ==
  ASSUME IInv, NEW x \in Words, NEW y \in Words, result' \in Words,
         flags' = addCondCode(x, y),
         decided' = [op |-> "add", x |-> x, y |-> y],
         carry_due' = IF x + y >= Size THEN 1 ELSE 0
  PROVE  IInv'
<1>1. flags' \in Flags
  BY FlagsAreFlags DEF IInv, TypeOK
<1>2. TypeOK'
  BY <1>1 DEF TypeOK
<1>3. UnsignedComparisonsDecided'
  BY DEF UnsignedComparisonsDecided
<1>4. /\ flags'.c <=> x + y >= Size
      /\ (flags'.n # flags'.v) <=> Signed(x) + Signed(y) < 0
      /\ flags'.v <=> Signed(x) + Signed(y) \notin -Half .. Half - 1
  BY AddIsExact
<1>5. CarryKept'
  BY <1>4 DEF CarryKept, NoCarry
<1>6. decided'.x = x /\ decided'.y = y
  OBVIOUS
<1>7. /\ cond_satisfied(flags', 2) <=> flags'.c
      /\ cond_satisfied(flags', 6) <=> flags'.v
      /\ cond_satisfied(flags', 10) <=> ~(flags'.n # flags'.v)
      /\ cond_satisfied(flags', 11) <=> flags'.n # flags'.v
  BY <1>1, ConditionsByFlags
<1>8. Signed(x) + Signed(y) \in Int
  BY HalfAssumption DEF Signed, Words, Size
<1>9. SumsDecided'
  BY <1>4, <1>6, <1>7, <1>8 DEF SumsDecided
<1>10. QED
  BY <1>2, <1>3, <1>5, <1>9 DEF IInv

(* Moves and logic leave the carry alone. *)
LEMMA MovedIInv == ASSUME IInv, NEW r \in Words, Move(r) PROVE IInv'
<1>1. result' \in Words
  BY HalfAssumption DEF IInv, TypeOK, Move, Words, Size
<1>2. flags' \in Flags /\ flags'.c = flags.c
  <2>1. flags \in Flags
    BY DEF IInv, TypeOK
  <2>2. setMov(r) \in Flags
    BY <2>1, FlagsAreFlags
  <2>3. setMov(r).c = flags.c
    BY <2>1 DEF setMov, Flags
  <2>4. QED
    BY <2>2, <2>3 DEF Move
<1>3. Undecided \in [op : {"none", "add", "sub"}, x : Words, y : Words]
  BY HalfAssumption DEF Undecided, Words, Size
<1>4. TypeOK'
  BY <1>1, <1>2, <1>3 DEF IInv, TypeOK, Move
<1>5. CarryKept'
  BY <1>2 DEF IInv, CarryKept, Move
<1>6. UnsignedComparisonsDecided' /\ SumsDecided'
  BY DEF Move, Undecided, UnsignedComparisonsDecided, SumsDecided
<1>7. QED
  BY <1>4, <1>5, <1>6 DEF IInv

(* A shift that sets the flags; the bit that is due is the carry it sets. *)
LEMMA ShiftedIInv ==
  ASSUME IInv, NEW r \in Words, NEW carry \in BOOLEAN, NEW due \in {NoCarry, 0, 1},
         due # NoCarry => (carry <=> due = 1),
         result' = r, ShiftFlags(r, carry, due)
  PROVE  IInv'
<1>1. flags' \in Flags /\ flags'.c = carry
  <2>1. flags \in Flags
    BY DEF IInv, TypeOK
  <2>2. setLsl(r, carry) \in Flags
    BY <2>1, FlagsAreFlags
  <2>3. setLsl(r, carry).c = carry
    BY <2>1 DEF setLsl, Flags
  <2>4. QED
    BY <2>2, <2>3 DEF ShiftFlags
<1>2. Undecided \in [op : {"none", "add", "sub"}, x : Words, y : Words]
  BY HalfAssumption DEF Undecided, Words, Size
<1>3. TypeOK'
  BY <1>1, <1>2 DEF TypeOK, ShiftFlags
<1>4. CarryKept'
  BY <1>1 DEF CarryKept, ShiftFlags
<1>5. UnsignedComparisonsDecided' /\ SumsDecided'
  BY DEF ShiftFlags, Undecided, UnsignedComparisonsDecided, SumsDecided
<1>6. QED
  BY <1>3, <1>4, <1>5 DEF IInv

(* The bits that are due after a shift. *)
LEMMA DueBits ==
  ASSUME NEW x \in Words, NEW f \in Factors
  PROVE  OutAtTop(x, f) \in {NoCarry, 0, 1} /\ OutAtBottom(x, f) \in {NoCarry, 0, 1}
<1>1. OutAtTop(x, f) \in {NoCarry, 0, 1}
  BY TopBitOut DEF OutAtTop
<1>2. OutAtBottom(x, f) \in {NoCarry, 0, 1}
  BY DEF OutAtBottom
<1>3. QED
  BY <1>1, <1>2

(* Every shift preserves the invariant. *)
LEMMA ShiftsIInv ==
  ASSUME IInv, NEW x \in Words, NEW f \in Factors,
         lsl_imm(x, f) \/ lsl(x, f) \/ lsr(x, f) \/ asr(x, f) \/ ror(x, f)
  PROVE  IInv'
<1>1. /\ Word(x * f) \in Words
      /\ x \div f \in Words
      /\ Word(Signed(x) \div f) \in Words
      /\ (x % f) * (Size \div f) + (x \div f) \in Words
  BY ShiftsAreWords
<1>2. OutAtTop(x, f) \in {NoCarry, 0, 1} /\ OutAtBottom(x, f) \in {NoCarry, 0, 1}
  BY DueBits
<1>3. f = 1 => OutAtTop(x, f) = NoCarry /\ OutAtBottom(x, f) = NoCarry
  BY DEF OutAtTop, OutAtBottom
<1>4. \A carry \in BitsBelow(x, f) : carry \in BOOLEAN
  BY DEF BitsBelow
<1>5. CASE KeepFlags
  BY <1>1, <1>5, KeptIInv DEF lsl_imm, lsl, lsr, asr, ror
<1>6. CASE ~KeepFlags /\ lsl_imm(x, f)
  <2> DEFINE carry == ((x * f) \div Size) % 2 = 1
  <2>1. carry \in BOOLEAN
    OBVIOUS
  <2>2. OutAtTop(x, f) # NoCarry => (carry <=> OutAtTop(x, f) = 1)
    BY <1>3, TopBitOut
  <2>3. result' = Word(x * f) /\ ShiftFlags(Word(x * f), carry, OutAtTop(x, f))
    BY <1>6 DEF lsl_imm
  <2> HIDE DEF carry
  <2>4. QED
    BY <1>1, <1>2, <2>1, <2>2, <2>3, ShiftedIInv
<1>7. CASE ~KeepFlags /\ lsl(x, f)
  <2> DEFINE carry == x >= Half
             due == IF f = 2 THEN OutAtTop(x, f) ELSE NoCarry
  <2>1. carry \in BOOLEAN /\ due \in {NoCarry, 0, 1}
    BY <1>2
  <2>2. due # NoCarry => (carry <=> due = 1)
    BY TopBitOut
  <2>3. result' = Word(x * f) /\ ShiftFlags(Word(x * f), carry, due)
    BY <1>7 DEF lsl
  <2> HIDE DEF carry, due
  <2>4. QED
    BY <1>1, <2>1, <2>2, <2>3, ShiftedIInv
<1>8. CASE ~KeepFlags /\ lsr(x, f)
  <2>1. PICK carry \in BitsBelow(x, f) : ShiftFlags(x \div f, carry, OutAtBottom(x, f))
    BY <1>8 DEF lsr
  <2>2. OutAtBottom(x, f) # NoCarry => (carry <=> OutAtBottom(x, f) = 1)
    BY <1>3, BottomBitOut
  <2>3. carry \in BOOLEAN /\ result' = x \div f
    BY <1>4, <1>8 DEF lsr
  <2>4. QED
    BY <1>1, <1>2, <2>1, <2>2, <2>3, ShiftedIInv
<1>9. CASE ~KeepFlags /\ asr(x, f)
  <2> DEFINE r == Word(Signed(x) \div f)
  <2>1. PICK carry \in BitsBelow(x, f) : ShiftFlags(r, carry, OutAtBottom(x, f))
    BY <1>9 DEF asr
  <2>2. OutAtBottom(x, f) # NoCarry => (carry <=> OutAtBottom(x, f) = 1)
    BY <1>3, BottomBitOut
  <2>3. carry \in BOOLEAN /\ result' = r
    BY <1>4, <1>9 DEF asr
  <2>4. r \in Words
    BY <1>1
  <2> HIDE DEF r
  <2>5. QED
    BY <1>2, <2>1, <2>2, <2>3, <2>4, ShiftedIInv
<1>10. CASE ~KeepFlags /\ ror(x, f)
  <2> DEFINE r == (x % f) * (Size \div f) + (x \div f)
  <2>1. result' = r /\ ShiftFlags(r, FALSE, NoCarry)
    BY <1>10 DEF ror
  <2>2. r \in Words
    BY <1>1
  <2> HIDE DEF r
  <2>3. QED
    BY <2>1, <2>2, ShiftedIInv
<1>11. QED
  BY <1>5, <1>6, <1>7, <1>8, <1>9, <1>10

(* Every instruction preserves the invariant. *)
LEMMA NextIInv == IInv /\ [Next]_vars => IInv'
<1> SUFFICES ASSUME IInv, [Next]_vars PROVE IInv'
  OBVIOUS
<1> USE DEF Words
<1>0. TypeOK /\ Carry \in Int
  BY DEF IInv, Carry
<1>1. ASSUME NEW x \in Words, NEW y \in Words, Add(x, y) PROVE IInv'
  <2>1. result' \in Words
    BY <1>1, WordIsWord DEF Add
  <2>2. QED
    BY <1>1, <2>1, KeptIInv, SummedIInv DEF Add
<1>2. ASSUME NEW x \in Words, NEW y \in Words, Sub(x, y) PROVE IInv'
  <2>1. result' \in Words
    BY <1>2, WordIsWord DEF Sub
  <2>2. QED
    BY <1>2, <2>1, KeptIInv, ComparedIInv DEF Sub
<1>3. ASSUME NEW x \in Words, NEW y \in Words, Cmp(x, y) PROVE IInv'
  BY <1>0, <1>3, ComparedIInv DEF Cmp, TypeOK
<1>4. ASSUME NEW x \in Words, NEW y \in Words PROVE Word(x + Word(y + Carry)) \in Words
  <2>1. Word(y + Carry) \in Int
    BY <1>0, WordIsWord
  <2>2. QED
    BY <2>1, WordIsWord
<1>5. ASSUME NEW x \in Words, NEW y \in Words, Adc(x, y) PROVE IInv'
  BY <1>4, <1>5, KeptIInv DEF Adc
<1>6. ASSUME NEW x \in Words, NEW y \in Words, NEW old \in Words, Adcs(x, y, old) PROVE IInv'
  <2>1. Word(y + Carry + 1) \in Words /\ Word(y + Carry) \in Words
    BY <1>0, WordIsWord
  <2>2. flags' \in Flags
    BY <1>0, <1>6, <2>1, FlagsAreFlags DEF Adcs, TypeOK
  <2>3. QED
    BY <1>4, <1>6, <2>2, UndecidedIInv DEF Adcs
<1>7. ASSUME NEW r \in Words, Compute(r) PROVE IInv'
  BY <1>7, KeptIInv DEF Compute
<1>8. ASSUME NEW r \in Words, NEW carry \in BOOLEAN, Shift(r, carry) PROVE IInv'
  BY <1>8, ShiftedIInv DEF Shift
<1>9. ASSUME NEW f \in Flags, Msr(f) PROVE IInv'
  BY <1>0, <1>9, UndecidedIInv DEF Msr, TypeOK
<1>10. CASE UNCHANGED vars
  BY <1>10, <1>0, KeptIInv DEF vars, KeepFlags, TypeOK
<1>11. QED
  BY <1>1, <1>2, <1>3, <1>5, <1>6, <1>7, <1>8, <1>9, <1>10, MovedIInv, ShiftsIInv DEF Next

------------------------------------------------------------------------------
(* Results are uint32_t and the flags four booleans, whatever is computed. *)
THEOREM TypeCorrect == Spec => []TypeOK
<1>1. IInv => TypeOK
  BY DEF IInv
<1>2. QED
  BY <1>1, InitIInv, NextIInv, PTL DEF Spec

(* After a comparison, and until other flags are set, the conditions EQ, NE, CS,
   CC, HI and LS are those of its unsigned operands, for words of any width. *)
THEOREM UnsignedComparisonsHold == Spec => []UnsignedComparisonsDecided
<1>1. IInv => UnsignedComparisonsDecided
  BY DEF IInv
<1>2. QED
  BY <1>1, InitIInv, NextIInv, PTL DEF Spec

(* After an addition the conditions tell the exact sum of its operands, unsigned
   and signed, for words of any width. *)
THEOREM SumsAreExact == Spec => []SumsDecided
<1>1. IInv => SumsDecided
  BY DEF IInv
<1>2. QED
  BY <1>1, InitIInv, NextIInv, PTL DEF Spec

(* Additions of two words carry, and so do shifts by one word to the next: ADDS or
   a shift, any instructions that leave C alone, ADC. *)
THEOREM LongAdditionCarries == Spec => LongAddition
<1> DEFINE Carried == \A x, y \in Words :
       carry_due # NoCarry /\ Adc(x, y) => result' = Word(x + y + carry_due)
<1>1. IInv => Carried
  <2> SUFFICES ASSUME IInv, NEW x \in Words, NEW y \in Words,
                      carry_due # NoCarry, Adc(x, y)
               PROVE  result' = Word(x + y + carry_due)
    OBVIOUS
  <2>1. carry_due \in {0, 1} /\ Carry = carry_due
    BY DEF IInv, TypeOK, CarryKept, Carry
  <2>2. QED
    BY <2>1, SumOfThree DEF Adc
<1>2. IInv /\ [Next]_vars => [Carried]_vars
  BY <1>1
<1>3. QED
  BY <1>2, InitIInv, NextIInv, PTL DEF Spec, LongAddition
=============================================================================

------------------------ MODULE AddressSpace_proofs ------------------------
(* Theorems about AddressSpace, for every number of addresses, of slices, and
   every choice of regions. *)
EXTENDS AddressSpace, WellFoundedInduction, TLAPS

(* uint32_t arithmetic gives an address. *)
LEMMA ModInRange ==
  ASSUME NEW x \in Int PROVE x % AddrMod \in Address
  BY AddrModAssumption DEF Address

(* A non-empty set of natural numbers has a least element. *)
LEMMA LeastNatural ==
  ASSUME NEW S \in SUBSET Nat, S # {}
  PROVE  \E m \in S : \A k \in S : m <= k
<1> DEFINE R == {ss \in Nat \X Nat : ss[1] < ss[2]}
<1>1. IsWellFoundedOn(R, Nat)
  BY NatLessThanWellFounded DEF OpToRel
<1>2. PICK m \in S : \A k \in S : <<k, m>> \notin R
  BY <1>1, WFMin
<1>3. \A k \in S : ~(k < m)
  BY <1>2
<1> QED
  BY <1>3

(* The loop of addrspace_getslice: the index it returns is the least one whose
   slice matches, and 0 means that none does. *)
LEMMA GetSliceSpec ==
  ASSUME NEW a, NEW n, NEW ss \in Seq(Slice)
  PROVE  /\ getslice(ss, a, n) \in 0 .. Len(ss)
         /\ getslice(ss, a, n) # 0 =>
              /\ getslice(ss, a, n) \in 1 .. Len(ss)
              /\ Matches(ss[getslice(ss, a, n)], a, n)
              /\ \A j \in 1 .. Len(ss) : Matches(ss[j], a, n) => getslice(ss, a, n) <= j
         /\ getslice(ss, a, n) = 0 => \A j \in 1 .. Len(ss) : ~Matches(ss[j], a, n)
<1> DEFINE H == Hits(ss, a, n)
<1>1. H \subseteq 1 .. Len(ss)
  BY DEF Hits
<1>2. CASE H = {}
  BY <1>2 DEF getslice, Hits
<1>3. CASE H # {}
  <2>1. \E i \in H : \A j \in H : i <= j
    BY <1>1, <1>3, LeastNatural
  <2>2. getslice(ss, a, n) \in H /\ \A j \in H : getslice(ss, a, n) <= j
    BY <1>3, <2>1 DEF getslice
  <2> QED
    BY <1>1, <2>2 DEF Hits
<1> QED
  BY <1>2, <1>3

-----------------------------------------------------------------------------
(* An access that is granted and does not pass the top of the address space
   lies in the buffer: the window arithmetic of one slice. *)
LEMMA MatchInBounds ==
  ASSUME NEW s \in Slice, NEW a \in Address, NEW n \in Address,
         a + n <= AddrMod, Matches(s, a, n)
  PROVE  /\ a - s.begin \in Address
         /\ a - s.begin + n <= SliceLength(s)
         /\ n > 0 => a + n <= s.end
<1>1. s.begin \in Address /\ s.end \in Address
  BY DEF Slice
<1>2. CASE n > 0
  <2>1. (a + n - 1) % AddrMod = a + n - 1
    BY <1>2, AddrModAssumption DEF Address
  <2>2. s.begin <= a /\ a + n <= s.end
    BY <1>1, <1>2, <2>1, AddrModAssumption DEF Matches, Address
  <2>3. SliceLength(s) = s.end - s.begin
    BY <1>1, <1>2, <2>2, AddrModAssumption DEF SliceLength, Address
  <2> QED
    BY <1>1, <2>2, <2>3, AddrModAssumption DEF Address
<1>3. CASE n = 0
  <2>1. a # 0
    <3>1. (0 - 1) % AddrMod = AddrMod - 1
      BY AddrModAssumption
    <3> QED
      BY <1>1, <1>3, <3>1, AddrModAssumption DEF Matches, Address
  <2>2. (a + n - 1) % AddrMod = a - 1
    BY <1>3, <2>1, AddrModAssumption DEF Address
  <2>3. s.begin <= a /\ a <= s.end
    BY <1>1, <2>2, AddrModAssumption DEF Matches, Address
  <2>4. SliceLength(s) = s.end - s.begin
    BY <1>1, <2>3, AddrModAssumption DEF SliceLength, Address
  <2> QED
    BY <1>1, <1>3, <2>3, <2>4, AddrModAssumption DEF Address
<1> QED
  BY <1>2, <1>3 DEF Address

(* A byte access matches a slice exactly when the slice covers the address. *)
LEMMA ByteMatch ==
  ASSUME NEW s \in Slice, NEW a \in Address
  PROVE  Matches(s, a, 1) <=> Covers(s, a)
<1>1. (a + 1 - 1) % AddrMod = a
  BY AddrModAssumption DEF Address
<1>2. s.begin \in Int /\ s.end \in Int /\ a \in Int
  BY DEF Slice, Address
<1> QED
  BY <1>1, <1>2 DEF Matches, Covers

-----------------------------------------------------------------------------
(* Every reachable state is well typed, and the array of slices is never
   overrun. *)
THEOREM TypeCorrect == Spec => []TypeOK
<1>1. Init => TypeOK
  <2> SUFFICES ASSUME Init PROVE TypeOK
    OBVIOUS
  <2>1. slices \in Seq(Slice) /\ Len(slices) <= MAX_ADDRESS_SLICES
    BY MaxSlicesAssumption DEF Init
  <2> QED
    BY <2>1, ImagesAssumption DEF Init, TypeOK, Memory, BufferOffsets
<1>2. TypeOK /\ [Next]_vars => TypeOK'
  <2> SUFFICES ASSUME TypeOK, [Next]_vars PROVE TypeOK'
    OBVIOUS
  <2> USE DEF TypeOK
  <2>1. ASSUME NEW r \in Regions, add_region(r) PROVE TypeOK'
    <3> DEFINE new == [begin |-> r.start_addr,
                       end |-> (r.start_addr + r.length) % AddrMod,
                       data |-> r.data, read_only |-> r.read_only]
    <3>1. new \in Slice
      <4>1. r.start_addr \in Address /\ r.length \in Address /\ r.data \in Buffers
            /\ r.read_only \in BOOLEAN
        BY RegionsAssumption
      <4>2. (r.start_addr + r.length) % AddrMod \in Address
        <5>1. r.start_addr + r.length \in Int
          BY <4>1 DEF Address
        <5> QED
          BY <5>1, ModInRange
      <4> QED
        BY <4>1, <4>2 DEF Slice
    <3>2. CASE Len(slices) = MAX_ADDRESS_SLICES
      BY <2>1, <3>2 DEF add_region, NewSlice
    <3>3. CASE Len(slices) # MAX_ADDRESS_SLICES
      <4>1. slices' = Append(slices, new) /\ UNCHANGED <<mem, status>>
        BY <2>1, <3>3 DEF add_region, NewSlice
      <4>2. slices' \in Seq(Slice) /\ Len(slices') = Len(slices) + 1
        BY <3>1, <4>1
      <4> QED
        BY <3>3, <4>1, <4>2, MaxSlicesAssumption
    <3> QED
      BY <3>2, <3>3
  <2>2. ASSUME NEW a \in Address, NEW n \in Lengths, read_n(a, n) PROVE TypeOK'
    BY <2>2 DEF read_n
  <2>3. ASSUME NEW a \in Address, NEW n \in Lengths, NEW v \in [1 .. n -> Bytes],
               write_n(a, v)
        PROVE  TypeOK'
    <3> DEFINE i == getslice(slices, a, Len(v))
               o == Offset(i, a)
               Store == [k \in BufferOffsets |->
                           IF k \in o .. o + Len(v) - 1 THEN v[k - o + 1]
                                                        ELSE mem[slices[i].data][k]]
    <3>1. slices' = slices /\ status' \in {"running", "exit", "fault"}
      BY <2>3 DEF write_n
    <3>2. CASE mem' = mem
      BY <3>1, <3>2
    <3>3. CASE mem' # mem
      <4>1. /\ i # 0 /\ InBuffer(i, a, Len(v))
            /\ mem' = [mem EXCEPT ![slices[i].data] = Store]
        BY <2>3, <3>3 DEF write_n
      <4>2. Len(v) = n /\ n \in Nat
        BY LengthsAssumption, AddrModAssumption
      <4>3. i \in 1 .. Len(slices)
        BY <4>1, GetSliceSpec
      <4>4. slices[i] \in Slice
        BY <4>3
      <4>5. o \in Int
        BY <4>4 DEF Offset, SliceOffset, Slice, Address
      <4>6. slices[i].data \in Buffers
        BY <4>4 DEF Slice
      <4>7. Store \in [BufferOffsets -> Bytes]
        <5> SUFFICES ASSUME NEW k \in BufferOffsets PROVE Store[k] \in Bytes
          OBVIOUS
        <5>1. CASE k \in o .. o + Len(v) - 1
          <6>1. k - o + 1 \in 1 .. n
            BY <5>1, <4>2, <4>5 DEF BufferOffsets, Address
          <6> QED
            BY <5>1, <6>1
        <5>2. CASE k \notin o .. o + Len(v) - 1
          BY <5>2, <4>6 DEF Memory
        <5> QED
          BY <5>1, <5>2
      <4>8. mem' \in Memory
        BY <4>1, <4>6, <4>7 DEF Memory
      <4> QED
        BY <3>1, <4>8
    <3> QED
      BY <3>2, <3>3
  <2>4. ASSUME NEW a \in Address, NEW n \in Address, memptr(a, n) PROVE TypeOK'
    BY <2>4 DEF memptr
  <2>5. CASE UNCHANGED vars
    BY <2>5 DEF vars
  <2> QED
    BY <2>1, <2>2, <2>3, <2>4, <2>5 DEF Next, AddRegion, Read, Write, MemPtr
<1> QED
  BY <1>1, <1>2, PTL DEF Spec

(* Whatever regions were added, an access that is granted and stays below the
   top of the address space lies in the buffer of its slice. *)
THEOREM GrantedAccessesInBuffer == Spec => []GrantedInBuffer
<1>1. TypeOK => GrantedInBuffer
  <2> SUFFICES ASSUME TypeOK, NEW a \in Address, NEW n \in Address,
                      getslice(slices, a, n) # 0, a + n <= AddrMod
               PROVE  InBuffer(getslice(slices, a, n), a, n)
    BY DEF GrantedInBuffer
  <2> DEFINE i == getslice(slices, a, n)
  <2>1. i \in 1 .. Len(slices) /\ Matches(slices[i], a, n)
    BY GetSliceSpec DEF TypeOK
  <2>2. slices[i] \in Slice
    BY <2>1 DEF TypeOK
  <2> QED
    BY <2>1, <2>2, MatchInBounds DEF InBuffer, Offset, InSlice, SliceOffset
<1> QED
  BY <1>1, TypeCorrect, PTL

(* A number a turn below or above is reduced by adding or taking away that turn. *)
LEMMA OneTurn ==
  ASSUME NEW M \in Nat \ {0}, NEW x \in Int, NEW k \in {-1, 0, 1}, NEW t \in 0 .. M - 1, x = M * k + t
  PROVE  x % M = t
<1> DEFINE q == x \div M
           r == x % M
<1>1. q \in Int /\ r \in 0 .. M - 1 /\ x = M * q + r
  OBVIOUS
<1> HIDE DEF q, r
<1>2. M * (q - k) = t - r
  BY <1>1
<1>3. ~(q - k >= 1)
  <2>1. q - k >= 1 => M * (q - k) >= M
    BY <1>1
  <2>2. QED
    BY <1>1, <1>2, <2>1
<1>4. ~(k - q >= 1)
  <2>1. k - q >= 1 => M * (k - q) >= M
    BY <1>1
  <2>2. M * (k - q) = r - t
    BY <1>1
  <2>3. QED
    BY <1>1, <2>1, <2>2
<1>5. q = k
  BY <1>1, <1>3, <1>4
<1>6. QED
  BY <1>1, <1>5 DEF r

(* The window of a slice, by its begin and length: for a slice that ends below the top it is
   what a byte access is granted from; for any other, nothing is. *)
LEMMA BytesOfWindow ==
  ASSUME NEW s \in Slice, NEW k \in 0 .. SliceLength(s) - 1
  PROVE  LET a == (s.begin + k) % AddrMod
         IN a \in Address /\ (Covers(s, a) <=> EndsBelowTop(s))
<1> DEFINE n == SliceLength(s)
           a == (s.begin + k) % AddrMod
<1>1. s.begin \in Address /\ s.end \in Address /\ AddrMod \in Nat \ {0}
  BY AddrModAssumption DEF Slice
<1>2. n = IF s.begin <= s.end THEN s.end - s.begin ELSE s.end - s.begin + AddrMod
  <2>1. CASE s.begin <= s.end
    BY <1>1, <2>1 DEF SliceLength, Address
  <2>2. CASE s.begin > s.end
    <3>1. (s.end - s.begin) % AddrMod = s.end - s.begin + AddrMod
      <4>1. s.end - s.begin + AddrMod \in 0 .. AddrMod - 1
        BY <1>1, <2>2 DEF Address
      <4>2. s.end - s.begin = AddrMod * (-1) + (s.end - s.begin + AddrMod)
        BY <1>1 DEF Address
      <4>3. s.end - s.begin \in Int
        BY <1>1 DEF Address
      <4> QED
        BY <1>1, <4>1, <4>2, <4>3, OneTurn
    <3> QED
      BY <1>1, <2>2, <3>1 DEF SliceLength, Address
  <2>3. QED
    BY <1>1, <2>1, <2>2 DEF Address
<1>3. k \in 0 .. n - 1
  OBVIOUS
<1> HIDE DEF n
<1>4. k \in 0 .. AddrMod - 1 /\ k \in Nat /\ k < n /\ n \in 0 .. AddrMod - 1
  BY <1>1, <1>2, <1>3 DEF Address
<1>5. a = IF s.begin + k < AddrMod THEN s.begin + k ELSE s.begin + k - AddrMod
  <2>1. CASE s.begin + k < AddrMod
    BY <1>1, <1>4, <2>1 DEF Address
  <2>2. CASE s.begin + k >= AddrMod
    <3>1. s.begin + k - AddrMod \in 0 .. AddrMod - 1
      BY <1>1, <1>4, <2>2 DEF Address
    <3>2. s.begin + k = AddrMod * 1 + (s.begin + k - AddrMod) /\ s.begin + k \in Int
      BY <1>1, <1>4 DEF Address
    <3>3. (s.begin + k) % AddrMod = s.begin + k - AddrMod
      BY <1>1, <3>1, <3>2, OneTurn
    <3>4. ~(s.begin + k < AddrMod)
      BY <1>1, <1>4, <2>2 DEF Address
    <3> QED
      BY <3>3, <3>4
  <2>3. QED
    BY <1>1, <1>4, <2>1, <2>2 DEF Address
<1>6. a \in Address
  BY <1>1, <1>4, <1>5 DEF Address
<1> HIDE DEF a
<1>7. Covers(s, a) <=> s.begin + n < AddrMod
  BY <1>1, <1>2, <1>4, <1>5 DEF Covers, Address
<1>8. QED
  BY <1>6, <1>7 DEF EndsBelowTop, n, a

(* Every byte of a region that ends below the top of the address space resolves, for any
   regions in any order; no byte of a region that reaches or passes the top is found in it. *)
THEOREM RegionsStayReachable == Spec => []RegionsReachable
<1>1. TypeOK => RegionsReachable
  <2> SUFFICES ASSUME TypeOK, NEW i \in DOMAIN slices, NEW k \in 0 .. SliceLength(slices[i]) - 1
               PROVE  LET found == getslice(slices, (slices[i].begin + k) % AddrMod, 1)
                      IN IF EndsBelowTop(slices[i]) THEN found \in 1 .. i ELSE found # i
    BY DEF RegionsReachable
  <2> DEFINE a == (slices[i].begin + k) % AddrMod
             found == getslice(slices, a, 1)
  <2>1. i \in 1 .. Len(slices) /\ slices[i] \in Slice /\ slices \in Seq(Slice)
    BY DEF TypeOK
  <2>2. a \in Address /\ (Covers(slices[i], a) <=> EndsBelowTop(slices[i]))
    BY <2>1, BytesOfWindow
  <2> HIDE DEF a
  <2>3. Matches(slices[i], a, 1) <=> EndsBelowTop(slices[i])
    BY <2>1, <2>2, ByteMatch
  <2>4. IF EndsBelowTop(slices[i]) THEN found \in 1 .. i ELSE found # i
    BY <2>1, <2>3, GetSliceSpec
  <2> QED
    BY <2>4 DEF a
<1> QED
  BY <1>1, TypeCorrect, PTL

(* While no two slices overlap, wide and narrow accesses agree. *)
THEOREM WideAndNarrowAgree == Spec => []WideAgreesWithBytes
<1>1. TypeOK => WideAgreesWithBytes
  <2> SUFFICES ASSUME TypeOK, Disjoint,
                      NEW a \in Address, NEW n \in Address,
                      getslice(slices, a, n) # 0, n > 0, a + n <= AddrMod,
                      NEW k \in 0 .. n - 1
               PROVE  getslice(slices, a + k, 1) = getslice(slices, a, n)
    BY DEF WideAgreesWithBytes
  <2> DEFINE i == getslice(slices, a, n)
             g == getslice(slices, a + k, 1)
  <2>1. /\ i \in 1 .. Len(slices) /\ Matches(slices[i], a, n)
        /\ slices \in Seq(Slice) /\ slices[i] \in Slice
    BY GetSliceSpec DEF TypeOK
  <2>2. a + k \in Address
    BY AddrModAssumption DEF Address
  <2>3. Covers(slices[i], a + k)
    <3>1. a + n <= slices[i].end
      BY <2>1, MatchInBounds
    <3>2. slices[i].begin <= a
      BY <2>1 DEF Matches
    <3>3. slices[i].begin \in Int /\ slices[i].end \in Int
      BY <2>1 DEF Slice, Address
    <3> QED
      BY <3>1, <3>2, <3>3, AddrModAssumption DEF Covers, Address
  <2>4. Matches(slices[i], a + k, 1)
    BY <2>1, <2>2, <2>3, ByteMatch
  <2>5. g \in 1 .. Len(slices) /\ Matches(slices[g], a + k, 1)
    BY <2>1, <2>4, GetSliceSpec
  <2>6. Covers(slices[g], a + k)
    BY <2>1, <2>2, <2>5, ByteMatch
  <2> QED
    BY <2>1, <2>2, <2>3, <2>5, <2>6 DEF Disjoint
<1> QED
  BY <1>1, TypeCorrect, PTL

(* addrspace_add_region appends: what resolves keeps its slice. *)
LEMMA NextKeepsResolution ==
  ASSUME TypeOK, TypeOK', Next, NEW a \in Address, NEW n,
         getslice(slices, a, n) # 0
  PROVE  LET i == getslice(slices, a, n)
         IN getslice(slices', a, n) = i /\ i \in 1 .. Len(slices) /\ slices'[i] = slices[i]
<1> DEFINE i == getslice(slices, a, n)
           g == getslice(slices', a, n)
<1>1. slices \in Seq(Slice) /\ slices' \in Seq(Slice)
  BY DEF TypeOK
<1>2. /\ i \in 1 .. Len(slices) /\ Matches(slices[i], a, n)
      /\ \A j \in 1 .. Len(slices) : Matches(slices[j], a, n) => i <= j
  BY <1>1, GetSliceSpec
<1>3. CASE slices' = slices
  BY <1>2, <1>3
<1>4. CASE slices' # slices
  <2>1. PICK new : slices' = Append(slices, new)
    <3>1. PICK r \in Regions : add_region(r)
      BY <1>4 DEF Next, AddRegion, Read, Write, MemPtr, read_n, write_n, memptr
    <3>2. QED
      BY <1>4, <3>1 DEF add_region, NewSlice
  <2>2. /\ Len(slices') = Len(slices) + 1
        /\ \A j \in 1 .. Len(slices) : slices'[j] = slices[j]
    BY <1>1, <2>1
  <2>3. Matches(slices'[i], a, n) /\ i \in 1 .. Len(slices')
    BY <1>1, <1>2, <2>2
  <2>4. /\ g \in 1 .. Len(slices') /\ Matches(slices'[g], a, n) /\ g <= i
    BY <1>1, <2>3, GetSliceSpec
  <2>5. g \in 1 .. Len(slices) /\ Matches(slices[g], a, n)
    BY <1>1, <1>2, <2>2, <2>4
  <2>6. QED
    BY <1>1, <1>2, <2>2, <2>4, <2>5
<1>5. QED
  BY <1>3, <1>4

(* Once an access resolves, no region added later changes what it resolves
   to. *)
THEOREM ResolutionIsStable == Spec => ResolutionStable
<1> DEFINE Stable == \A a, n \in Address :
                       getslice(slices, a, n) # 0
                         => getslice(slices, a, n)' = getslice(slices, a, n)
<1>1. TypeOK /\ TypeOK' /\ [Next]_vars => [Stable]_vars
  BY NextKeepsResolution
<1>2. QED
  BY <1>1, TypeCorrect, PTL DEF Spec, ResolutionStable

------------------------------------------------------------------------------
(* An access of some bytes that does not pass the top is granted by the slices
   that cover it from its first to its last byte. *)
LEMMA MatchIsCover ==
  ASSUME NEW s \in Slice, NEW a \in Address, NEW n \in 1 .. AddrMod, a + n <= AddrMod
  PROVE  Matches(s, a, n) <=> s.begin <= a /\ a + n <= s.end
<1>1. (a + n - 1) % AddrMod = a + n - 1
  BY AddrModAssumption DEF Address
<1>2. s.begin \in Int /\ s.end \in Int
  BY DEF Slice, Address
<1>3. QED
  BY <1>1, <1>2 DEF Matches, Address

(* A byte of a bank is no unmapped address. *)
LEMMA MappedIsNotUnmapped ==
  ASSUME NEW b, NEW o, NEW r
  PROVE  [bank |-> b, offset |-> o, read_only |-> r] # [bank |-> "unmapped"]
<1>1. "offset" \in DOMAIN [bank |-> b, offset |-> o, read_only |-> r]
  OBVIOUS
<1>2. "offset" \notin DOMAIN [bank |-> "unmapped"]
  OBVIOUS
<1>3. QED
  BY <1>1, <1>2

(* Numbers that are their own remainder, and equal offsets of a window. *)
LEMMA SmallMod ==
  ASSUME NEW M \in Nat \ {0}, NEW d \in Int, 0 <= d, d < M
  PROVE  d % M = d
OBVIOUS

LEMMA SameBegin ==
  ASSUME NEW a \in Int, NEW n \in Int, NEW z \in Int, NEW x \in Int, NEW y \in Int,
         z = a + (n - 1), (a - x) + (n - 1) = z - y
  PROVE  y = x
OBVIOUS

LEMMA LastOfWindow ==
  ASSUME NEW a \in Int, NEW n \in Int, NEW z \in Int, NEW e \in Int, z = a + (n - 1), z < e
  PROVE  a + n <= e
OBVIOUS

(* What an address names. *)
LEMMA WhereOfByte ==
  ASSUME TypeOK, NEW a \in Address
  PROVE  LET i == getslice(slices, a, 1)
         IN /\ i = 0 => Where[a] = [bank |-> "unmapped"]
            /\ i # 0 => /\ i \in 1 .. Len(slices) /\ slices[i] \in Slice
                        /\ Covers(slices[i], a)
                        /\ Where[a] = [bank |-> slices[i].data, offset |-> a - slices[i].begin,
                                       read_only |-> slices[i].read_only]
                        /\ Where[a] # [bank |-> "unmapped"]
<1> DEFINE i == getslice(slices, a, 1)
<1>1. i = 0 => Where[a] = [bank |-> "unmapped"]
  BY DEF Where
<1>2. ASSUME i # 0
      PROVE  /\ i \in 1 .. Len(slices) /\ slices[i] \in Slice /\ Covers(slices[i], a)
             /\ Where[a] = [bank |-> slices[i].data, offset |-> a - slices[i].begin,
                            read_only |-> slices[i].read_only]
             /\ Where[a] # [bank |-> "unmapped"]
  <2>1. i \in 1 .. Len(slices) /\ slices[i] \in Slice /\ Matches(slices[i], a, 1)
    BY <1>2, GetSliceSpec DEF TypeOK
  <2>2. Covers(slices[i], a)
    BY <2>1, ByteMatch
  <2>3. Where[a] = [bank |-> slices[i].data, offset |-> a - slices[i].begin,
                    read_only |-> slices[i].read_only]
    BY <1>2 DEF Where, Offset, SliceOffset
  <2>4. Where[a] # [bank |-> "unmapped"]
    BY <2>3, MappedIsNotUnmapped
  <2>5. QED
    BY <2>1, <2>2, <2>3, <2>4
<1>3. QED
  BY <1>1, <1>2

(* In a proper address space an access is granted exactly when the bytes are
   consecutive ones of one bank; then the slice is that of its first byte. *)
LEMMA GrantedIsContiguous ==
  ASSUME TypeOK, Proper, NEW a \in Address, NEW n \in 1 .. AddrMod, a + n <= AddrMod
  PROVE  LET i == getslice(slices, a, n)
         IN /\ Flat!Contiguous(a, n) <=> i # 0
            /\ i # 0 => /\ i \in 1 .. Len(slices) /\ slices[i] \in Slice
                        /\ InBuffer(i, a, n)
                        /\ Where[a] = [bank |-> slices[i].data, offset |-> Offset(i, a),
                                       read_only |-> slices[i].read_only]
<1> DEFINE i == getslice(slices, a, n)
<1> USE DEF TypeOK
<1>1. \A k \in 0 .. n - 1 : a + k \in Address
  BY AddrModAssumption DEF Address
<1>2. ASSUME i # 0
      PROVE  /\ Flat!Contiguous(a, n)
             /\ i \in 1 .. Len(slices) /\ slices[i] \in Slice
             /\ InBuffer(i, a, n)
             /\ Where[a] = [bank |-> slices[i].data, offset |-> Offset(i, a),
                            read_only |-> slices[i].read_only]
  <2>1. i \in 1 .. Len(slices) /\ slices[i] \in Slice /\ Matches(slices[i], a, n)
    BY <1>2, GetSliceSpec
  <2>2. slices[i].begin <= a /\ a + n <= slices[i].end
    BY <2>1, MatchIsCover
  <2>3. slices[i].begin \in Address /\ slices[i].end \in Address
    BY <2>1 DEF Slice
  <2>4. ASSUME NEW z \in Address, Covers(slices[i], z)
        PROVE  /\ Where[z] = [bank |-> slices[i].data, offset |-> z - slices[i].begin,
                              read_only |-> slices[i].read_only]
               /\ Where[z] # [bank |-> "unmapped"]
    <3> DEFINE g == getslice(slices, z, 1)
    <3>1. g # 0
      BY <2>1, <2>4, ByteMatch, GetSliceSpec
    <3>2. g \in 1 .. Len(slices) /\ Covers(slices[g], z)
      BY <3>1, WhereOfByte
    <3>3. g = i
      BY <2>1, <2>4, <3>2 DEF Proper, Disjoint
    <3>4. /\ Where[z] = [bank |-> slices[g].data, offset |-> z - slices[g].begin,
                         read_only |-> slices[g].read_only]
          /\ Where[z] # [bank |-> "unmapped"]
      BY <3>1, WhereOfByte
    <3>5. QED
      BY <3>3, <3>4
  <2>5. /\ Where[a] = [bank |-> slices[i].data, offset |-> a - slices[i].begin,
                       read_only |-> slices[i].read_only]
        /\ Where[a] # [bank |-> "unmapped"]
    <3>1. Covers(slices[i], a)
      BY <2>2, <2>3 DEF Covers, Address
    <3>2. QED
      BY <2>4, <3>1
  <2>6. ASSUME NEW k \in 0 .. n - 1
        PROVE  Where[a + k] = [Where[a] EXCEPT !.offset = @ + k]
    <3> DEFINE z == a + k
    <3>1. z \in Address /\ Covers(slices[i], z)
      BY <1>1, <2>2, <2>3 DEF Covers, Address
    <3>2. z - slices[i].begin = (a - slices[i].begin) + k
      BY <2>3 DEF Address
    <3> HIDE DEF z
    <3>3. Where[z] = [bank |-> slices[i].data, offset |-> z - slices[i].begin,
                      read_only |-> slices[i].read_only]
      BY <2>4, <3>1
    <3>4. Where[z] = [Where[a] EXCEPT !.offset = @ + k]
      BY <2>5, <3>2, <3>3
    <3>5. QED
      BY <3>4 DEF z
  <2>7. Flat!Contiguous(a, n)
    BY <2>5, <2>6 DEF Flat!Contiguous, Flat!Unmapped
  <2>8. InBuffer(i, a, n)
    <3> DEFINE d == slices[i].end - slices[i].begin
    <3>1. d \in Int /\ 0 <= d /\ d < AddrMod /\ AddrMod \in Nat \ {0}
      BY <2>2, <2>3, AddrModAssumption DEF Address
    <3>2. d % AddrMod = d
      <4> HIDE DEF d
      <4> QED  BY <3>1, SmallMod
    <3>3. QED
      BY <2>2, <2>3, <3>2 DEF InBuffer, InSlice, SliceOffset, SliceLength, Address
  <2>9. QED
    BY <2>1, <2>5, <2>7, <2>8 DEF Offset, SliceOffset
<1>3. ASSUME Flat!Contiguous(a, n) PROVE i # 0
  <2> DEFINE f == getslice(slices, a, 1)
             z == a + (n - 1)
             g == getslice(slices, z, 1)
  <2>1. Where[a] # [bank |-> "unmapped"] /\ Where[z] = [Where[a] EXCEPT !.offset = @ + (n - 1)]
    <3>1. n - 1 \in 0 .. n - 1
      OBVIOUS
    <3>2. QED
      BY <1>3, <3>1 DEF Flat!Contiguous, Flat!Unmapped
  <2>2. z \in Address /\ z = a + (n - 1)
    BY <1>1
  <2> HIDE DEF z
  <2>3. /\ f \in 1 .. Len(slices) /\ slices[f] \in Slice /\ Covers(slices[f], a)
        /\ Where[a] = [bank |-> slices[f].data, offset |-> a - slices[f].begin,
                       read_only |-> slices[f].read_only]
    BY <2>1, WhereOfByte
  <2>4. Where[z] = [bank |-> slices[f].data, offset |-> (a - slices[f].begin) + (n - 1),
                    read_only |-> slices[f].read_only]
    BY <2>1, <2>3
  <2>5. Where[z] # [bank |-> "unmapped"] /\ g # 0
    BY <2>2, <2>4, MappedIsNotUnmapped, WhereOfByte
  <2>6. Where[z] = [bank |-> slices[g].data, offset |-> z - slices[g].begin,
                    read_only |-> slices[g].read_only]
    BY <2>2, <2>5, WhereOfByte
  <2>7. /\ g \in 1 .. Len(slices) /\ slices[g] \in Slice /\ Covers(slices[g], z)
        /\ (a - slices[f].begin) + (n - 1) = z - slices[g].begin
    BY <2>2, <2>4, <2>5, <2>6, WhereOfByte
  <2>8. /\ slices[f].begin \in Address /\ slices[f].end \in Address
        /\ slices[g].begin \in Address /\ slices[g].end \in Address
    BY <2>3, <2>7 DEF Slice
  <2>9. slices[g].begin = slices[f].begin
    <3>1. /\ slices[f].begin \in Int /\ slices[g].begin \in Int
          /\ a \in Int /\ n \in Int /\ z \in Int
      BY <2>2, <2>8 DEF Address
    <3> HIDE DEF f, g
    <3> QED  BY <2>2, <2>7, <3>1, SameBegin
  <2>10. Covers(slices[f], slices[f].begin) /\ Covers(slices[g], slices[f].begin)
    <3>1. slices[f].begin <= a /\ a < slices[f].end /\ slices[g].begin <= z /\ z < slices[g].end
      BY <2>2, <2>3, <2>7 DEF Covers
    <3>2. slices[f].begin \in Int /\ slices[f].end \in Int /\ slices[g].end \in Int /\ a \in Int /\ z \in Int
      BY <2>2, <2>8 DEF Address
    <3>3. slices[f].begin < slices[f].end /\ slices[g].begin < slices[g].end
      BY <2>9, <3>1, <3>2
    <3>4. QED
      BY <2>9, <3>2, <3>3 DEF Covers
  <2>11. f = g
    BY <2>3, <2>7, <2>8, <2>10 DEF Proper, Disjoint
  <2>12. slices[f].begin <= a /\ a + n <= slices[f].end
    <3>1. slices[f].begin <= a /\ z < slices[f].end
      BY <2>3, <2>7, <2>11 DEF Covers
    <3>2. slices[f].end \in Int /\ a \in Int /\ n \in Int /\ z \in Int
      BY <2>2, <2>8 DEF Address
    <3> HIDE DEF f, g
    <3>3. a + n <= slices[f].end
      BY <2>2, <3>1, <3>2, LastOfWindow
    <3>4. QED
      BY <3>1, <3>3
  <2>13. Matches(slices[f], a, n)
    BY <2>3, <2>12, MatchIsCover
  <2>14. QED
    BY <2>3, <2>13, GetSliceSpec
<1>4. QED
  BY <1>2, <1>3

(* A proper window ends below the top: an access inside it does as well. *)
LEMMA InBufferEnds ==
  ASSUME NEW s \in Slice, s.begin <= s.end, NEW a \in Address, NEW n \in 1 .. AddrMod,
         InSlice(s, a, n)
  PROVE  a + n <= AddrMod
<1>1. s.begin \in Int /\ s.end \in Int /\ 0 <= s.begin /\ s.end < AddrMod /\ AddrMod \in Nat \ {0}
  BY AddrModAssumption DEF Slice, Address
<1> DEFINE d == s.end - s.begin
<1>2. d \in Int /\ 0 <= d /\ d < AddrMod
  BY <1>1
<1>3. d % AddrMod = d
  <2> HIDE DEF d
  <2> QED  BY <1>1, <1>2, SmallMod
<1>4. (a - s.begin) + n <= s.end - s.begin
  BY <1>3 DEF InSlice, SliceOffset, SliceLength
<1>5. QED
  BY <1>1, <1>4 DEF Address

(* The flat memory's addresses are the slices'. *)
LEMMA SameAddresses == Flat!Address = Address
BY DEF Flat!Address, Address

(* Without a new region nothing of the map changes. *)
LEMMA SameSlicesSameMap ==
  ASSUME slices' = slices
  PROVE  Where' = Where /\ Proper' = Proper
<1>1. Where' = Where
  BY DEF Where, Offset
<1>2. Proper' = Proper
  BY DEF Proper, Disjoint
<1>3. QED
  BY <1>1, <1>2

(* At the start nothing is mapped. *)
LEMMA StartsFlat == Init => Flat!Init
<1> SUFFICES ASSUME Init PROVE Flat!Init
  OBVIOUS
<1>1. slices \in Seq(Slice) /\ Len(slices) = 0 /\ DOMAIN slices = {}
  BY DEF Init
<1>2. ASSUME NEW a \in Address PROVE getslice(slices, a, 1) = 0
  BY <1>1 DEF getslice, Hits
<1>3. Where = [a \in Address |-> Flat!Unmapped]
  BY <1>2 DEF Where, Flat!Unmapped
<1>4. mem \in [Buffers -> [Address -> Bytes]]
  BY ImagesAssumption DEF Init
<1>5. Proper = TRUE
  <2>1. Proper
    BY <1>1 DEF Proper, Disjoint
  <2>2. Proper \in BOOLEAN
    BY Zenon DEF Proper, Disjoint
  <2>3. QED
    BY <2>1, <2>2
<1>6. QED
  BY <1>3, <1>4, <1>5, SameAddresses DEF Init, Flat!Init

(* addrspace_add_region extends the map and disturbs nothing in it. *)
LEMMA AddIsFlat ==
  ASSUME TypeOK, TypeOK', NEW r \in Regions, add_region(r)
  PROVE  Flat!Extend
<1>1. resp' = [op |-> "add"] /\ mem' = mem
  BY DEF add_region
<1>2. DOMAIN Where' = Address
  BY DEF Where
<1>3. ASSUME NEW a \in Address, Where[a] # [bank |-> "unmapped"]
      PROVE  Where'[a] = Where[a]
  <2> DEFINE i == getslice(slices, a, 1)
  <2>1. i # 0
    BY <1>3 DEF Where
  <2>2. Next
    BY DEF Next, AddRegion
  <2>3. getslice(slices', a, 1) = i /\ slices'[i] = slices[i]
    BY <2>1, <2>2, NextKeepsResolution
  <2>4. QED
    BY <2>1, <2>3 DEF Where, Offset
<1>4. QED
  BY <1>1, <1>2, <1>3, SameAddresses DEF Flat!Extend, Flat!Unmapped

(* addrspace_read_n reads the flat memory, or faults without an answer. *)
LEMMA ReadIsFlat ==
  ASSUME TypeOK, Proper, NEW a \in Address, NEW n \in Lengths, read_n(a, n)
  PROVE  Flat!Read(a, n) \/ Flat!Beyond \/ resp' = resp
<1> DEFINE i == getslice(slices, a, n)
<1>1. n \in 1 .. AddrMod /\ n \in Nat
  BY LengthsAssumption, AddrModAssumption
<1>2. mem' = mem /\ Where' = Where
  BY SameSlicesSameMap DEF read_n
<1>3. SUFFICES ASSUME resp' # resp PROVE Flat!Read(a, n) \/ Flat!Beyond
  OBVIOUS
<1>4. CASE a + n <= AddrMod
  <2>1. resp'.op = "read" /\ resp'.address = a
    BY <1>3 DEF read_n
  <2>2. CASE i = 0
    <3>1. ~Flat!Contiguous(a, n)
      BY <1>1, <1>4, <2>2, GrantedIsContiguous
    <3>2. resp'.value = [k \in 1 .. n |-> 0]
      BY <2>2 DEF read_n, Zero
    <3>3. QED
      BY <1>2, <1>4, <2>1, <3>1, <3>2 DEF Flat!Read
  <2>3. CASE i # 0
    <3>1. /\ Flat!Contiguous(a, n) /\ InBuffer(i, a, n)
          /\ Where[a] = [bank |-> slices[i].data, offset |-> Offset(i, a),
                         read_only |-> slices[i].read_only]
      BY <1>1, <1>4, <2>3, GrantedIsContiguous
    <3>2. resp'.value = [k \in 1 .. n |-> mem[slices[i].data][Offset(i, a) + k - 1]]
      <4> DEFINE h == [k \in 1 .. n |-> mem[slices[i].data][Offset(i, a) + k - 1]]
      <4>1. resp' = [op |-> "read", address |-> a, value |-> h]
        BY <2>3, <3>1, Zenon DEF read_n
      <4> HIDE DEF h
      <4>2. resp'.value = h
        BY <4>1
      <4>3. QED
        BY <4>2 DEF h
    <3>3. Where[a].bank = slices[i].data /\ Where[a].offset = Offset(i, a)
      BY <3>1
    <3>4. resp'.value = [k \in 1 .. n |->
                           IF Flat!Contiguous(a, n)
                             THEN mem[Where[a].bank][Where[a].offset + k - 1] ELSE 0]
      BY <3>1, <3>2, <3>3
    <3>5. QED
      BY <1>2, <1>4, <2>1, <3>4 DEF Flat!Read
  <2>4. QED
    BY <2>2, <2>3
<1>5. CASE ~(a + n <= AddrMod)
  <2>1. PICK f, S : f \in [1 .. n -> S] /\ resp' = [op |-> "read", address |-> a, value |-> f]
    <3>1. CASE resp' = [op |-> "read", address |-> a, value |-> Zero(n)]
      <4>1. Zero(n) \in [1 .. n -> {0}]
        BY DEF Zero
      <4>2. QED
        BY <3>1, <4>1
    <3>2. CASE \E v \in [1 .. n -> Bytes] : resp' = [op |-> "read", address |-> a, value |-> v]
      BY <3>2
    <3>3. CASE resp' = [op |-> "read", address |-> a, value |->
                          [k \in 1 .. n |-> mem[slices[i].data][Offset(i, a) + k - 1]]]
      <4> DEFINE h == [k \in 1 .. n |-> mem[slices[i].data][Offset(i, a) + k - 1]]
      <4>1. h \in [1 .. n -> {h[k] : k \in 1 .. n}]
        OBVIOUS
      <4> HIDE DEF h
      <4>2. resp' = [op |-> "read", address |-> a, value |-> h]
        BY <3>3 DEF h
      <4>3. QED
        BY <4>1, <4>2
    <3>4. QED
      BY <1>3, <3>1, <3>2, <3>3 DEF read_n
  <2>2. Len(f) = n
    BY <1>1, <2>1
  <2>3. resp'.op = "read" /\ resp'.address = a /\ resp'.value = f
    BY <2>1
  <2>4. resp'.address + Len(resp'.value) > AddrMod
    BY <1>1, <1>5, <2>2, <2>3, AddrModAssumption DEF Address
  <2>5. QED
    BY <1>2, <2>3, <2>4 DEF Flat!Beyond
<1>6. QED
  BY <1>4, <1>5

(* addrspace_write_n writes the flat memory. *)
LEMMA WriteIsFlat ==
  ASSUME TypeOK, Proper, NEW a \in Address, NEW n \in Lengths, NEW v \in [1 .. n -> Bytes],
         write_n(a, v)
  PROVE  (resp'.op = "write" /\ Flat!Write(a, v)) \/ Flat!Beyond
<1> DEFINE i == getslice(slices, a, n)
<1>1. n \in 1 .. AddrMod /\ n \in Nat
  BY LengthsAssumption, AddrModAssumption
<1>2. Len(v) = n
  BY <1>1
<1>3. Where' = Where
  BY SameSlicesSameMap DEF write_n
<1>4. /\ resp' = [op |-> "write", address |-> a, value |-> v]
      /\ resp'.op = "write" /\ resp'.address = a /\ resp'.value = v
  BY DEF write_n
<1>5. CASE a + n <= AddrMod
  <2>1. CASE i = 0
    <3>1. ~Flat!Contiguous(a, n)
      BY <1>1, <1>5, <2>1, GrantedIsContiguous
    <3>2. mem' = mem
      BY <1>2, <2>1 DEF write_n
    <3>3. QED
      BY <1>2, <1>3, <1>4, <1>5, <3>1, <3>2 DEF Flat!Write
  <2>2. CASE i # 0
    <3>1. /\ Flat!Contiguous(a, n) /\ InBuffer(i, a, n)
          /\ Where[a] = [bank |-> slices[i].data, offset |-> Offset(i, a),
                         read_only |-> slices[i].read_only]
      BY <1>1, <1>5, <2>2, GrantedIsContiguous
    <3>2. /\ Where[a].bank = slices[i].data /\ Where[a].offset = Offset(i, a)
          /\ Where[a].read_only = slices[i].read_only
      BY <3>1
    <3>3. CASE slices[i].read_only
      <4>1. mem' = mem
        BY <1>2, <2>2, <3>3 DEF write_n
      <4>2. QED
        BY <1>2, <1>3, <1>4, <1>5, <3>2, <3>3, <4>1 DEF Flat!Write
    <3>4. CASE ~slices[i].read_only
      <4> DEFINE o == Offset(i, a)
                 Store == [k \in Address |->
                             IF k \in o .. o + n - 1 THEN v[k - o + 1]
                                                     ELSE mem[slices[i].data][k]]
      <4>1. mem' = [mem EXCEPT ![slices[i].data] = Store]
        BY <1>2, <2>2, <3>1, <3>4 DEF write_n, BufferOffsets
      <4>2. QED
        BY <1>2, <1>3, <1>4, <1>5, <3>1, <3>2, <3>4, <4>1, SameAddresses DEF Flat!Write
    <3>5. QED
      BY <3>3, <3>4
  <2>3. QED
    BY <2>1, <2>2
<1>6. CASE ~(a + n <= AddrMod)
  <2>1. ASSUME i # 0 PROVE ~InBuffer(i, a, n)
    <3>1. i \in 1 .. Len(slices) /\ slices[i] \in Slice /\ slices[i].begin <= slices[i].end
      BY <2>1, GetSliceSpec DEF TypeOK, Proper
    <3>2. QED
      BY <1>1, <1>6, <3>1, InBufferEnds DEF InBuffer
  <2>2. mem' = mem
    BY <1>2, <2>1 DEF write_n
  <2>3. resp'.address + Len(resp'.value) > AddrMod
    BY <1>1, <1>2, <1>4, <1>6, AddrModAssumption DEF Address
  <2>4. QED
    BY <1>3, <1>4, <2>2, <2>3 DEF Flat!Beyond
<1>7. QED
  BY <1>5, <1>6

(* addrspace_memptr points into the flat memory. *)
LEMMA PointerIsFlat ==
  ASSUME TypeOK, Proper, NEW a \in Address, NEW n \in Address, memptr(a, n)
  PROVE  Flat!Pointer(a, n)
<1> DEFINE i == getslice(slices, a, n)
<1>1. mem' = mem /\ Where' = Where
  BY SameSlicesSameMap DEF memptr
<1>2. resp'.op \in {"null", "ptr"} /\ resp'.address = a /\ resp'.length = n
  BY DEF memptr
<1>3. ASSUME n > 0, a + n <= AddrMod
      PROVE  resp' = IF Flat!Contiguous(a, n)
                       THEN [op |-> "ptr", address |-> a, length |-> n,
                             data |-> Where[a].bank, offset |-> Where[a].offset]
                       ELSE [op |-> "null", address |-> a, length |-> n]
  <2>1. n \in 1 .. AddrMod
    BY <1>3, AddrModAssumption DEF Address
  <2>2. CASE i = 0
    BY <1>3, <2>1, <2>2, GrantedIsContiguous DEF memptr
  <2>3. CASE i # 0
    <3>1. /\ Flat!Contiguous(a, n)
          /\ Where[a] = [bank |-> slices[i].data, offset |-> Offset(i, a),
                         read_only |-> slices[i].read_only]
      BY <1>3, <2>1, <2>3, GrantedIsContiguous
    <3>2. Where[a].bank = slices[i].data /\ Where[a].offset = Offset(i, a)
      BY <3>1
    <3>3. QED
      BY <2>3, <3>1, <3>2 DEF memptr
  <2>4. QED
    BY <2>2, <2>3
<1>4. QED
  BY <1>1, <1>2, <1>3 DEF Flat!Pointer

(* Refinement: as long as the regions neither overlap nor run past the top,
   the array of slices, the first-match loop of addrspace_getslice and the
   window arithmetic behave as the flat memory, for every number of addresses,
   slices and buffers. *)
THEOREM AddressSpaceIsFlatMemory == Spec => ImplementsFlatMemory
<1>1. TypeOK /\ TypeOK' /\ [Next]_vars => [Flat!Next]_(Flat!vars)
  <2> SUFFICES ASSUME TypeOK, TypeOK', [Next]_vars PROVE [Flat!Next]_(Flat!vars)
    OBVIOUS
  <2>1. CASE ~Proper'
    BY <2>1 DEF Flat!Next
  <2>2. ASSUME NEW r \in Regions, add_region(r) PROVE Flat!Next
    BY <2>2, AddIsFlat DEF Flat!Next
  <2>3. ASSUME Proper', NEW a \in Address, NEW n \in Lengths, read_n(a, n)
        PROVE  [Flat!Next]_(Flat!vars)
    <3>1. slices' = slices /\ mem' = mem
      BY <2>3 DEF read_n
    <3>2. Proper /\ Where' = Where /\ Proper' = Proper
      BY <2>3, <3>1, SameSlicesSameMap
    <3>3. CASE resp' = resp
      BY <3>1, <3>2, <3>3 DEF Flat!vars
    <3>4. QED
      BY <2>3, <3>2, <3>3, ReadIsFlat, SameAddresses DEF Flat!Next
  <2>4. ASSUME Proper', NEW a \in Address, NEW n \in Lengths, NEW v \in [1 .. n -> Bytes],
               write_n(a, v)
        PROVE  Flat!Next
    <3>1. slices' = slices
      BY <2>4 DEF write_n
    <3>2. Proper
      BY <2>4, <3>1, SameSlicesSameMap
    <3>3. QED
      BY <2>4, <3>2, WriteIsFlat, SameAddresses DEF Flat!Next
  <2>5. ASSUME Proper', NEW a \in Address, NEW n \in Address, memptr(a, n) PROVE Flat!Next
    <3>1. slices' = slices
      BY <2>5 DEF memptr
    <3>2. Proper
      BY <2>5, <3>1, SameSlicesSameMap
    <3>3. QED
      BY <2>5, <3>2, PointerIsFlat, SameAddresses DEF Flat!Next
  <2>6. CASE UNCHANGED vars
    <3>1. slices' = slices /\ mem' = mem /\ resp' = resp
      BY <2>6 DEF vars
    <3>2. QED
      BY <3>1, SameSlicesSameMap DEF Flat!vars
  <2>7. QED
    BY <2>1, <2>2, <2>3, <2>4, <2>5, <2>6 DEF Next, AddRegion, Read, Write, MemPtr
<1>2. QED
  BY <1>1, StartsFlat, TypeCorrect, PTL DEF Spec, ImplementsFlatMemory, Flat!Spec
=============================================================================

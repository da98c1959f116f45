-------------------------- MODULE GdbSession_proofs --------------------------
(* Proofs about GdbSession: for any guest that ends in a loop and any cut of the
   stream. *)
EXTENDS GdbSession, SequenceTheorems, WellFoundedInduction, TLAPS

(* What travels from the server to the client. *)
Payloads == {<<r>> : r \in [cmd : {"g", "h"}, at : Nat]}
Symbols == {Plus, Dollar, Hash, Digit, Byte("-")} \cup [cmd : {"g", "h"}, at : Nat]
Success(payload) == [success |-> TRUE, data |-> payload]
Failure == [success |-> FALSE, data |-> <<>>]

(* The replies to cmd after n instructions, as a stream and as the message it is. *)
Answers(cmd, n) ==
  IF cmd = "s" THEN {[stream |-> tx_frame(<<>>), msg |-> Success(<<>>)]}
  ELSE {[stream |-> tx_frame(<<[cmd |-> cmd, at |-> n]>>), msg |-> Success(<<[cmd |-> cmd, at |-> n]>>)]}
       \cup (IF cmd = "h" THEN {[stream |-> Refusal, msg |-> Failure]} ELSE {})

------------------------------------------------------------------------------
(* The tokenizer, for every stream. *)

LEMMA LeastNatural ==
  ASSUME NEW S \in SUBSET Nat, S # {}
  PROVE  \E m \in S : \A k \in S : m <= k
<1> DEFINE R == {ss \in Nat \X Nat : ss[1] < ss[2]}
<1>1. IsWellFoundedOn(R, Nat)
  BY NatLessThanWellFounded DEF OpToRel
<1>2. PICK m \in S : \A k \in S : <<k, m>> \notin R
  BY <1>1, WFMin
<1>3. \A k \in S : ~(k < m)
  BY <1>2
<1> QED
  BY <1>3

(* scan, from index i on. *)
Scans(data, scan, i) ==
  scan[i] = IF Ends(data, i) THEN [msgs |-> <<>>, remaining |-> SubSeq(data, i, Len(data))]
            ELSE [msgs |-> <<Token(data, i)>> \o scan[NextIndex(data, i)].msgs,
                  remaining |-> scan[NextIndex(data, i)].remaining]

LEMMA HashIndexInData ==
  ASSUME NEW data, Len(data) \in Nat, NEW i \in 1 .. Len(data)
  PROVE  HashIndex(data, i) \in {0} \cup (i .. Len(data))
<1> DEFINE at == {j \in i .. Len(data) : data[j] = Hash}
<1>1. CASE at = {}
  BY <1>1 DEF HashIndex
<1>2. CASE at # {}
  <2>1. at \in SUBSET Nat
    OBVIOUS
  <2>2. \E j \in at : \A k \in at : j <= k
    BY <1>2, <2>1, LeastNatural
  <2>3. HashIndex(data, i) \in at
    BY <1>2, <2>2 DEF HashIndex
  <2>4. QED
    BY <2>3
<1>3. QED
  BY <1>1, <1>2

LEMMA NextIndexAhead ==
  ASSUME NEW data, Len(data) \in Nat, NEW i \in 1 .. Len(data), ~Ends(data, i)
  PROVE  NextIndex(data, i) \in i + 1 .. Len(data) + 1
<1>1. data[i] = Plus => HashIndex(data, i) \in i .. Len(data)
  BY HashIndexInData DEF Ends, Complete
<1>2. QED
  BY <1>1 DEF NextIndex

(* There is a function that scans data: by induction from the end of the data. *)
LEMMA ScanExists ==
  ASSUME NEW data, Len(data) \in Nat
  PROVE  \E scan : scan = [i \in 1 .. Len(data) + 1 |-> scan[i]] /\ \A i \in 1 .. Len(data) + 1 : Scans(data, scan, i)
<1> DEFINE N == Len(data)
           From(j) == \E scan : scan = [i \in j .. N + 1 |-> scan[i]] /\ \A i \in j .. N + 1 : Scans(data, scan, i)
           Bad == {k \in 0 .. N : ~From(N + 1 - k)}
<1>1. From(N + 1)
  <2> DEFINE scan == [i \in N + 1 .. N + 1 |-> [msgs |-> <<>>, remaining |-> SubSeq(data, i, N)]]
  <2>1. \A i \in N + 1 .. N + 1 : Scans(data, scan, i)
    BY DEF Scans, Ends
  <2>2. scan = [i \in N + 1 .. N + 1 |-> scan[i]]
    OBVIOUS
  <2> HIDE DEF scan
  <2>3. QED
    BY <2>1, <2>2
<1>2. ASSUME NEW j \in 1 .. N, From(j + 1) PROVE From(j)
  <2>1. PICK rest : /\ rest = [i \in j + 1 .. N + 1 |-> rest[i]]
                    /\ \A i \in j + 1 .. N + 1 : Scans(data, rest, i)
    BY <1>2
  <2> DEFINE head == IF Ends(data, j) THEN [msgs |-> <<>>, remaining |-> SubSeq(data, j, Len(data))]
                     ELSE [msgs |-> <<Token(data, j)>> \o rest[NextIndex(data, j)].msgs,
                           remaining |-> rest[NextIndex(data, j)].remaining]
             scan == [i \in j .. N + 1 |-> IF i = j THEN head ELSE rest[i]]
  <2>2. scan[j] = head /\ \A i \in j + 1 .. N + 1 : scan[i] = rest[i]
    OBVIOUS
  <2>3. scan = [i \in j .. N + 1 |-> scan[i]]
    OBVIOUS
  <2> HIDE DEF scan
  <2>4. \A i \in j .. N : ~Ends(data, i) => scan[NextIndex(data, i)] = rest[NextIndex(data, i)]
    <3> SUFFICES ASSUME NEW i \in j .. N, ~Ends(data, i)
                 PROVE  scan[NextIndex(data, i)] = rest[NextIndex(data, i)]
      OBVIOUS
    <3>1. NextIndex(data, i) \in i + 1 .. N + 1
      BY NextIndexAhead
    <3>2. QED
      BY <2>2, <3>1
  <2>5. Scans(data, scan, j)
    <3>1. CASE Ends(data, j)
      BY <2>2, <3>1 DEF Scans
    <3>2. CASE ~Ends(data, j)
      <4>1. scan[NextIndex(data, j)] = rest[NextIndex(data, j)]
        BY <2>4, <3>2
      <4>2. QED
        BY <2>2, <3>2, <4>1 DEF Scans
    <3>3. QED
      BY <3>1, <3>2
  <2>6. ASSUME NEW i \in j + 1 .. N + 1 PROVE Scans(data, scan, i)
    <3>1. Scans(data, rest, i) /\ scan[i] = rest[i]
      BY <2>1, <2>2
    <3>2. CASE Ends(data, i)
      BY <3>1, <3>2 DEF Scans
    <3>3. CASE ~Ends(data, i)
      <4>1. i \in j .. N
        BY <3>3 DEF Ends
      <4>2. QED
        BY <2>4, <3>1, <3>3, <4>1 DEF Scans
    <3>4. QED
      BY <3>2, <3>3
  <2>7. \A i \in j .. N + 1 : Scans(data, scan, i)
    BY <2>5, <2>6
  <2>8. QED
    BY <2>3, <2>7
<1>3. Bad = {}
  <2> SUFFICES ASSUME Bad # {} PROVE FALSE
    OBVIOUS
  <2>1. Bad \in SUBSET Nat
    OBVIOUS
  <2>2. PICK k \in Bad : \A l \in Bad : k <= l
    BY <2>1, LeastNatural
  <2> HIDE DEF From
  <2>3. k # 0
    BY <1>1
  <2>4. k - 1 \in 0 .. N /\ k - 1 \notin Bad
    BY <2>2, <2>3
  <2>5. From(N + 1 - (k - 1)) /\ N + 1 - k \in 1 .. N /\ N + 1 - (k - 1) = (N + 1 - k) + 1
    BY <2>4, <2>3
  <2>6. From(N + 1 - k)
    BY <1>2, <2>5
  <2>7. QED
    BY <2>6
<1>4. From(N + 1 - N)
  BY <1>3
<1>5. QED
  BY <1>4

(* The tokenizer's local function is that one. *)
LEMMA TokenizerScans ==
  ASSUME NEW data, Len(data) \in Nat
  PROVE  \E scan : /\ scan = [i \in 1 .. Len(data) + 1 |-> scan[i]]
                   /\ \A i \in 1 .. Len(data) + 1 : Scans(data, scan, i)
                   /\ tokenizer(data) = scan[1]
<1> DEFINE Steps(scan, i) ==
             IF Ends(data, i) THEN [msgs |-> <<>>, remaining |-> SubSeq(data, i, Len(data))]
             ELSE [msgs |-> <<Token(data, i)>> \o scan[NextIndex(data, i)].msgs,
                   remaining |-> scan[NextIndex(data, i)].remaining]
           Chosen == CHOOSE scan : scan = [i \in 1 .. Len(data) + 1 |-> Steps(scan, i)]
<1>1. tokenizer(data) = Chosen[1]
  BY DEF tokenizer
<1>2. \E scan : scan = [i \in 1 .. Len(data) + 1 |-> Steps(scan, i)]
  <2>1. PICK scan : /\ scan = [i \in 1 .. Len(data) + 1 |-> scan[i]]
                    /\ \A i \in 1 .. Len(data) + 1 : Scans(data, scan, i)
    BY ScanExists
  <2>2. \A i \in 1 .. Len(data) + 1 : scan[i] = Steps(scan, i)
    BY <2>1 DEF Scans
  <2> HIDE DEF Steps
  <2>3. scan = [i \in 1 .. Len(data) + 1 |-> Steps(scan, i)]
    BY <2>1, <2>2
  <2>4. QED
    BY <2>3
<1> HIDE DEF Steps
<1>3. Chosen = [i \in 1 .. Len(data) + 1 |-> Steps(Chosen, i)]
  BY <1>2
<1> HIDE DEF Chosen
<1>4. Chosen = [i \in 1 .. Len(data) + 1 |-> Chosen[i]] /\ \A i \in 1 .. Len(data) + 1 : Chosen[i] = Steps(Chosen, i)
  BY <1>3
<1>5. \A i \in 1 .. Len(data) + 1 : Scans(data, Chosen, i)
  BY <1>4 DEF Scans, Steps
<1>6. QED
  BY <1>1, <1>4, <1>5
------------------------------------------------------------------------------
(* What the tokenizer makes of a reply that has arrived up to some symbol. *)

LEMMA FirstHash ==
  ASSUME NEW data, Len(data) \in Nat, NEW i \in 1 .. Len(data), HashIndex(data, i) # 0
  PROVE  HashIndex(data, i) \in i .. Len(data) /\ data[HashIndex(data, i)] = Hash
<1> DEFINE at == {j \in i .. Len(data) : data[j] = Hash}
<1>1. at # {}
  BY DEF HashIndex
<1>2. at \in SUBSET Nat
  OBVIOUS
<1>3. \E j \in at : \A k \in at : j <= k
  BY <1>1, <1>2, LeastNatural
<1>4. HashIndex(data, i) \in at
  BY <1>1, <1>3 DEF HashIndex
<1>5. QED
  BY <1>4

LEMMA NoHash ==
  ASSUME NEW data, Len(data) \in Nat, NEW i \in 1 .. Len(data), HashIndex(data, i) = 0
  PROVE  \A j \in i .. Len(data) : data[j] # Hash
<1> DEFINE at == {j \in i .. Len(data) : data[j] = Hash}
<1> SUFFICES ASSUME at # {} PROVE FALSE
  OBVIOUS
<1>1. at \in SUBSET Nat
  OBVIOUS
<1>2. \E j \in at : \A k \in at : j <= k
  BY <1>1, LeastNatural
<1>3. HashIndex(data, i) \in at
  BY <1>2 DEF HashIndex
<1>4. QED
  BY <1>3

LEMMA SymbolsDiffer ==
  /\ Plus # Hash /\ Dollar # Hash /\ Digit # Hash /\ Byte("-") # Plus
  /\ \A r \in [cmd : {"g", "h"}, at : Nat] : r # Hash
<1>1. Plus # Hash /\ Dollar # Hash /\ Digit # Hash /\ Byte("-") # Plus
  BY DEF Plus, Hash, Dollar, Digit, Byte
<1>2. ASSUME NEW r \in [cmd : {"g", "h"}, at : Nat] PROVE r # Hash
  <2>1. r = [cmd |-> r.cmd, at |-> r.at]
    OBVIOUS
  <2>2. QED
    BY <2>1 DEF Hash, Byte
<1>3. QED
  BY <1>1, <1>2

(* A subsequence, by its elements. *)
LEMMA PartIs ==
  ASSUME NEW S, NEW s \in Seq(S), NEW u \in Seq(S), NEW m \in 1 .. Len(s) + 1, NEW n \in m - 1 .. Len(s),
         Len(u) = n - m + 1, \A i \in 1 .. Len(u) : u[i] = s[m + i - 1]
  PROVE  SubSeq(s, m, n) = u
<1>1. SubSeq(s, m, n) \in Seq(S) /\ Len(SubSeq(s, m, n)) = n - m + 1
  BY SubSeqProperties
<1>2. \A i \in 1 .. n - m + 1 : SubSeq(s, m, n)[i] = s[m + i - 1]
  BY SubSeqProperties
<1>3. QED
  BY <1>1, <1>2, SeqEqual

(* A frame has its only '#' before two digits. *)
LEMMA FrameShape ==
  ASSUME NEW payload \in {<<>>} \cup Payloads
  PROVE  LET F == tx_frame(payload) IN
         /\ F \in Seq(Symbols) /\ Len(F) = Len(payload) + 5 /\ Len(payload) \in {0, 1}
         /\ F[1] = Plus /\ F[2] = Dollar
         /\ \A j \in 1 .. Len(F) : F[j] = Hash <=> j = Len(F) - 2
         /\ SubSeq(F, 3, Len(F) - 3) = payload
<1> DEFINE head == <<Plus, Dollar>>
           tail == <<Hash, Digit, Digit>>
           front == head \o payload
           F == front \o tail
           n == Len(payload)
<1>1. /\ head \in Seq(Symbols) /\ Len(head) = 2 /\ head[1] = Plus /\ head[2] = Dollar
      /\ tail \in Seq(Symbols) /\ Len(tail) = 3
      /\ tail[1] = Hash /\ tail[2] = Digit /\ tail[3] = Digit
  BY DEF Symbols
<1>2. payload \in Seq(Symbols) /\ n \in {0, 1} /\ \A i \in 1 .. n : payload[i] # Hash
  <2>1. CASE payload = <<>>
    BY <2>1
  <2>2. CASE payload \in Payloads
    <3>1. PICK r \in [cmd : {"g", "h"}, at : Nat] : payload = <<r>>
      BY <2>2 DEF Payloads
    <3>2. r # Hash /\ r \in Symbols
      BY SymbolsDiffer DEF Symbols
    <3>3. QED
      BY <3>1, <3>2
  <2>3. QED
    BY <2>1, <2>2
<1>3. tx_frame(payload) = F
  BY DEF tx_frame
<1> HIDE DEF head, tail
<1>4. /\ front \in Seq(Symbols) /\ Len(front) = n + 2
      /\ \A i \in 1 .. n + 2 : front[i] = IF i <= 2 THEN head[i] ELSE payload[i - 2]
  <2>1. head \o payload \in Seq(Symbols) /\ Len(head \o payload) = Len(head) + n
    BY <1>1, <1>2, ConcatProperties
  <2>2. \A i \in 1 .. Len(head) + n : (head \o payload)[i] = IF i <= Len(head) THEN head[i] ELSE payload[i - Len(head)]
    BY <1>1, <1>2, ConcatProperties
  <2>3. QED
    BY <1>1, <1>2, <2>1, <2>2
<1> HIDE DEF front
<1>5. /\ F \in Seq(Symbols) /\ Len(F) = n + 5
      /\ \A i \in 1 .. n + 5 : F[i] = IF i <= n + 2 THEN front[i] ELSE tail[i - (n + 2)]
  <2>1. front \in Seq(Symbols) /\ Len(front) = n + 2
    BY <1>4
  <2>2. F \in Seq(Symbols) /\ Len(F) = Len(front) + Len(tail)
    BY <1>1, <2>1, ConcatProperties
  <2>3. \A i \in 1 .. Len(front) + Len(tail) : F[i] = IF i <= Len(front) THEN front[i] ELSE tail[i - Len(front)]
    BY <1>1, <2>1, ConcatProperties
  <2>4. QED
    BY <1>1, <1>2, <2>1, <2>2, <2>3
<1> HIDE DEF F
<1>6. F[1] = Plus /\ F[2] = Dollar /\ \A i \in 1 .. n : F[i + 2] = payload[i]
  BY <1>1, <1>2, <1>4, <1>5 DEF front
<1>7. F[n + 3] = Hash /\ F[n + 4] = Digit /\ F[n + 5] = Digit
  <2>1. n = 0 => F[3] = tail[1] /\ F[4] = tail[2] /\ F[5] = tail[3]
    BY <1>5
  <2>2. n = 1 => F[4] = tail[1] /\ F[5] = tail[2] /\ F[6] = tail[3]
    BY <1>5
  <2>3. QED
    BY <1>1, <1>2, <2>1, <2>2
<1>8. \A j \in 1 .. n + 5 : F[j] = Hash <=> j = n + 3
  <2> SUFFICES ASSUME NEW j \in 1 .. n + 5 PROVE F[j] = Hash <=> j = n + 3
    OBVIOUS
  <2>1. j \in {1, 2, n + 3, n + 4, n + 5} \/ (n = 1 /\ j = 3)
    BY <1>2
  <2>2. n = 1 => F[3] # Hash
    BY <1>2, <1>6
  <2>3. QED
    BY <1>2, <1>6, <1>7, <2>1, <2>2, SymbolsDiffer
<1>9. SubSeq(F, 3, n + 2) = payload
  <2>1. \A i \in 1 .. n : payload[i] = F[3 + i - 1]
    BY <1>2, <1>6
  <2>2. 3 \in 1 .. Len(F) + 1 /\ n + 2 \in 3 - 1 .. Len(F) /\ Len(payload) = (n + 2) - 3 + 1
    BY <1>2, <1>5
  <2>3. QED
    BY <1>2, <1>5, <2>1, <2>2, PartIs
<1>10. Len(F) - 3 = n + 2 /\ Len(F) - 2 = n + 3
  BY <1>2, <1>5
<1>11. QED
  BY <1>2, <1>3, <1>5, <1>6, <1>8, <1>9, <1>10

LEMMA PartOfFrameWaits ==
  ASSUME NEW payload \in {<<>>} \cup Payloads, NEW k \in 1 .. Len(tx_frame(payload)) - 1
  PROVE  LET part == SubSeq(tx_frame(payload), 1, k)
         IN tokenizer(part) = [msgs |-> <<>>, remaining |-> part]
<1> DEFINE F == tx_frame(payload)
           part == SubSeq(F, 1, k)
<1>1. /\ F \in Seq(Symbols) /\ Len(F) \in Nat /\ F[1] = Plus
      /\ \A j \in 1 .. Len(F) : F[j] = Hash <=> j = Len(F) - 2
  BY FrameShape
<1>0. k \in 1 .. Len(F) - 1
  OBVIOUS
<1> HIDE DEF F
<1>2. part \in Seq(Symbols) /\ Len(part) = k /\ \A j \in 1 .. k : part[j] = F[j]
  <2>1. k \in 0 .. Len(F)
    BY <1>0, <1>1
  <2>2. part \in Seq(Symbols)
    BY <1>1, <2>1
  <2>3. Len(part) = k
    BY <1>1, <2>1
  <2>4. \A j \in 1 .. k : part[j] = F[j]
    BY <1>1, <2>1
  <2>5. QED
    BY <2>2, <2>3, <2>4
<1>3. SubSeq(part, 1, k) = part
  BY <1>2
<1> HIDE DEF part
<1>4. ~Complete(part, 1)
  <2> SUFFICES ASSUME Complete(part, 1) PROVE FALSE
    OBVIOUS
  <2>1. HashIndex(part, 1) \in 1 .. k /\ part[HashIndex(part, 1)] = Hash /\ HashIndex(part, 1) + 2 <= k
    BY <1>2, FirstHash DEF Complete
  <2>2. HashIndex(part, 1) = Len(F) - 2
    BY <1>1, <1>2, <2>1 DEF F
  <2>3. QED
    BY <1>1, <2>1, <2>2 DEF F
<1>5. Ends(part, 1)
  BY <1>1, <1>2, <1>4 DEF Ends
<1>6. PICK scan : Scans(part, scan, 1) /\ tokenizer(part) = scan[1]
  BY <1>2, TokenizerScans
<1>7. QED
  BY <1>2, <1>3, <1>5, <1>6 DEF Scans, part, F

LEMMA FrameIsMessage ==
  ASSUME NEW payload \in {<<>>} \cup Payloads
  PROVE  tokenizer(tx_frame(payload)) = [msgs |-> <<Success(payload)>>, remaining |-> <<>>]
<1> DEFINE F == tx_frame(payload)
           N == Len(F)
<1>1. /\ F \in Seq(Symbols) /\ N \in Nat /\ N >= 5 /\ F[1] = Plus /\ F[2] = Dollar
      /\ \A j \in 1 .. N : F[j] = Hash <=> j = N - 2
      /\ SubSeq(F, 3, N - 3) = payload
  BY FrameShape
<1> HIDE DEF F
<1>2. HashIndex(F, 1) = N - 2
  <2>1. HashIndex(F, 1) # 0
    <3> SUFFICES ASSUME HashIndex(F, 1) = 0 PROVE FALSE
      OBVIOUS
    <3>1. 1 \in 1 .. N /\ N - 2 \in 1 .. N
      BY <1>1
    <3>2. \A j \in 1 .. N : F[j] # Hash
      <4>1. Len(F) \in Nat /\ 1 \in 1 .. Len(F)
        BY <1>1, <3>1
      <4>2. QED
        BY <4>1, NoHash
    <3>3. F[N - 2] = Hash
      BY <1>1, <3>1
    <3>4. QED
      BY <3>1, <3>2, <3>3
  <2>2. QED
    BY <1>1, <2>1, FirstHash
<1>3. Complete(F, 1)
  BY <1>1, <1>2 DEF Complete
<1>4. ~Ends(F, 1) /\ NextIndex(F, 1) = N + 1 /\ Ends(F, N + 1)
  BY <1>1, <1>2, <1>3 DEF Ends, NextIndex
<1>5. Token(F, 1) = Success(payload)
  <2>1. 1 + 2 = 3 /\ HashIndex(F, 1) - 1 = N - 3
    BY <1>1, <1>2
  <2>2. QED
    BY <1>1, <2>1 DEF Token, Success
<1>6. PICK scan : /\ \A i \in 1 .. N + 1 : Scans(F, scan, i)
                  /\ tokenizer(F) = scan[1]
  BY <1>1, TokenizerScans
<1>7. SubSeq(F, N + 1, N) = <<>>
  BY <1>1
<1>8. scan[N + 1] = [msgs |-> <<>>, remaining |-> <<>>]
  <2>1. Scans(F, scan, N + 1)
    BY <1>1, <1>6
  <2>2. QED
    BY <1>4, <1>7, <2>1 DEF Scans
<1>9. scan[1] = [msgs |-> <<Success(payload)>> \o <<>>, remaining |-> <<>>]
  <2>1. Scans(F, scan, 1)
    BY <1>1, <1>6
  <2>2. QED
    BY <1>4, <1>5, <1>8, <2>1 DEF Scans
<1>10. <<Success(payload)>> \o <<>> = <<Success(payload)>>
  OBVIOUS
<1>11. QED
  BY <1>6, <1>9, <1>10 DEF F

LEMMA RefusalIsMessage == tokenizer(Refusal) = [msgs |-> <<Failure>>, remaining |-> <<>>]
<1>1. Len(Refusal) = 1 /\ Refusal[1] # Plus
  BY SymbolsDiffer DEF Refusal
<1>2. PICK scan : /\ Scans(Refusal, scan, 1) /\ Scans(Refusal, scan, 2)
                  /\ tokenizer(Refusal) = scan[1]
  <2> DEFINE data == Refusal
  <2> HIDE DEF data
  <2>0. Len(data) \in Nat
    BY <1>1 DEF data
  <2>1. PICK scan : /\ \A i \in 1 .. Len(data) + 1 : Scans(data, scan, i)
                    /\ tokenizer(data) = scan[1]
    BY <2>0, TokenizerScans
  <2>2. 1 \in 1 .. Len(data) + 1 /\ 2 \in 1 .. Len(data) + 1
    BY <1>1 DEF data
  <2>3. QED
    BY <2>1, <2>2 DEF data
<1>3. ~Ends(Refusal, 1) /\ NextIndex(Refusal, 1) = 2 /\ Ends(Refusal, 2) /\ Token(Refusal, 1) = Failure
  BY <1>1 DEF Ends, NextIndex, Token, Failure
<1>4. SubSeq(Refusal, 2, 1) = <<>>
  BY DEF Refusal
<1>5. scan[2] = [msgs |-> <<>>, remaining |-> <<>>]
  BY <1>1, <1>2, <1>3, <1>4 DEF Scans
<1>6. scan[1] = [msgs |-> <<Failure>> \o <<>>, remaining |-> <<>>]
  BY <1>2, <1>3, <1>5 DEF Scans
<1>7. <<Failure>> \o <<>> = <<Failure>>
  OBVIOUS
<1>8. QED
  BY <1>2, <1>6, <1>7

(* An answer is a refusal or a frame. *)
LEMMA AnswerKinds ==
  ASSUME NEW cmd \in {"s", "g", "h"}, NEW at \in Nat, NEW a \in Answers(cmd, at)
  PROVE  \/ a.stream = Refusal /\ a.msg = Failure
         \/ \E payload \in {<<>>} \cup Payloads : a.stream = tx_frame(payload) /\ a.msg = Success(payload)
<1>1. CASE cmd = "s"
  BY <1>1 DEF Answers
<1>2. CASE cmd \in {"g", "h"}
  <2>1. <<[cmd |-> cmd, at |-> at]>> \in Payloads
    BY <1>2 DEF Payloads
  <2>2. QED
    BY <1>2, <2>1 DEF Answers
<1>3. QED
  BY <1>1, <1>2

LEMMA AnswerStream ==
  ASSUME NEW cmd \in {"s", "g", "h"}, NEW at \in Nat, NEW a \in Answers(cmd, at)
  PROVE  a.stream \in Seq(Symbols) /\ Len(a.stream) \in Nat
<1>1. Refusal \in Seq(Symbols)
  BY DEF Refusal, Symbols
<1>2. a.stream \in Seq(Symbols)
  BY <1>1, AnswerKinds, FrameShape
<1>3. QED
  BY <1>2

(* The receive thread has a part of an answer, and gets the next symbols of it: it
   keeps the longer part, or puts the message into the queue. *)
LEMMA AnswerInPieces ==
  ASSUME NEW cmd \in {"s", "g", "h"}, NEW at \in Nat, NEW a \in Answers(cmd, at),
         NEW k \in 0 .. Len(a.stream) - 1, NEW n \in 1 .. Len(a.stream) - k
  PROVE  tokenizer(SubSeq(a.stream, 1, k + n)) =
           IF k + n = Len(a.stream) THEN [msgs |-> <<a.msg>>, remaining |-> <<>>]
           ELSE [msgs |-> <<>>, remaining |-> SubSeq(a.stream, 1, k + n)]
<1>1. CASE a.stream = Refusal /\ a.msg = Failure
  <2>1. Len(Refusal) = 1 /\ Refusal \in Seq(Symbols)
    BY DEF Refusal, Symbols
  <2>2. k + n = 1 /\ Len(a.stream) = 1 /\ SubSeq(Refusal, 1, 1) = Refusal
    BY <1>1, <2>1
  <2>3. QED
    BY <1>1, <2>1, <2>2, RefusalIsMessage
<1>2. ASSUME NEW payload \in {<<>>} \cup Payloads, a.stream = tx_frame(payload), a.msg = Success(payload)
      PROVE  tokenizer(SubSeq(a.stream, 1, k + n)) =
               IF k + n = Len(a.stream) THEN [msgs |-> <<a.msg>>, remaining |-> <<>>]
               ELSE [msgs |-> <<>>, remaining |-> SubSeq(a.stream, 1, k + n)]
  <2>1. a.stream \in Seq(Symbols) /\ Len(a.stream) \in Nat
    BY <1>2, FrameShape
  <2>2. CASE k + n = Len(a.stream)
    <3>1. SubSeq(a.stream, 1, k + n) = a.stream
      BY <2>1, <2>2
    <3>2. QED
      BY <1>2, <2>1, <2>2, <3>1, FrameIsMessage
  <2>3. CASE k + n # Len(a.stream)
    <3>1. k + n \in 1 .. Len(tx_frame(payload)) - 1
      BY <1>2, <2>1, <2>3
    <3>2. QED
      BY <1>2, <2>1, <2>3, <3>1, PartOfFrameWaits
  <2>4. QED
    BY <2>2, <2>3
<1>3. QED
  BY <1>1, <1>2, AnswerKinds

------------------------------------------------------------------------------
(* The inductive invariant. *)
Asking == {<<"g", "h", "h">>, <<"h", "h">>, <<"h">>, <<>>}
Points == [executed_insns : Nat, seen : Seq(Payloads)]
Stepping == <<"s", "g", "h", "h">>

Types ==
  /\ stage \in Talking \cup {"closing", "killing", "written", "gave_up"}
  /\ waiting \in BOOLEAN /\ failed \in BOOLEAN
  /\ executed \in Nat /\ steps \in Nat /\ max_insn_cnt \in Nat
  /\ rx_run \in BOOLEAN /\ rx_alive \in BOOLEAN
  /\ server \in {"running", "exited", "killed", "crashed"}
  /\ c2s = <<>> \/ \E cmd \in {"s", "g", "h", "k"} : c2s = <<cmd>>
  /\ trace \in Seq(Points)
  /\ seen \in Seq(Payloads)

(* Where the main thread is in its list of commands. *)
Commanded ==
  stage \in Talking =>
    \/ todo = Stepping /\ stage = "step" /\ seen = <<>>
    \/ stage = "look" /\ todo \in {<<"g">>, <<>>} /\ Len(seen) = 1 - Len(todo)
    \/ stage # "look" /\ todo \in Asking /\ Len(seen) = 3 - Len(todo)

(* How far the guest can be: not in its final loop for the second time. *)
Within ==
  /\ stage = "first" => executed = 0 /\ last_pc = "none"
  /\ stage = "step" /\ todo = Stepping =>
       /\ executed < Len(PcAt) - 1
       /\ IF executed = 0 THEN last_pc = "none" ELSE last_pc = PcAt[executed + 1]
  /\ (stage = "step" /\ todo # Stepping) \/ stage = "look" =>
       /\ executed \in 1 .. Len(PcAt) - 1
       /\ IF executed = 1 THEN last_pc = "none" ELSE last_pc = PcAt[executed]
  /\ executed <= Len(PcAt) - 1 /\ steps <= Len(PcAt) - 1
  /\ c2s = <<"s">> => steps < Len(PcAt) - 1

(* The replies of this stage are about the state it is in. *)
Fresh == stage \in Talking => \A r \in 1 .. Len(seen) : seen[r][1].at = executed

Still == s2c = <<>> /\ buffer = <<>> /\ msgs = <<>>
StepsWhenAnswered == IF Head(todo) = "s" THEN executed + 1 ELSE executed

(* The first e symbols of the answer a are under way. *)
UnderWay(a, e) ==
  /\ \E k \in 0 .. Len(a.stream) - 1 :
       k <= e /\ buffer = SubSeq(a.stream, 1, k) /\ s2c = SubSeq(a.stream, k + 1, e)
  /\ IF e = Len(a.stream) THEN steps = StepsWhenAnswered ELSE server = "crashed"

(* One command at a time: it is under way; or its answer is, up to the symbol a dying
   server has come to, the front of it in the buffer and the rest in the socket; or the
   answer has arrived. *)
Exchange ==
  stage \in Talking =>
    /\ server \in {"running", "crashed"}
    /\ ~waiting => c2s = <<>> /\ Still /\ steps = executed
    /\ waiting => todo # <<>> /\
         \/ c2s = <<Head(todo)>> /\ Still /\ steps = executed
         \/ /\ c2s = <<>>
            /\ \E a \in Answers(Head(todo), steps) :
                 \/ msgs = <<>> /\ \E e \in 0 .. Len(a.stream) : UnderWay(a, e)
                 \/ msgs = <<a.msg>> /\ s2c = <<>> /\ buffer = <<>> /\ steps = StepsWhenAnswered

(* Afterwards nobody waits for anything. *)
Over == stage \notin Talking => ~waiting

IInv == Types /\ Commanded /\ Within /\ Fresh /\ Exchange /\ Over /\ TracepointsFaithful

------------------------------------------------------------------------------
(* The lists of commands. *)
LEMMA NextCommand ==
  ASSUME NEW t \in Asking \cup {Stepping, <<"g">>}, t # <<>>
  PROVE  /\ Head(t) \in {"s", "g", "h"} /\ (Head(t) = "s" <=> t = Stepping)
         /\ t # Stepping => Len(Tail(t)) = Len(t) - 1
         /\ t \in Asking => Tail(t) \in Asking
         /\ t = <<"g">> => Tail(t) = <<>>
         /\ t = Stepping => Tail(t) = <<"g", "h", "h">>
<1>1. CASE t = <<"g", "h", "h">>
  BY <1>1 DEF Asking, Stepping
<1>2. CASE t = <<"h", "h">>
  BY <1>2 DEF Asking, Stepping
<1>3. CASE t = <<"h">> \/ t = <<"g">>
  BY <1>3 DEF Asking, Stepping
<1>4. CASE t = Stepping
  <2>1. Tail(t) = <<"g", "h", "h">> /\ Head(t) = "s"
    BY <1>4 DEF Stepping
  <2>2. t \notin Asking /\ t # <<"g">>
    BY <1>4 DEF Asking, Stepping
  <2>3. QED
    BY <1>4, <2>1, <2>2
<1>5. QED
  BY <1>1, <1>2, <1>3, <1>4 DEF Asking

LEMMA TodoIsList ==
  ASSUME Commanded, stage \in Talking PROVE todo \in Asking \cup {Stepping, <<"g">>}
BY DEF Commanded, Asking

LEMMA InitIInv == Init => IInv
<1> SUFFICES ASSUME Init PROVE IInv
  OBVIOUS
<1> USE GuestAssumption DEF Init, Talking
<1>1. todo = <<"g", "h", "h">>
  BY DEF Commands
<1>2. Types
  <2>1. max_insn_cnt \in Nat
    OBVIOUS
  <2>2. trace \in Seq(Points) /\ seen \in Seq(Payloads)
    OBVIOUS
  <2>3. QED
    BY <2>1, <2>2 DEF Types
<1>3. Commanded
  BY <1>1 DEF Commanded, Asking
<1>4. Within
  BY DEF Within
<1>5. Fresh /\ Exchange /\ Over /\ TracepointsFaithful
  BY DEF Fresh, Exchange, Still, Over, TracepointsFaithful
<1>6. QED
  BY <1>2, <1>3, <1>4, <1>5 DEF IInv

(* Leaving for good, nothing matters any more but what is still under way. *)
LEMMA LeaveIInv ==
  ASSUME IInv, NEW exception \in BOOLEAN, Leave(exception), UNCHANGED <<steps, server>>, waiting' = FALSE,
         trace' \in Seq(Points), TracepointsFaithful',
         c2s' = c2s \/ c2s' = <<"k">>
  PROVE  IInv'
<1> USE DEF IInv, Leave
<1>1. stage' \notin Talking
  BY DEF Talking
<1>2. Types'
  <2>1. c2s' = <<>> \/ \E cmd \in {"s", "g", "h", "k"} : c2s' = <<cmd>>
    BY DEF Types
  <2>2. QED
    BY <2>1 DEF Types
<1>3. Within'
  BY DEF Within
<1>4. Commanded' /\ Fresh' /\ Exchange' /\ Over'
  BY <1>1 DEF Commanded, Fresh, Exchange, Over
<1>5. QED
  BY <1>2, <1>3, <1>4

LEMMA TraceKept == TracepointsFaithful /\ UNCHANGED trace => TracepointsFaithful'
BY DEF TracepointsFaithful

LEMMA SendIInv == IInv /\ Send => IInv'
<1> SUFFICES ASSUME IInv, Send PROVE IInv'
  OBVIOUS
<1> USE DEF IInv
<1>1. stage \in Talking /\ todo # <<>> /\ ~waiting /\ c2s = <<>> /\ Still /\ steps = executed
  BY DEF Send, Exchange
<1>2. CASE server = "running" /\ c2s' = Append(c2s, Head(todo)) /\ waiting' = TRUE
           /\ UNCHANGED <<max_insn_cnt, stage, todo, seen, executed, last_pc, trace, failed, rx_vars, server_vars, s2c>>
  <2> USE DEF rx_vars, server_vars
  <2>1. Head(todo) \in {"s", "g", "h"} /\ (Head(todo) = "s" <=> todo = Stepping)
    BY <1>1, TodoIsList, NextCommand
  <2>2. c2s' = <<Head(todo)>>
    BY <1>1, <1>2
  <2>3. Types'
    BY <1>2, <2>1, <2>2 DEF Types
  <2>4. Commanded' /\ Fresh'
    BY <1>2 DEF Commanded, Fresh
  <2>5. Within'
    <3>1. Head(todo) = "s" => executed < Len(PcAt) - 1
      BY <1>1, <2>1 DEF Within, Commanded, Stepping, Asking
    <3>2. c2s' = <<"s">> => steps < Len(PcAt) - 1
      BY <1>1, <2>1, <2>2, <3>1
    <3>3. QED
      BY <1>2, <3>2 DEF Within
  <2>6. Exchange' /\ Over'
    BY <1>1, <1>2, <2>2 DEF Exchange, Over, Still
  <2>7. QED
    BY <1>2, <2>3, <2>4, <2>5, <2>6, TraceKept
<1>3. CASE Leave(TRUE) /\ UNCHANGED <<waiting, trace, msgs, c2s, server_vars, s2c>>
  BY <1>1, <1>3, LeaveIInv, TraceKept DEF server_vars, Types
<1>4. QED
  BY <1>2, <1>3 DEF Send

LEMMA AnswersToOthers ==
  ASSUME NEW cmd \in {"g", "h"}, NEW at \in Nat, NEW a \in Answers(cmd, at), a.msg.success
  PROVE  a.msg.data \in Payloads /\ a.msg.data[1].at = at /\ a.msg.data[1].cmd = cmd
<1>1. a.msg = Success(<<[cmd |-> cmd, at |-> at]>>)
  <2>1. cmd # "s"
    OBVIOUS
  <2>2. a.msg = Success(<<[cmd |-> cmd, at |-> at]>>) \/ a.msg = Failure
    BY <2>1 DEF Answers
  <2>3. ~Failure.success
    BY DEF Failure
  <2>4. QED
    BY <2>2, <2>3
<1>2. a.msg.data = <<[cmd |-> cmd, at |-> at]>>
  BY <1>1 DEF Success
<1>3. QED
  BY <1>2 DEF Payloads

LEMMA ReceiveIInv == IInv /\ Receive => IInv'
<1> SUFFICES ASSUME IInv, Receive PROVE IInv'
  OBVIOUS
<1> USE DEF IInv
<1>1. stage \in Talking /\ todo # <<>> /\ waiting /\ msgs # <<>>
  BY DEF Receive, Exchange
<1>2. PICK a \in Answers(Head(todo), steps) :
        c2s = <<>> /\ msgs = <<a.msg>> /\ s2c = <<>> /\ buffer = <<>> /\ steps = StepsWhenAnswered
  BY <1>1 DEF Exchange, Still
<1>3. c2s = <<>> /\ s2c = <<>> /\ buffer = <<>> /\ steps = StepsWhenAnswered
  BY <1>2
<1>4. Head(todo) \in {"s", "g", "h"} /\ (Head(todo) = "s" <=> todo = Stepping)
  BY <1>1, TodoIsList, NextCommand
<1>5. Head(msgs) = a.msg /\ msgs' = <<>> /\ waiting' = FALSE
  BY <1>2 DEF Receive
<1>6. UNCHANGED <<trace, server, steps, c2s, s2c>>
  BY DEF Receive, server_vars, socket_vars
<1>7. CASE /\ Head(todo) = "s" /\ executed' = executed + 1 /\ todo' = Tail(todo)
           /\ UNCHANGED <<max_insn_cnt, stage, seen, last_pc, failed, rx_run, rx_alive, buffer>>
  <2>1. todo = Stepping /\ todo' = <<"g", "h", "h">> /\ stage = "step" /\ seen = <<>>
    BY <1>1, <1>4, <1>7, NextCommand DEF Commanded, Asking, Stepping
  <2>2. Types'
    <3>1. executed' \in Nat /\ c2s' = <<>>
      BY <1>3, <1>6, <1>7 DEF Types
    <3>2. QED
      BY <1>5, <1>6, <1>7, <3>1 DEF Types
  <2>3. Commanded' /\ Fresh'
    <3>1. todo' \in Asking /\ Len(todo') = 3
      BY <2>1 DEF Asking
    <3>2. Len(seen') = 0 /\ stage' = "step"
      BY <1>7, <2>1
    <3>3. QED
      BY <3>1, <3>2 DEF Commanded, Fresh
  <2>4. Within'
    <3>1. todo' # Stepping
      BY <2>1 DEF Stepping
    <3>2. executed < Len(PcAt) - 1 /\ IF executed = 0 THEN last_pc = "none" ELSE last_pc = PcAt[executed + 1]
      BY <2>1 DEF Within
    <3>3. executed' \in 1 .. Len(PcAt) - 1
      BY <1>7, <3>2, GuestAssumption DEF Types
    <3>4. IF executed' = 1 THEN last_pc' = "none" ELSE last_pc' = PcAt[executed']
      BY <1>7, <3>2 DEF Types
    <3>5. QED
      BY <1>3, <1>6, <1>7, <2>1, <3>1, <3>3, <3>4 DEF Within
  <2>5. Exchange' /\ Over'
    <3>1. steps' = executed'
      BY <1>3, <1>6, <1>7 DEF StepsWhenAnswered
    <3>2. QED
      BY <1>1, <1>3, <1>5, <1>6, <1>7, <3>1 DEF Exchange, Still, Over
  <2>6. QED
    BY <1>6, <2>2, <2>3, <2>4, <2>5, TraceKept
<1>8. CASE /\ Head(todo) # "s" /\ Head(msgs).success
           /\ seen' = Append(seen, Head(msgs).data) /\ todo' = Tail(todo)
           /\ UNCHANGED <<max_insn_cnt, stage, executed, last_pc, failed, rx_run, rx_alive, buffer>>
  <2>1. todo # Stepping /\ Head(todo) \in {"g", "h"} /\ steps = executed
    BY <1>3, <1>4, <1>8 DEF StepsWhenAnswered
  <2> DEFINE data == a.msg.data
  <2>2. data \in Payloads /\ data[1].at = executed
    <3>1. a.msg.success /\ a \in Answers(Head(todo), executed) /\ executed \in Nat
      BY <1>2, <1>5, <1>8, <2>1 DEF Types
    <3>2. QED
      BY <2>1, <3>1, AnswersToOthers
  <2> HIDE DEF data
  <2>3. seen' = Append(seen, data)
    BY <1>5, <1>8 DEF data
  <2>4. seen \in Seq(Payloads)
    BY DEF Types
  <2>5. /\ seen' \in Seq(Payloads) /\ Len(seen') = Len(seen) + 1 /\ seen'[Len(seen) + 1] = data
        /\ \A r \in 1 .. Len(seen) : seen'[r] = seen[r]
    BY <2>2, <2>3, <2>4, AppendProperties
  <2>6. Types'
    BY <1>5, <1>6, <1>8, <2>5 DEF Types
  <2>7. Commanded'
    <3>1. CASE stage = "look"
      <4>1. todo = <<"g">> /\ Len(seen) = 0 /\ todo' = <<>>
        BY <1>1, <1>8, <2>1, <3>1, NextCommand DEF Commanded
      <4>2. QED
        BY <1>8, <2>5, <3>1, <4>1 DEF Commanded
    <3>2. CASE stage # "look"
      <4>1. todo \in Asking /\ Len(seen) = 3 - Len(todo)
        BY <1>1, <2>1, <3>2 DEF Commanded
      <4>2. todo' \in Asking /\ Len(todo') = Len(todo) - 1
        BY <1>1, <1>8, <2>1, <4>1, NextCommand
      <4>3. Len(todo) \in Nat
        BY <4>1 DEF Asking
      <4>4. Len(seen') = 3 - Len(todo')
        BY <2>5, <4>1, <4>2, <4>3
      <4>5. QED
        BY <1>8, <3>2, <4>2, <4>4 DEF Commanded
    <3>3. QED
      BY <3>1, <3>2
  <2>8. Fresh'
    BY <1>1, <1>8, <2>2, <2>4, <2>5 DEF Fresh
  <2>9. Within'
    <3>1. todo' # Stepping
      <4>1. todo \in Asking \cup {<<"g">>}
        BY <1>1, <2>1, TodoIsList
      <4>2. todo' \in Asking \/ todo' = <<>>
        BY <1>1, <1>8, <4>1, NextCommand
      <4>3. QED
        BY <4>2 DEF Asking, Stepping
    <3>2. QED
      BY <1>3, <1>6, <1>8, <2>1, <3>1 DEF Within
  <2>10. Exchange' /\ Over'
    BY <1>1, <1>3, <1>5, <1>6, <1>8, <2>1 DEF Exchange, Still, Over
  <2>11. QED
    BY <1>6, <2>6, <2>7, <2>8, <2>9, <2>10, TraceKept
<1>9. CASE Head(todo) # "s" /\ ~Head(msgs).success /\ Leave(TRUE)
  BY <1>5, <1>6, <1>9, LeaveIInv, TraceKept DEF Types
<1>10. QED
  BY <1>7, <1>8, <1>9 DEF Receive

LEMMA TimeoutIInv == IInv /\ Timeout => IInv'
<1> SUFFICES ASSUME IInv, Timeout PROVE IInv'
  OBVIOUS
<1>1. Leave(TRUE) /\ waiting' = FALSE /\ UNCHANGED <<trace, steps, server, c2s>>
  BY DEF Timeout, server_vars, socket_vars
<1>2. QED
  BY <1>1, LeaveIInv, TraceKept DEF IInv, Types

(* A tracepoint is made of three replies of the stage. *)
LEMMA RecordsFaithfully ==
  ASSUME IInv, stage \in {"first", "step", "last"}, todo = <<>>, trace' = Append(trace, Tracepoint)
  PROVE  trace' \in Seq(Points) /\ TracepointsFaithful'
<1> USE DEF IInv
<1>1. Len(seen) = 3
  BY DEF Commanded, Talking, Stepping
<1>2. \A r \in 1 .. 3 : seen[r] # <<>> /\ seen[r][1].at = executed
  <2> SUFFICES ASSUME NEW r \in 1 .. 3 PROVE seen[r] # <<>> /\ seen[r][1].at = executed
    OBVIOUS
  <2>1. seen \in Seq(Payloads)
    BY DEF Types
  <2>a. seen[r] \in Payloads
    BY <1>1, <2>1, ElementOfSeq
  <2>2. seen[r] # <<>>
    <3>1. PICK q : seen[r] = <<q>>
      BY <2>a DEF Payloads
    <3>2. QED
      BY <3>1
  <2>3. QED
    BY <1>1, <2>2 DEF Fresh, Talking
<1>3. Tracepoint \in Points /\ trace \in Seq(Points)
  BY DEF Tracepoint, Points, Types
<1>4. /\ trace' \in Seq(Points) /\ Len(trace') = Len(trace) + 1 /\ trace'[Len(trace) + 1] = Tracepoint
      /\ \A i \in 1 .. Len(trace) : trace'[i] = trace[i]
  BY <1>3, AppendProperties
<1>5. ASSUME NEW i \in 1 .. Len(trace'), NEW r \in 1 .. 3
      PROVE  trace'[i].seen[r] # <<>> /\ trace'[i].seen[r][1].at = trace'[i].executed_insns
  <2>1. CASE i = Len(trace) + 1
    BY <1>2, <1>4, <2>1 DEF Tracepoint
  <2>2. CASE i # Len(trace) + 1
    <3>1. i \in 1 .. Len(trace)
      BY <1>3, <1>4, <2>2
    <3>2. QED
      BY <1>4, <3>1 DEF TracepointsFaithful
  <2>3. QED
    BY <2>1, <2>2
<1>6. QED
  BY <1>4, <1>5 DEF TracepointsFaithful

LEMMA NothingUnderWay ==
  ASSUME IInv, stage \in Talking, todo = <<>>
  PROVE  waiting = FALSE /\ c2s = <<>> /\ Still /\ steps = executed /\ server \in {"running", "crashed"}
BY DEF IInv, Exchange, Types

LEMMA RecordedIInv == IInv /\ Recorded => IInv'
<1> SUFFICES ASSUME IInv, Recorded PROVE IInv'
  OBVIOUS
<1> USE DEF IInv
<1>1. stage \in {"first", "step"} /\ stage \in Talking /\ todo = <<>>
  BY DEF Recorded, Talking
<1>2. trace' \in Seq(Points) /\ TracepointsFaithful'
  BY <1>1, RecordsFaithfully DEF Recorded
<1>3. waiting = FALSE /\ c2s = <<>> /\ Still /\ steps = executed /\ server \in {"running", "crashed"}
  BY <1>1, NothingUnderWay
<1>4. /\ UNCHANGED <<max_insn_cnt, waiting, executed, last_pc, failed, rx_run, rx_alive, buffer, msgs>>
      /\ UNCHANGED <<server, steps, c2s, s2c>> /\ seen' = <<>>
  BY DEF Recorded, Proceed, rx_vars, server_vars, socket_vars
<1>5. \/ stage = "first" /\ stage' = "step" /\ todo' = Stepping
      \/ stage = "step" /\ stage' = "look" /\ todo' = <<"g">>
  BY <1>1 DEF Recorded, Proceed, Commands, Stepping
<1>6. stage' \in Talking /\ Types'
  <2>1. stage' \in Talking
    BY <1>5 DEF Talking
  <2>2. seen' \in Seq(Payloads)
    BY <1>4
  <2>3. QED
    BY <1>2, <1>4, <2>1, <2>2 DEF Types
<1>7. Commanded' /\ Fresh'
  BY <1>4, <1>5 DEF Commanded, Fresh
<1>8. Within'
  BY <1>1, <1>3, <1>4, <1>5, GuestAssumption DEF Within, Stepping
<1>9. Exchange' /\ Over'
  BY <1>3, <1>4, <1>6 DEF Exchange, Still, Over
<1>10. QED
  BY <1>2, <1>6, <1>7, <1>8, <1>9

LEMMA LookedIInv == IInv /\ Looked => IInv'
<1> SUFFICES ASSUME IInv, Looked PROVE IInv'
  OBVIOUS
<1> USE DEF IInv
<1>1. stage = "look" /\ stage \in Talking /\ todo = <<>>
  BY DEF Looked, Talking
<1>2. waiting = FALSE /\ c2s = <<>> /\ Still /\ steps = executed /\ server \in {"running", "crashed"}
  BY <1>1, NothingUnderWay
<1>3. /\ UNCHANGED <<max_insn_cnt, waiting, executed, trace, failed, rx_run, rx_alive, buffer, msgs>>
      /\ UNCHANGED <<server, steps, c2s, s2c>> /\ seen' = <<>>
  BY DEF Looked, Proceed, rx_vars, server_vars, socket_vars
<1>4. seen[1][1].at = executed
  BY <1>1 DEF Commanded, Fresh
<1>5. \/ stage' = "last" /\ todo' = <<"g", "h", "h">>
      \/ /\ stage' = "step" /\ todo' = Stepping
         /\ last_pc' = PcAt[executed + 1] /\ last_pc' # last_pc
  BY <1>4 DEF Looked, Proceed, Commands, Stepping
<1>6. stage' \in Talking /\ Types'
  <2>1. stage' \in Talking
    BY <1>5 DEF Talking
  <2>2. seen' \in Seq(Payloads)
    BY <1>3
  <2>3. QED
    BY <1>3, <2>1, <2>2 DEF Types
<1>7. Commanded' /\ Fresh'
  BY <1>3, <1>5 DEF Commanded, Fresh, Asking
<1>8. Within'
  <2>1. executed \in 1 .. Len(PcAt) - 1 /\ IF executed = 1 THEN last_pc = "none" ELSE last_pc = PcAt[executed]
    BY <1>1 DEF Within
  <2>2. CASE stage' = "last"
    BY <1>2, <1>3, <2>1, <2>2, GuestAssumption DEF Within
  <2>3. CASE stage' = "step" /\ todo' = Stepping /\ last_pc' = PcAt[executed + 1] /\ last_pc' # last_pc
    <3>1. executed # Len(PcAt) - 1
      <4> SUFFICES ASSUME executed = Len(PcAt) - 1 PROVE FALSE
        OBVIOUS
      <4>1. executed # 1 /\ last_pc = PcAt[Len(PcAt) - 1]
        BY <2>1, GuestAssumption
      <4>2. last_pc' = PcAt[Len(PcAt)]
        BY <2>3, GuestAssumption
      <4>3. QED
        BY <2>3, <4>1, <4>2, GuestAssumption
    <3>2. executed \in 1 .. Len(PcAt) - 1 /\ Len(PcAt) \in Nat
      BY <2>1, GuestAssumption
    <3>3. executed < Len(PcAt) - 1 /\ executed # 0 /\ executed <= Len(PcAt) - 1
      BY <3>1, <3>2
    <3>4. executed' = executed /\ steps' = executed /\ c2s' = <<>> /\ last_pc' = PcAt[executed + 1]
      BY <1>2, <1>3, <2>3
    <3>5. stage' = "step" /\ todo' = Stepping
      BY <2>3
    <3>6. QED
      BY <3>3, <3>4, <3>5 DEF Within
  <2>4. QED
    BY <1>5, <2>2, <2>3
<1>9. Exchange' /\ Over'
  BY <1>2, <1>3, <1>6 DEF Exchange, Still, Over
<1>10. QED
  BY <1>3, <1>6, <1>7, <1>8, <1>9, TraceKept

LEMMA FinishIInv == IInv /\ Finish => IInv'
<1> SUFFICES ASSUME IInv, Finish PROVE IInv'
  OBVIOUS
<1>1. stage = "last" /\ stage \in Talking /\ todo = <<>>
  BY DEF Finish, Talking
<1>2. trace' \in Seq(Points) /\ TracepointsFaithful'
  BY <1>1, RecordsFaithfully DEF Finish
<1>3. waiting = FALSE /\ c2s = <<>>
  BY <1>1, NothingUnderWay
<1>4. c2s' = c2s \/ c2s' = <<"k">>
  BY <1>3 DEF Finish
<1>5. PICK exception \in BOOLEAN : Leave(exception)
  BY DEF Finish
<1>6. QED
  BY <1>2, <1>3, <1>4, <1>5, LeaveIInv DEF Finish, server_vars

(* Joined and Kill. *)
LEMMA OverIInv ==
  ASSUME IInv, stage \notin Talking, stage' \in {"closing", "killing", "written", "gave_up"},
         server' \in {"running", "exited", "killed", "crashed"},
         UNCHANGED <<max_insn_cnt, todo, waiting, seen, executed, last_pc, trace, failed, rx_run, rx_alive, steps, c2s>>
  PROVE  IInv'
<1> USE DEF IInv
<1>1. stage' \notin Talking
  BY DEF Talking
<1>2. Types'
  BY DEF Types
<1>3. Within'
  BY <1>1 DEF Within, Talking
<1>4. Commanded' /\ Fresh' /\ Exchange' /\ Over'
  BY <1>1 DEF Commanded, Fresh, Exchange, Over
<1>5. QED
  BY <1>2, <1>3, <1>4, TraceKept

LEMMA RxRecvIInv == IInv /\ RxRecv => IInv'
<1> SUFFICES ASSUME IInv, RxRecv PROVE IInv'
  OBVIOUS
<1> USE DEF IInv
<1>1. PICK n \in 1 .. Len(s2c) :
        LET cut == tokenizer(buffer \o SubSeq(s2c, 1, n))
        IN /\ s2c' = SubSeq(s2c, n + 1, Len(s2c))
           /\ buffer' = cut.remaining
           /\ msgs' = msgs \o cut.msgs
  BY DEF RxRecv
<1>2. /\ UNCHANGED <<max_insn_cnt, stage, todo, waiting, seen, executed, last_pc, trace, failed>>
      /\ UNCHANGED <<rx_run, rx_alive, server, steps, c2s>>
  BY DEF RxRecv, main_vars, server_vars
<1>3. Types' /\ Commanded' /\ Within' /\ Fresh' /\ Over'
  BY <1>2 DEF Types, Commanded, Within, Fresh, Over
<1>4. Exchange'
  <2> SUFFICES ASSUME stage \in Talking PROVE Exchange'
    BY <1>2 DEF Exchange
  <2>1. waiting /\ todo # <<>>
    BY <1>1 DEF Exchange, Still
  <2>2. s2c # <<>>
    BY <1>1
  <2>3. PICK a \in Answers(Head(todo), steps) : c2s = <<>> /\ msgs = <<>> /\ \E e \in 0 .. Len(a.stream) : UnderWay(a, e)
    BY <2>1, <2>2 DEF Exchange, Still
  <2> DEFINE F == a.stream
             N == Len(F)
  <2>0. PICK e \in 0 .. N : UnderWay(a, e)
    BY <2>3
  <2>4. PICK k \in 0 .. N - 1 : k <= e /\ buffer = SubSeq(F, 1, k) /\ s2c = SubSeq(F, k + 1, e)
    BY <2>0 DEF UnderWay
  <2>5. IF e = N THEN steps = StepsWhenAnswered ELSE server = "crashed"
    BY <2>0 DEF UnderWay
  <2>6. Head(todo) \in {"s", "g", "h"} /\ steps \in Nat
    BY <2>1, TodoIsList, NextCommand DEF Types
  <2>7. ASSUME NEW m \in 1 .. N - k
        PROVE  tokenizer(SubSeq(F, 1, k + m)) =
                 IF k + m = N THEN [msgs |-> <<a.msg>>, remaining |-> <<>>]
                 ELSE [msgs |-> <<>>, remaining |-> SubSeq(F, 1, k + m)]
    BY <2>6, AnswerInPieces
  <2>8. F \in Seq(Symbols) /\ N \in Nat
    BY <2>6, AnswerStream
  <2> HIDE DEF F
  <2>9. Len(s2c) = e - k
    BY <2>4, <2>8
  <2>10. n \in 1 .. e - k /\ n \in 1 .. N - k
    BY <1>1, <2>8, <2>9
  <2>11. SubSeq(s2c, 1, n) = SubSeq(F, k + 1, k + n)
    <3>1. k + 1 \in 1 .. Len(F) /\ e \in 1 .. Len(F) /\ 1 \in 1 .. e - (k + 1) + 1 /\ n \in 1 .. e - (k + 1) + 1
      BY <2>8, <2>10
    <3>2. SubSeq(SubSeq(F, k + 1, e), 1, n) = SubSeq(F, (k + 1) + 1 - 1, (k + 1) + n - 1)
      BY <2>8, <3>1, SubSeqOfSubSeq
    <3>3. (k + 1) + 1 - 1 = k + 1 /\ (k + 1) + n - 1 = k + n
      BY <2>10
    <3>4. QED
      BY <2>4, <3>2, <3>3
  <2>12. buffer \o SubSeq(s2c, 1, n) = SubSeq(F, 1, k + n)
    <3>1. 1 \in 1 .. Len(F) + 1 /\ k \in 1 - 1 .. Len(F) /\ k + n \in k .. Len(F)
      BY <2>8, <2>10
    <3>2. SubSeq(F, 1, k) \o SubSeq(F, k + 1, k + n) = SubSeq(F, 1, k + n)
      BY <2>8, <3>1, ConcatAdjacentSubSeq
    <3>3. QED
      BY <2>4, <2>11, <3>2
  <2>13. tokenizer(buffer \o SubSeq(s2c, 1, n)) =
           IF k + n = N THEN [msgs |-> <<a.msg>>, remaining |-> <<>>]
           ELSE [msgs |-> <<>>, remaining |-> SubSeq(F, 1, k + n)]
    BY <2>7, <2>10, <2>12
  <2>14. CASE k + n = N
    <3>1. msgs' = <<a.msg>> /\ buffer' = <<>>
      BY <1>1, <2>3, <2>13, <2>14
    <3>2. e = N /\ n = e - k
      BY <2>8, <2>10, <2>14
    <3>3. s2c' = <<>>
      BY <1>1, <2>4, <2>8, <2>9, <3>2
    <3>4. QED
      BY <1>2, <2>1, <2>3, <2>5, <3>1, <3>2, <3>3 DEF Exchange, StepsWhenAnswered
  <2>15. CASE k + n # N
    <3>1. msgs' = <<>> /\ buffer' = SubSeq(F, 1, k + n)
      BY <1>1, <2>3, <2>13, <2>15
    <3>2. k + n \in 0 .. N - 1
      BY <2>8, <2>10, <2>15
    <3>3. s2c' = SubSeq(F, (k + n) + 1, e)
      <4>1. CASE n = e - k
        <5>1. s2c' = SubSeq(s2c, (e - k) + 1, e - k)
          BY <1>1, <2>9, <4>1
        <5>2. s2c' = <<>> /\ SubSeq(F, (k + n) + 1, e) = <<>>
          BY <2>4, <2>8, <2>9, <4>1, <5>1
        <5>3. QED
          BY <5>2
      <4>2. CASE n # e - k
        <5>1. /\ k + 1 \in 1 .. Len(F) /\ e \in 1 .. Len(F)
              /\ n + 1 \in 1 .. e - (k + 1) + 1 /\ e - k \in 1 .. e - (k + 1) + 1
          BY <2>8, <2>10, <4>2
        <5>2. SubSeq(SubSeq(F, k + 1, e), n + 1, e - k) = SubSeq(F, (k + 1) + (n + 1) - 1, (k + 1) + (e - k) - 1)
          BY <2>8, <5>1, SubSeqOfSubSeq
        <5>3. (k + 1) + (n + 1) - 1 = (k + n) + 1 /\ (k + 1) + (e - k) - 1 = e
          BY <2>8, <2>10
        <5>4. QED
          BY <1>1, <2>4, <2>9, <5>2, <5>3
      <4>3. QED
        BY <4>1, <4>2
    <3>4. UnderWay(a, e)'
      <4>1. k + n \in 0 .. N - 1 /\ k + n <= e
        BY <2>8, <2>10, <3>2
      <4>2. buffer' = SubSeq(F, 1, k + n) /\ s2c' = SubSeq(F, (k + n) + 1, e)
        BY <3>1, <3>3
      <4>3. IF e = N THEN steps' = StepsWhenAnswered' ELSE server' = "crashed"
        BY <1>2, <2>5 DEF StepsWhenAnswered
      <4>4. QED
        BY <4>1, <4>2, <4>3 DEF UnderWay, F
    <3>5. a \in Answers(Head(todo'), steps') /\ e \in 0 .. Len(a.stream)
      BY <1>2, <2>0, <2>3 DEF F
    <3>6. waiting' /\ todo' # <<>> /\ c2s' = <<>>
      BY <1>2, <2>1, <2>3
    <3>7. QED
      BY <1>2, <3>1, <3>4, <3>5, <3>6 DEF Exchange
  <2>16. QED
    BY <2>14, <2>15
<1>5. QED
  BY <1>2, <1>3, <1>4, TraceKept

LEMMA RxEndIInv == IInv /\ RxEnd => IInv'
<1> SUFFICES ASSUME IInv, RxEnd PROVE IInv'
  OBVIOUS
<1> USE DEF IInv
<1>1. /\ UNCHANGED <<max_insn_cnt, stage, todo, waiting, seen, executed, last_pc, trace, failed>>
      /\ UNCHANGED <<buffer, msgs, server, steps, c2s, s2c>> /\ rx_run' \in BOOLEAN /\ rx_alive' \in BOOLEAN
  BY DEF RxEnd, main_vars, server_vars, socket_vars, Types
<1>2. Types' /\ Commanded' /\ Within' /\ Fresh' /\ Over'
  BY <1>1 DEF Types, Commanded, Within, Fresh, Over
<1>3. Exchange'
  BY <1>1 DEF Exchange, Still, UnderWay, StepsWhenAnswered
<1>4. QED
  BY <1>1, <1>2, <1>3, TraceKept

(* What the server sends is the answer to the command. *)
LEMMA RepliesAreAnswers ==
  ASSUME NEW cmd \in {"s", "g", "h"}, NEW n \in Nat, NEW reply \in Replies(cmd, n)
  PROVE  \E a \in Answers(cmd, n) : a.stream = reply
<1> DEFINE yes == [stream |-> tx_frame(<<[cmd |-> cmd, at |-> n]>>), msg |-> Success(<<[cmd |-> cmd, at |-> n]>>)]
           no == [stream |-> Refusal, msg |-> Failure]
           done == [stream |-> tx_frame(<<>>), msg |-> Success(<<>>)]
<1>1. CASE cmd = "s"
  <2>1. reply = tx_frame(<<>>) /\ Answers(cmd, n) = {done}
    BY <1>1 DEF Replies, Answers
  <2>2. QED
    BY <2>1
<1>2. CASE cmd = "g"
  <2>1. reply = tx_frame(<<[cmd |-> cmd, at |-> n]>>) /\ yes \in Answers(cmd, n)
    BY <1>2 DEF Replies, Answers
  <2>2. QED
    BY <2>1
<1>3. CASE cmd = "h"
  <2>1. reply = tx_frame(<<[cmd |-> cmd, at |-> n]>>) \/ reply = Refusal
    BY <1>3 DEF Replies
  <2>2. yes \in Answers(cmd, n) /\ no \in Answers(cmd, n)
    BY <1>3 DEF Answers
  <2>3. QED
    BY <2>1, <2>2
<1>4. QED
  BY <1>1, <1>2, <1>3

(* The answer, or as much of it as is sent, is under way from its first symbol. *)
LEMMA AnswerSent ==
  ASSUME NEW cmd \in {"s", "g", "h"}, NEW n \in Nat, NEW a \in Answers(cmd, n), NEW e \in 0 .. Len(a.stream)
  PROVE  /\ 0 \in 0 .. Len(a.stream) - 1 /\ SubSeq(a.stream, 1, Len(a.stream)) = a.stream
         /\ <<>> = SubSeq(a.stream, 1, 0) /\ <<>> \o SubSeq(a.stream, 1, e) = SubSeq(a.stream, 0 + 1, e)
<1>1. a.stream \in Seq(Symbols) /\ Len(a.stream) \in Nat \ {0}
  <2>1. a.stream \in Seq(Symbols) /\ Len(a.stream) \in Nat
    BY AnswerStream
  <2>2. Len(Refusal) = 1
    BY DEF Refusal
  <2>3. \A payload \in {<<>>} \cup Payloads : Len(tx_frame(payload)) >= 5
    BY FrameShape
  <2>4. QED
    BY <2>1, <2>2, <2>3, AnswerKinds
<1>2. SubSeq(a.stream, 1, e) \in Seq(Symbols)
  BY <1>1
<1>3. QED
  BY <1>1, <1>2

LEMMA ServerIInv == IInv /\ Server => IInv'
<1> SUFFICES ASSUME IInv, Server PROVE IInv'
  OBVIOUS
<1> USE DEF IInv
<1>1. PICK cmd \in {"s", "g", "h", "k"} : c2s = <<cmd>>
  BY DEF Server, Types
<1>2. Handle(cmd) /\ c2s' = <<>> /\ server = "running"
  BY <1>1 DEF Server
<1>3. /\ UNCHANGED <<max_insn_cnt, stage, todo, waiting, seen, executed, last_pc, trace, failed>>
      /\ UNCHANGED <<rx_run, rx_alive, buffer, msgs>>
  BY DEF Server, main_vars, rx_vars
<1>4. steps' \in Nat /\ steps' <= Len(PcAt) - 1 /\ server' \in {"running", "exited", "killed", "crashed"}
  <2>1. steps \in Nat /\ steps <= Len(PcAt) - 1 /\ (cmd = "s" => steps < Len(PcAt) - 1) /\ Len(PcAt) \in Nat
    BY <1>1, GuestAssumption DEF Types, Within
  <2>2. \/ UNCHANGED steps /\ server' \in {"running", "crashed", "exited"}
        \/ cmd = "s" /\ steps' = steps + 1 /\ server' = "running"
    BY <1>2 DEF Handle, server_vars
  <2>3. QED
    BY <2>1, <2>2
<1>5. Types'
  BY <1>2, <1>3, <1>4 DEF Types
<1>6. Commanded' /\ Fresh' /\ Over'
  BY <1>3 DEF Commanded, Fresh, Over
<1>7. Within'
  BY <1>2, <1>3, <1>4 DEF Within
<1>8. Exchange'
  <2> SUFFICES ASSUME stage \in Talking PROVE Exchange'
    BY <1>3 DEF Exchange
  <2>1. waiting /\ todo # <<>> /\ cmd = Head(todo) /\ Still /\ steps = executed
    BY <1>1 DEF Exchange
  <2>2. cmd \in {"s", "g", "h"}
    BY <2>1, TodoIsList, NextCommand
  <2>3. server' = "running" /\ steps' = (IF cmd = "s" THEN steps + 1 ELSE steps) /\ steps' = StepsWhenAnswered'
    BY <1>2, <1>3, <2>1, <2>2 DEF Handle, StepsWhenAnswered
  <2>4. PICK reply \in Replies(cmd, steps) : s2c' = s2c \o reply
    BY <1>2, <2>2 DEF Handle
  <2>5. PICK a \in Answers(cmd, steps') : a.stream = reply
    <3>1. steps \in Nat /\ steps' \in Nat /\ (cmd # "s" => steps' = steps)
      BY <2>3 DEF Types
    <3>2. PICK a \in Answers(cmd, steps) : a.stream = reply
      BY <2>2, <2>4, <3>1, RepliesAreAnswers
    <3>3. a \in Answers(cmd, steps')
      BY <2>3, <3>1, <3>2 DEF Answers
    <3>4. QED
      BY <3>2, <3>3
  <2>6. UnderWay(a, Len(a.stream))'
    <3>1. /\ Len(a.stream) \in Nat /\ 0 \in 0 .. Len(a.stream) - 1 /\ SubSeq(a.stream, 1, Len(a.stream)) = a.stream
          /\ <<>> = SubSeq(a.stream, 1, 0)
          /\ <<>> \o SubSeq(a.stream, 1, Len(a.stream)) = SubSeq(a.stream, 0 + 1, Len(a.stream))
      <4>1. steps' \in Nat
        BY <1>4
      <4>2. Len(a.stream) \in Nat
        BY <2>2, <4>1, AnswerStream
      <4>3. QED
        BY <2>2, <4>1, <4>2, AnswerSent
    <3>2. buffer' = <<>> /\ s2c' = <<>> \o a.stream
      BY <1>3, <2>1, <2>4, <2>5 DEF Still
    <3>3. QED
      BY <2>3, <3>1, <3>2 DEF UnderWay
  <2>7. msgs' = <<>> /\ c2s' = <<>> /\ waiting' /\ todo' # <<>> /\ a \in Answers(Head(todo'), steps')
    BY <1>2, <1>3, <2>1, <2>5 DEF Still
  <2>8. Len(a.stream) \in 0 .. Len(a.stream)
    BY <1>4, <2>2, AnswerStream
  <2>9. QED
    BY <2>3, <2>6, <2>7, <2>8 DEF Exchange
<1>9. QED
  BY <1>3, <1>5, <1>6, <1>7, <1>8, TraceKept

(* A dying server leaves what is under way as it is, or takes the command with it and leaves
   a part of the answer. *)
LEMMA CrashIInv == IInv /\ Crash => IInv'
<1> SUFFICES ASSUME IInv, Crash PROVE IInv'
  OBVIOUS
<1> USE DEF IInv
<1>1. /\ UNCHANGED <<max_insn_cnt, stage, todo, waiting, seen, executed, last_pc, trace, failed>>
      /\ UNCHANGED <<rx_run, rx_alive, buffer, msgs, steps>> /\ server = "running" /\ server' = "crashed"
  BY DEF Crash, main_vars, rx_vars
<1>2. c2s' = c2s \/ c2s' = <<>>
  BY DEF Crash, socket_vars
<1>3. Types' /\ Commanded' /\ Fresh' /\ Over'
  BY <1>1, <1>2 DEF Types, Commanded, Fresh, Over
<1>4. Within'
  BY <1>1, <1>2 DEF Within
<1>5. Exchange'
  <2>1. CASE UNCHANGED socket_vars
    <3>1. \A a : \A e \in 0 .. Len(a.stream) : UnderWay(a, e) => UnderWay(a, e)'
      BY <1>1, <2>1 DEF UnderWay, StepsWhenAnswered, socket_vars
    <3>2. QED
      BY <1>1, <2>1, <3>1 DEF Exchange, Still, StepsWhenAnswered, socket_vars
  <2>2. ASSUME c2s # <<>>, c2s' = <<>>,
               NEW reply \in Replies(Head(c2s), steps), NEW n \in 0 .. Len(reply) - 1, s2c' = s2c \o SubSeq(reply, 1, n)
        PROVE  Exchange'
    <3> SUFFICES ASSUME stage \in Talking PROVE Exchange'
      BY <1>1 DEF Exchange
    <3>1. waiting /\ todo # <<>> /\ c2s = <<Head(todo)>> /\ Still /\ steps = executed
      BY <2>2 DEF Exchange
    <3> DEFINE cmd == Head(todo)
    <3>2. cmd \in {"s", "g", "h"} /\ steps \in Nat /\ Head(c2s) = cmd
      BY <3>1, TodoIsList, NextCommand DEF Types
    <3> HIDE DEF cmd
    <3>3. PICK a \in Answers(cmd, steps) : a.stream = reply
      BY <2>2, <3>2, RepliesAreAnswers
    <3>4. Len(a.stream) \in Nat /\ n \in 0 .. Len(a.stream) /\ n # Len(a.stream)
      <4>1. Len(a.stream) \in Nat
        BY <3>2, AnswerStream
      <4>2. QED
        BY <2>2, <3>3, <4>1
    <3>5. /\ 0 \in 0 .. Len(a.stream) - 1 /\ <<>> = SubSeq(a.stream, 1, 0)
          /\ <<>> \o SubSeq(a.stream, 1, n) = SubSeq(a.stream, 0 + 1, n)
      BY <3>2, <3>4, AnswerSent
    <3>6. buffer' = <<>> /\ s2c' = <<>> \o SubSeq(a.stream, 1, n)
      BY <1>1, <2>2, <3>1, <3>3 DEF Still
    <3>7. UnderWay(a, n)'
      BY <1>1, <3>4, <3>5, <3>6 DEF UnderWay
    <3>8. msgs' = <<>> /\ waiting' /\ todo' # <<>> /\ a \in Answers(Head(todo'), steps')
      BY <1>1, <3>1, <3>3 DEF Still, cmd
    <3>9. QED
      BY <1>1, <2>2, <3>4, <3>7, <3>8 DEF Exchange
  <2>3. QED
    BY <2>1, <2>2 DEF Crash
<1>6. QED
  BY <1>1, <1>3, <1>4, <1>5, TraceKept

LEMMA NextIInv == IInv /\ [Next]_vars => IInv'
<1> SUFFICES ASSUME IInv, [Next]_vars PROVE IInv'
  OBVIOUS
<1>1. CASE Main
  <2>1. CASE Joined
    BY <2>1, OverIInv DEF Joined, rx_vars, server_vars, socket_vars, Talking, IInv, Types
  <2>2. CASE Kill
    BY <2>2, OverIInv DEF Kill, rx_vars, socket_vars, Talking, IInv, Types
  <2>3. QED
    BY <1>1, <2>1, <2>2, SendIInv, ReceiveIInv, TimeoutIInv, RecordedIInv, LookedIInv, FinishIInv DEF Main
<1>2. CASE RxThread
  BY <1>2, RxRecvIInv, RxEndIInv DEF RxThread
<1>3. CASE Server
  BY <1>3, ServerIInv
<1>4. CASE Crash
  BY <1>4, CrashIInv
<1>5. CASE UNCHANGED vars
  <2>1. /\ UNCHANGED <<max_insn_cnt, stage, todo, waiting, seen, executed, last_pc, trace, failed>>
        /\ UNCHANGED <<rx_run, rx_alive, buffer, msgs, server, steps, c2s, s2c>>
    BY <1>5 DEF vars, main_vars, rx_vars, server_vars, socket_vars
  <2>2. Types' /\ Commanded' /\ Within' /\ Fresh' /\ Over'
    BY <2>1 DEF IInv, Types, Commanded, Within, Fresh, Over
  <2>3. Exchange'
    BY <2>1 DEF IInv, Exchange, Still, UnderWay, StepsWhenAnswered
  <2>4. QED
    BY <2>1, <2>2, <2>3, TraceKept DEF IInv
<1>6. QED
  BY <1>1, <1>2, <1>3, <1>4, <1>5 DEF Next

LEMMA SpecIInv == Spec => []IInv
<1>1. Init => IInv
  BY InitIInv
<1>2. IInv /\ [Next]_vars => IInv'
  BY NextIInv
<1>3. QED
  BY <1>1, <1>2, PTL DEF Spec

------------------------------------------------------------------------------
(* Whatever the guest does and however the socket cuts the stream, every variable has its
   type; in particular neither side takes a guest further than the end of its infinite
   loop, which the client sees once it has gone around it. *)
THEOREM TypeCorrect == Spec => []TypeOK
<1>1. IInv => TypeOK
  BY GuestAssumption DEF IInv, Types, Within, TypeOK
<1>2. QED
  BY <1>1, SpecIInv, PTL

(* All three replies in a tracepoint are about the state after the number of instructions
   it is filed under: nothing of an earlier or a later state is ever mixed in, for a guest
   of any length and replies in pieces of any size. *)
THEOREM TracepointsAreFaithful == Spec => []TracepointsFaithful
<1>1. IInv => TracepointsFaithful
  BY DEF IInv
<1>2. QED
  BY <1>1, SpecIInv, PTL

(* The message the receive thread hands over while the main thread waits is the one
   answer to the command that is waited for, whole and alone. *)
THEOREM RepliesMatch == Spec => []ReplyMatchesCommand
<1>1. IInv => ReplyMatchesCommand
  <2> SUFFICES ASSUME IInv, waiting, msgs # <<>>
               PROVE  /\ Len(msgs) = 1 /\ s2c = <<>> /\ buffer = <<>>
                      /\ Head(msgs).success =>
                           IF Head(todo) = "s" THEN Head(msgs).data = <<>>
                                               ELSE Head(msgs).data[1].cmd = Head(todo)
    BY DEF ReplyMatchesCommand
  <2> USE DEF IInv
  <2>1. stage \in Talking /\ todo # <<>>
    BY DEF Over, Exchange
  <2>2. PICK a \in Answers(Head(todo), steps) : msgs = <<a.msg>> /\ s2c = <<>> /\ buffer = <<>>
    BY <2>1 DEF Exchange, Still
  <2>3. Head(todo) \in {"s", "g", "h"} /\ steps \in Nat
    BY <2>1, TodoIsList, NextCommand DEF Types
  <2>4. Head(msgs) = a.msg /\ Len(msgs) = 1
    BY <2>2
  <2>5. Head(todo) = "s" => a.msg.data = <<>>
    BY <2>2 DEF Answers, Success
  <2>6. Head(todo) \in {"g", "h"} /\ a.msg.success => a.msg.data[1].cmd = Head(todo)
    BY <2>2, <2>3, AnswersToOthers
  <2>7. QED
    BY <2>2, <2>3, <2>4, <2>5, <2>6
<1>2. QED
  BY <1>1, SpecIInv, PTL

(* There are never two commands under way, the second of which the server would drop. *)
THEOREM NoCommandIsLost == Spec => []NoCommandLost
<1>1. IInv => NoCommandLost
  <2> SUFFICES ASSUME Types PROVE Len(c2s) <= 1
    BY DEF IInv, NoCommandLost
  <2>1. CASE c2s = <<>>
    BY <2>1
  <2>2. CASE c2s # <<>>
    <3>1. PICK cmd : c2s = <<cmd>>
      BY <2>2 DEF Types
    <3>2. QED
      BY <3>1
  <2>3. QED
    BY <2>1, <2>2
<1>2. QED
  BY <1>1, SpecIInv, PTL
==============================================================================

----------------------------- MODULE Traces_proofs -----------------------------
(* Proofs about Traces: for any two emulators, any options, and guests of any
   length. *)
EXTENDS Traces, TLAPS

(* A tracepoint as the reader finds it in the file. *)
Point == [executed_insns : Nat, components : Seq(State) \X State]

(* c is the chain of the m states after the first one in st. *)
Chain(st, c, m) ==
  c \in Seq(State) /\ Len(c) = m /\ \A x \in 1 .. m : c[x] = st[x + 1]

Before(n) == IF n = 0 THEN 0 ELSE n - 1

(* Whether a trace with options a keeps the state after n instructions. *)
Kept(a, n) == n = 0 \/ ((n - 1) % a.decimation = 0 /\ ~a.minify_tracefile)

(* A tracepoint made right after a step (or before the first one) of an emulator
   that has been in the states st. *)
StepPoint(a, st, p) ==
  /\ Key(p) \in 0 .. Len(st) - 1
  /\ Kept(a, Key(p))
  /\ p.components[2] = st[Key(p) + 1]
  /\ Chain(st, p.components[1], Before(Key(p)))

(* The first m tracepoints of tr are those the options ask for, in order. *)
Log(a, st, tr, m) ==
  /\ \A k \in 1 .. m : StepPoint(a, st, tr[k])
  /\ \A k, l \in 1 .. m : k < l => Key(tr[k]) < Key(tr[l])
  /\ \A n \in 0 .. Len(st) - 1 : Kept(a, n) => \E k \in 1 .. m : Key(tr[k]) = n

(* The last tracepoint, which is chained to the state it shows. *)
FinalPoint(st, p) ==
  /\ Len(st) > 1
  /\ Key(p) = Len(st) - 1
  /\ p.components[2] = st[Len(st)]
  /\ Chain(st, p.components[1], Len(st) - 1)

FullLog(a, st, tr) ==
  /\ Len(tr) > 0
  /\ Log(a, st, tr, Len(tr) - 1)
  /\ FinalPoint(st, tr[Len(tr)])

------------------------------------------------------------------------------
(* Two chains of one length over the same states are one chain. *)
LEMMA ChainUnique ==
  ASSUME NEW st1, NEW st2, NEW c1, NEW c2, NEW m \in Nat,
         Chain(st1, c1, m), Chain(st2, c2, m),
         \A x \in 1 .. m : st1[x + 1] = st2[x + 1]
  PROVE  c1 = c2
BY DEF Chain

(* A chain does not change when its emulator moves on. *)
LEMMA ChainExtends ==
  ASSUME NEW st \in Seq(State), NEW s \in State, NEW c, NEW m \in Nat, m < Len(st),
         Chain(st, c, m)
  PROVE  Chain(Append(st, s), c, m)
BY DEF Chain

(* The first tracepoint. *)
LEMMA LogStarts ==
  ASSUME NEW a, NEW s \in State, NEW p, Key(p) = 0, p.components = << <<>>, s >>
  PROVE  Log(a, <<s>>, <<p>>, 1)
<1>1. Chain(<<s>>, <<>>, 0)
  BY DEF Chain
<1>2. StepPoint(a, <<s>>, p)
  BY <1>1 DEF StepPoint, Kept, Before
<1>3. QED
  BY <1>2 DEF Log

(* A step, kept or not. *)
LEMMA LogGrows ==
  ASSUME NEW a, NEW st \in Seq(State), Len(st) > 0, NEW tr \in Seq(Point), NEW s \in State,
         NEW c, Chain(st, c, Len(st) - 1), NEW keep \in BOOLEAN,
         NEW p \in Point, Key(p) = Len(st), p.components = <<c, s>>,
         keep <=> Kept(a, Len(st)),
         Log(a, st, tr, Len(tr))
  PROVE  LET new == IF keep THEN Append(tr, p) ELSE tr
         IN Log(a, Append(st, s), new, Len(new))
<1> DEFINE st2 == Append(st, s)
           new == IF keep THEN Append(tr, p) ELSE tr
<1>1. st2 \in Seq(State) /\ Len(st2) = Len(st) + 1 /\ st2[Len(st) + 1] = s
      /\ \A x \in 1 .. Len(st) : st2[x] = st[x]
  OBVIOUS
<1>2. /\ Len(tr) \in Nat
      /\ keep => Len(new) = Len(tr) + 1 /\ new[Len(tr) + 1] = p
      /\ ~keep => Len(new) = Len(tr)
      /\ \A k \in 1 .. Len(tr) : new[k] = tr[k]
  <2>1. CASE keep
    BY <2>1
  <2>2. CASE ~keep
    BY <2>2
  <2>3. QED
    BY <2>1, <2>2
<1>3. ASSUME NEW k \in 1 .. Len(tr) PROVE StepPoint(a, st2, tr[k])
  <2>1. StepPoint(a, st, tr[k])
    BY DEF Log
  <2>2. Before(Key(tr[k])) \in Nat /\ Before(Key(tr[k])) < Len(st)
    BY <2>1 DEF StepPoint, Before
  <2>3. Chain(st2, tr[k].components[1], Before(Key(tr[k])))
    BY <2>1, <2>2, ChainExtends DEF StepPoint
  <2>4. QED
    BY <1>1, <2>1, <2>3 DEF StepPoint
<1>4. ASSUME keep PROVE StepPoint(a, st2, p)
  <2>1. Chain(st2, c, Len(st) - 1)
    BY ChainExtends
  <2>2. QED
    BY <1>1, <1>4, <2>1 DEF StepPoint, Before
<1> HIDE DEF st2, new
<1>5. \A k \in 1 .. Len(new) : StepPoint(a, st2, new[k])
  BY <1>2, <1>3, <1>4
<1>6. \A k \in 1 .. Len(tr) : Key(tr[k]) \in 0 .. Len(st) - 1
  BY DEF Log, StepPoint
<1>7. ASSUME NEW k \in 1 .. Len(new), NEW l \in 1 .. Len(new), k < l
      PROVE  Key(new[k]) < Key(new[l])
  <2>1. k \in 1 .. Len(tr) /\ new[k] = tr[k]
    BY <1>2, <1>7
  <2>2. CASE l \in 1 .. Len(tr)
    BY <1>2, <1>7, <2>1, <2>2 DEF Log
  <2>3. CASE l \notin 1 .. Len(tr)
    <3>1. new[l] = p
      BY <1>2, <2>3
    <3>2. QED
      BY <1>6, <2>1, <3>1
  <2>4. QED
    BY <2>2, <2>3
<1>8. ASSUME NEW n \in 0 .. Len(st2) - 1, Kept(a, n)
      PROVE  \E k \in 1 .. Len(new) : Key(new[k]) = n
  <2>1. CASE n \in 0 .. Len(st) - 1
    <3>1. PICK k \in 1 .. Len(tr) : Key(tr[k]) = n
      BY <1>8, <2>1 DEF Log
    <3>2. QED
      BY <1>2, <3>1
  <2>2. CASE n \notin 0 .. Len(st) - 1
    <3>1. n = Len(st)
      BY <1>1, <2>2
    <3>2. keep
      BY <1>8, <3>1
    <3>3. QED
      BY <1>2, <3>1, <3>2
  <2>3. QED
    BY <2>1, <2>2
<1>9. Log(a, st2, new, Len(new))
  BY <1>5, <1>7, <1>8 DEF Log
<1>10. QED
  BY <1>9 DEF new, st2

(* The tracepoint after the last step. *)
LEMMA LogEnds ==
  ASSUME NEW a, NEW st \in Seq(State), Len(st) > 1, NEW tr \in Seq(Point),
         Log(a, st, tr, Len(tr)),
         NEW p \in Point, FinalPoint(st, p)
  PROVE  FullLog(a, st, Append(tr, p))
<1> DEFINE new == Append(tr, p)
<1>1. Len(new) = Len(tr) + 1 /\ new[Len(tr) + 1] = p /\ Len(tr) \in Nat
      /\ \A k \in 1 .. Len(tr) : new[k] = tr[k]
  OBVIOUS
<1> HIDE DEF new
<1>2. Log(a, st, new, Len(tr))
  BY <1>1 DEF Log
<1>3. FullLog(a, st, new)
  BY <1>1, <1>2 DEF FullLog
<1>4. QED
  BY <1>3 DEF new

(* The counts in a finished trace never go down, and none is past the end. *)
LEMMA FullLogSorted ==
  ASSUME NEW a, NEW st \in Seq(State), NEW tr \in Seq(Point), FullLog(a, st, tr)
  PROVE  /\ \A k \in 1 .. Len(tr) : Key(tr[k]) \in 0 .. Len(st) - 1
         /\ \A k, l \in 1 .. Len(tr) : k <= l => Key(tr[k]) <= Key(tr[l])
<1>1. \A k \in 1 .. Len(tr) - 1 : Key(tr[k]) \in 0 .. Len(st) - 1
  BY DEF FullLog, Log, StepPoint
<1>2. Key(tr[Len(tr)]) = Len(st) - 1 /\ Len(st) - 1 \in Nat /\ Len(tr) \in Nat
  BY DEF FullLog, FinalPoint
<1>3. \A k \in 1 .. Len(tr) : Key(tr[k]) \in 0 .. Len(st) - 1
  BY <1>1, <1>2
<1>4. ASSUME NEW k \in 1 .. Len(tr), NEW l \in 1 .. Len(tr), k <= l
      PROVE  Key(tr[k]) <= Key(tr[l])
  <2>1. CASE l = Len(tr)
    BY <1>2, <1>3, <2>1
  <2>2. CASE k = l
    BY <1>3, <2>2
  <2>3. CASE k < l /\ l # Len(tr)
    <3>1. k \in 1 .. Len(tr) - 1 /\ l \in 1 .. Len(tr) - 1
      BY <1>2, <2>3
    <3>2. Key(tr[k]) < Key(tr[l])
      BY <2>3, <3>1 DEF FullLog, Log
    <3>3. QED
      BY <1>3, <3>2
  <2>4. QED
    BY <1>4, <2>1, <2>2, <2>3
<1>5. QED
  BY <1>3, <1>4

------------------------------------------------------------------------------
(* Two tracepoints of one count that compare equal: the emulators have been in
   the same states up to it. *)
LEMMA EqualPointsAgree ==
  ASSUME NEW a1, NEW st1 \in Seq(State), NEW tr1 \in Seq(Point), FullLog(a1, st1, tr1),
         NEW a2, NEW st2 \in Seq(State), NEW tr2 \in Seq(Point), FullLog(a2, st2, tr2),
         st1[1] = st2[1],
         NEW k \in 1 .. Len(tr1), NEW l \in 1 .. Len(tr2),
         Key(tr1[k]) = Key(tr2[l]),
         tr1[k].components[1] = tr2[l].components[1]
  PROVE  /\ \A x \in 0 .. Key(tr1[k]) - 1 : st1[x + 1] = st2[x + 1]
         /\ tr1[k].components[2] = st1[Key(tr1[k]) + 1]
         /\ tr2[l].components[2] = st2[Key(tr1[k]) + 1]
<1> DEFINE n == Key(tr1[k])
           c == tr1[k].components[1]
<1>1. /\ k < Len(tr1) => StepPoint(a1, st1, tr1[k])
      /\ k = Len(tr1) => FinalPoint(st1, tr1[k])
  BY DEF FullLog, Log
<1>2. /\ l < Len(tr2) => StepPoint(a2, st2, tr2[l])
      /\ l = Len(tr2) => FinalPoint(st2, tr2[l])
  BY DEF FullLog, Log
<1>3. n \in Nat
  BY FullLogSorted
<1>4. Chain(st1, c, Before(n)) \/ (n > 0 /\ Chain(st1, c, n))
  BY <1>1, <1>3 DEF StepPoint, FinalPoint
<1>5. Chain(st2, c, Before(n)) \/ (n > 0 /\ Chain(st2, c, n))
  BY <1>2, <1>3 DEF StepPoint, FinalPoint
<1>6. /\ tr1[k].components[2] = st1[n + 1]
      /\ tr2[l].components[2] = st2[n + 1]
  BY <1>1, <1>2 DEF StepPoint, FinalPoint
<1> HIDE DEF n, c
<1>7. ASSUME NEW x \in 0 .. n - 1 PROVE st1[x + 1] = st2[x + 1]
  <2>1. CASE x = 0
    BY <2>1
  <2>2. CASE x > 0
    <3>1. Before(n) = n - 1 /\ x \in 1 .. n - 1
      BY <1>3, <2>2 DEF Before
    <3>2. c[x] = st1[x + 1]
      BY <1>4, <3>1 DEF Chain
    <3>3. c[x] = st2[x + 1]
      BY <1>5, <3>1 DEF Chain
    <3>4. QED
      BY <3>2, <3>3
  <2>3. QED
    BY <2>1, <2>2
<1>8. QED
  BY <1>6, <1>7 DEF n

(* Two tracepoints of one count and of one kind that have different chains: the
   emulators have not been in the same states up to it. *)
LEMMA UnequalChainsDisagree ==
  ASSUME NEW a1, NEW st1 \in Seq(State), NEW tr1 \in Seq(Point), FullLog(a1, st1, tr1),
         NEW a2, NEW st2 \in Seq(State), NEW tr2 \in Seq(Point), FullLog(a2, st2, tr2),
         NEW k \in 1 .. Len(tr1), NEW l \in 1 .. Len(tr2),
         Key(tr1[k]) = Key(tr2[l]),
         k = Len(tr1) <=> l = Len(tr2),
         tr1[k].components[1] # tr2[l].components[1]
  PROVE  \E x \in 0 .. Key(tr1[k]) : st1[x + 1] # st2[x + 1]
<1> DEFINE n == Key(tr1[k])
<1> SUFFICES ASSUME \A x \in 0 .. n : st1[x + 1] = st2[x + 1] PROVE FALSE
  OBVIOUS
<1>1. n \in Nat
  BY FullLogSorted
<1>2. CASE k = Len(tr1)
  <2>1. FinalPoint(st1, tr1[k]) /\ FinalPoint(st2, tr2[l])
    BY <1>2 DEF FullLog
  <2>2. Chain(st1, tr1[k].components[1], n) /\ Chain(st2, tr2[l].components[1], n)
    BY <1>1, <2>1 DEF FinalPoint
  <2>3. \A x \in 1 .. n : st1[x + 1] = st2[x + 1]
    OBVIOUS
  <2> HIDE DEF n
  <2>4. QED
    BY <1>1, <2>2, <2>3, ChainUnique
<1>3. CASE k # Len(tr1)
  <2>1. StepPoint(a1, st1, tr1[k]) /\ StepPoint(a2, st2, tr2[l])
    BY <1>3 DEF FullLog, Log
  <2>2. /\ Chain(st1, tr1[k].components[1], Before(n))
        /\ Chain(st2, tr2[l].components[1], Before(n))
    BY <2>1 DEF StepPoint
  <2>3. Before(n) \in Nat /\ Before(n) <= n
    BY <1>1 DEF Before
  <2>4. \A x \in 1 .. Before(n) : st1[x + 1] = st2[x + 1]
    BY <1>1, <2>3
  <2> HIDE DEF n
  <2>5. QED
    BY <2>2, <2>3, <2>4, ChainUnique
<1>4. QED
  BY <1>2, <1>3

------------------------------------------------------------------------------
Fresh(t) == t > writing \/ (t = writing /\ phase = "initial")
Open(t) == t = writing /\ phase \in {"run", "final"}
Done(t) == t < writing \/ phase \in {"compare"} \cup Outcomes

Types ==
  /\ args \in [Traced -> Options]
  /\ phase \in {"initial", "run", "final", "compare"} \cup Outcomes
  /\ writing \in Traced
  /\ states \in [Traced -> Seq(State)]
  /\ \A t \in Traced : Len(states[t]) > 0 /\ states[t][1] = Start
  /\ trace \in [Traced -> Seq(Point)]
  /\ last_pc \in Pcs \cup {"None"}
  /\ cause \in {"none", "instruction", "unable"}
  /\ i \in Nat \ {0} /\ j \in Nat \ {0}

(* What the recorder has done so far for trace t. *)
WhenFresh(t) ==
  /\ trace[t] = <<>> /\ states[t] = <<Start>>
  /\ t = writing => prev_state = <<>>

WhenOpen(t) ==
  /\ Log(args[t], states[t], trace[t], Len(trace[t]))
  /\ Len(trace[t]) <= Len(states[t])
  /\ Chain(states[t], prev_state, Executed(t))
  /\ Executed(t) \in 0 .. MaxSteps + 1
  /\ phase = "run" => Executed(t) <= MaxSteps
  /\ phase = "final" => Executed(t) > 0

WhenDone(t) ==
  /\ FullLog(args[t], states[t], trace[t])
  /\ Len(trace[t]) <= Len(states[t]) + 1
  /\ Executed(t) <= MaxSteps + 1

Recording ==
  \A t \in Traced :
    /\ Fresh(t) => WhenFresh(t)
    /\ Open(t) => WhenOpen(t)
    /\ Done(t) => WhenDone(t)

(* Tracepoint n is among the first m of trace t. *)
Keyed(t, m, n) == \E k \in 1 .. m : Key(trace[t][k]) = n

(* Where the comparator is. *)
Comparing ==
  /\ phase \notin {"compare"} \cup Outcomes => i = 1 /\ j = 1
  /\ phase \in {"compare"} \cup Outcomes =>
       /\ writing = 2 /\ prev_state = <<>>
       /\ i <= Len(trace[1]) + 1 /\ j <= Len(trace[2]) + 1
  /\ phase \in {"deviation", "broken"} => i <= Len(trace[1]) /\ j <= Len(trace[2])
  /\ phase = "same" => i > Len(trace[1]) \/ j > Len(trace[2])
  /\ cause # "none" => phase = "deviation"

(* A count that both traces have a tracepoint of has been compared when align is
   past it in one of them. *)
Compared ==
  \A n \in Nat :
    /\ HasTracepoint(1, n) /\ HasTracepoint(2, n)
    /\ Keyed(1, i - 1, n) \/ Keyed(2, j - 1, n)
    => AgreeUpTo(n)

(* Traces made with the same options are walked in step. *)
InStep ==
  args[1] = args[2] /\ i <= Len(trace[1]) /\ j <= Len(trace[2])
    => \A n \in Nat : Keyed(1, i - 1, n) <=> Keyed(2, j - 1, n)

IInv ==
  /\ Types
  /\ Recording
  /\ Comparing
  /\ Compared
  /\ InStep
  /\ NoFalseAlarm
  /\ CauseIsFirstDeviation

------------------------------------------------------------------------------
(* While the traces are written nothing has been compared. *)
LEMMA NothingCompared ==
  ASSUME i' = 1, j' = 1, cause' = "none",
         phase' \in {"initial", "run", "final"} \/ (phase' = "compare" /\ writing' = 2 /\ prev_state' = <<>>),
         \A t \in Traced : Len(trace'[t]) \in Nat
  PROVE  Comparing' /\ Compared' /\ InStep' /\ NoFalseAlarm' /\ CauseIsFirstDeviation'
<1>1. Len(trace'[1]) \in Nat /\ Len(trace'[2]) \in Nat
  BY DEF Traced
<1>2. Comparing'
  BY <1>1 DEF Comparing, Outcomes
<1>3. \A t, n : ~Keyed(t, i - 1, n)'
  BY DEF Keyed
<1>4. Compared' /\ InStep'
  BY <1>3 DEF Compared, InStep
<1>5. NoFalseAlarm' /\ CauseIsFirstDeviation'
  BY DEF NoFalseAlarm, CauseIsFirstDeviation
<1>6. QED
  BY <1>2, <1>4, <1>5

LEMMA StartIsState == Start \in State
BY TracesAssumption DEF Start, State

LEMMA InitIInv == Init => IInv
<1> SUFFICES ASSUME Init PROVE IInv
  OBVIOUS
<1>1. Types
  BY StartIsState DEF Init, Types, Traced, Outcomes
<1>2. Recording
  BY DEF Init, Recording, Fresh, WhenFresh, Open, Done, Traced, Outcomes
<1>3. Comparing
  BY DEF Init, Comparing, Traced, Outcomes
<1>4. \A t, n : ~Keyed(t, i - 1, n) /\ ~Keyed(t, j - 1, n)
  BY DEF Init, Keyed
<1>5. Compared /\ InStep
  BY <1>4 DEF Compared, InStep
<1>6. NoFalseAlarm /\ CauseIsFirstDeviation
  BY DEF Init, NoFalseAlarm, CauseIsFirstDeviation
<1>7. QED
  BY <1>1, <1>2, <1>3, <1>5, <1>6 DEF IInv

(* In every state of the recorder. *)
LEMMA NotYetCompared ==
  ASSUME Types, Comparing, phase \in {"initial", "run", "final"}
  PROVE  i = 1 /\ j = 1 /\ cause = "none"
BY DEF Comparing, Outcomes, Types

(* record_state before the first step. *)
LEMMA RecordInitialIInv == IInv /\ RecordInitial => IInv'
<1> SUFFICES ASSUME IInv, RecordInitial PROVE IInv'
  OBVIOUS
<1> USE DEF IInv
<1> DEFINE t == writing
           p == Tracepoint(0, Current(t))
<1>1. /\ phase = "initial" /\ phase' = "run" /\ writing' = writing /\ t \in Traced
      /\ args' = args /\ states' = states /\ last_pc' = last_pc /\ prev_state' = prev_state
      /\ i' = 1 /\ j' = 1 /\ cause' = "none"
  BY NotYetCompared DEF RecordInitial, Types
<1>2. trace[t] = <<>> /\ states[t] = <<Start>> /\ prev_state = <<>>
  BY <1>1 DEF Recording, Fresh, WhenFresh
<1>3. Current(t) = Start
  BY <1>2 DEF Current, Last
<1>4. Key(p) = 0 /\ p.components = << <<>>, Start >> /\ p \in Point
  <2>1. p = [executed_insns |-> 0, components |-> << <<>>, Start >>]
    BY <1>2, <1>3 DEF Tracepoint
  <2>2. <<>> \in Seq(State)
    OBVIOUS
  <2>3. << <<>>, Start >> \in Seq(State) \X State
    BY <2>2, StartIsState
  <2>4. QED
    BY <2>1, <2>3 DEF Key, Point
<1>5. trace' = [trace EXCEPT ![t] = Append(@, p)] /\ trace \in [Traced -> Seq(Point)]
  BY DEF RecordInitial, Recorded, Types
<1> HIDE DEF p
<1>6. trace' \in [Traced -> Seq(Point)] /\ trace'[t] = <<p>> /\ Len(trace'[t]) = 1
  BY <1>1, <1>2, <1>4, <1>5
<1>7. Types'
  BY <1>1, <1>6, TracesAssumption DEF Types, Outcomes
<1>8. Log(args[t], states[t], trace'[t], Len(trace'[t]))
  BY <1>2, <1>4, <1>6, StartIsState, LogStarts
<1>9. Chain(states[t], prev_state, Executed(t))
  BY <1>2 DEF Chain, Executed
<1>10. Recording'
  <2> SUFFICES ASSUME NEW u \in Traced
               PROVE  /\ Fresh(u)' => WhenFresh(u)'
                      /\ Open(u)' => WhenOpen(u)'
                      /\ Done(u)' => WhenDone(u)'
    BY DEF Recording
  <2>1. CASE u = t
    <3>1. /\ states'[u] = states[u] /\ args'[u] = args[u]
          /\ Len(states[u]) = 1 /\ Len(trace'[u]) = 1
      BY <1>1, <1>2, <1>6, <2>1
    <3>2. ~Fresh(u)' /\ ~Done(u)'
      BY <1>1, <2>1 DEF Fresh, Done, Outcomes, Traced
    <3>3. Executed(u)' = 0 /\ Executed(u) = 0
      BY <3>1 DEF Executed
    <3>4. WhenOpen(u)'
      BY <1>1, <1>8, <1>9, <2>1, <3>1, <3>3, TracesAssumption DEF WhenOpen
    <3>5. QED
      BY <3>2, <3>4
  <2>2. CASE u # t
    <3>1. trace'[u] = trace[u]
      BY <1>1, <1>5, <2>2
    <3>2. ~Open(u)' /\ (Fresh(u)' => Fresh(u)) /\ (Done(u)' => Done(u))
      BY <1>1, <2>2 DEF Open, Fresh, Done, Outcomes, Traced
    <3>3. QED
      BY <1>1, <2>2, <3>1, <3>2 DEF Recording, WhenFresh, WhenDone, Executed
  <2>3. QED
    BY <2>1, <2>2
<1>11. \A u \in Traced : Len(trace'[u]) \in Nat
  BY <1>6
<1>12. QED
  BY <1>1, <1>7, <1>10, <1>11, NothingCompared

(* One turn of the loop of run_testcase.py. *)
LEMMA RecordStepIInv == IInv /\ RecordStep => IInv'
<1> SUFFICES ASSUME IInv, RecordStep PROVE IInv'
  OBVIOUS
<1> USE DEF IInv
<1> DEFINE t == writing
           executed == Executed(t) + 1
           keep == Executed(t) % args[t].decimation = 0 /\ ~args[t].minify_tracefile
<1>1. PICK s \in State :
        /\ executed > MaxSteps => s.pc = last_pc
        /\ states' = [states EXCEPT ![t] = Append(@, s)]
        /\ Recorded(t, executed, s, keep)
        /\ prev_state' = Append(prev_state, s)
        /\ \/ phase' = "final" /\ last_pc' = last_pc
           \/ s.pc # last_pc /\ phase' = phase /\ last_pc' = s.pc
  BY DEF RecordStep, Chained
<1>2. /\ phase = "run" /\ phase' \in {"run", "final"} /\ t \in Traced
      /\ writing' = writing /\ args' = args
      /\ i' = 1 /\ j' = 1 /\ cause' = "none"
      /\ last_pc' \in Pcs \cup {"None"}
  <2>1. s.pc \in Pcs
    BY DEF State
  <2>2. QED
    BY <1>1, <2>1, NotYetCompared DEF RecordStep, Types
<1>3. WhenOpen(t)
  BY <1>2 DEF Recording, Open
<1> DEFINE st == states[t]
           tr == trace[t]
           p == Tracepoint(executed, s)
           new == IF keep THEN Append(tr, p) ELSE tr
<1>4. /\ st \in Seq(State) /\ Len(st) \in Nat /\ Len(st) > 0 /\ st[1] = Start
      /\ tr \in Seq(Point) /\ Len(tr) \in Nat
      /\ Executed(t) = Len(st) - 1 /\ executed = Len(st)
  BY <1>2 DEF Types, Executed
<1>5. Chain(st, prev_state, Len(st) - 1) /\ prev_state \in Seq(State) /\ Len(prev_state) = Len(st) - 1
  BY <1>3, <1>4 DEF WhenOpen, Chain
<1>6. Key(p) = Len(st) /\ p.components = <<prev_state, s>> /\ p \in Point
  <2>1. <<prev_state, s>> \in Seq(State) \X State
    BY <1>5
  <2>2. p = [executed_insns |-> Len(st), components |-> <<prev_state, s>>]
    BY <1>4 DEF Tracepoint
  <2>3. QED
    BY <1>4, <2>1, <2>2 DEF Key, Point
<1>7. keep \in BOOLEAN /\ (keep <=> Kept(args[t], Len(st)))
  BY <1>4 DEF Kept
<1>8. /\ states' = [states EXCEPT ![t] = Append(st, s)]
      /\ trace' = [trace EXCEPT ![t] = new]
  BY <1>1, <1>2 DEF Recorded, Types
<1>9. Log(args[t], st, tr, Len(tr))
  BY <1>3 DEF WhenOpen
<1> HIDE DEF p, keep
<1>10. Log(args[t], Append(st, s), new, Len(new))
  BY <1>4, <1>5, <1>6, <1>7, <1>9, LogGrows
<1>11. new \in Seq(Point) /\ Len(new) \in Nat /\ Len(new) <= Len(tr) + 1
  <2>1. CASE keep
    BY <1>4, <1>6, <2>1
  <2>2. CASE ~keep
    BY <1>4, <2>2
  <2>3. QED
    BY <2>1, <2>2
<1>12. /\ Append(st, s) \in Seq(State) /\ Len(Append(st, s)) = Len(st) + 1
       /\ Append(st, s)[1] = Start
       /\ \A x \in 1 .. Len(st) : Append(st, s)[x] = st[x]
       /\ Append(st, s)[Len(st) + 1] = s
  BY <1>4
<1>13. Chain(Append(st, s), Append(prev_state, s), Len(st))
  BY <1>4, <1>5, <1>12 DEF Chain
<1> HIDE DEF new
<1>14. states'[t] = Append(st, s) /\ trace'[t] = new
  BY <1>2, <1>8 DEF Types
<1>15. \A u \in Traced : u # t => states'[u] = states[u] /\ trace'[u] = trace[u]
  BY <1>2, <1>8 DEF Types
<1>16. states' \in [Traced -> Seq(State)] /\ trace' \in [Traced -> Seq(Point)]
  BY <1>2, <1>8, <1>11, <1>12 DEF Types
<1>17. Types'
  <2>1. Len(states'[t]) > 0 /\ states'[t][1] = Start
    BY <1>4, <1>12, <1>14
  <2>2. \A u \in Traced : u # t => Len(states'[u]) > 0 /\ states'[u][1] = Start
    BY <1>15 DEF Types
  <2>3. QED
    BY <1>2, <1>16, <2>1, <2>2 DEF Types
<1>18. Recording'
  <2> SUFFICES ASSUME NEW u \in Traced
               PROVE  /\ Fresh(u)' => WhenFresh(u)'
                      /\ Open(u)' => WhenOpen(u)'
                      /\ Done(u)' => WhenDone(u)'
    BY DEF Recording
  <2>1. CASE u = t
    <3>1. ~Fresh(u)' /\ ~Done(u)'
      BY <1>2, <2>1 DEF Fresh, Done, Outcomes, Traced
    <3>2. Executed(u)' = Len(st)
      BY <1>4, <1>12, <1>14, <2>1 DEF Executed
    <3>3. Len(st) - 1 \in 0 .. MaxSteps
      BY <1>2, <1>3, <1>4, TracesAssumption DEF WhenOpen
    <3>4. phase' = "run" => Len(st) <= MaxSteps
      BY <1>1, <1>2, <1>4, <3>3, TracesAssumption
    <3>5. Len(trace'[u]) <= Len(states'[u])
      BY <1>3, <1>4, <1>11, <1>12, <1>14, <2>1 DEF WhenOpen
    <3>6. /\ Log(args'[u], states'[u], trace'[u], Len(trace'[u]))
          /\ Chain(states'[u], prev_state', Executed(u)')
      BY <1>1, <1>2, <1>10, <1>13, <1>14, <2>1, <3>2
    <3>7. WhenOpen(u)'
      BY <1>4, <3>2, <3>3, <3>4, <3>5, <3>6, TracesAssumption DEF WhenOpen
    <3>8. QED
      BY <3>1, <3>7
  <2>2. CASE u # t
    <3>1. ~Open(u)' /\ (Fresh(u)' => Fresh(u)) /\ (Done(u)' => Done(u)) /\ u # writing'
      BY <1>2, <2>2 DEF Open, Fresh, Done, Outcomes, Traced
    <3>2. QED
      BY <1>2, <1>15, <2>2, <3>1 DEF Recording, WhenFresh, WhenDone, Executed
  <2>3. QED
    BY <2>1, <2>2
<1>19. \A u \in Traced : Len(trace'[u]) \in Nat
  BY <1>16
<1>20. QED
  BY <1>2, <1>17, <1>18, <1>19, NothingCompared

(* record_state after the last step. *)
LEMMA RecordFinalIInv == IInv /\ RecordFinal => IInv'
<1> SUFFICES ASSUME IInv, RecordFinal PROVE IInv'
  OBVIOUS
<1> USE DEF IInv
<1> DEFINE t == writing
           st == states[t]
           tr == trace[t]
           p == Tracepoint(Executed(t), Current(t))
<1>1. /\ phase = "final" /\ phase' = (IF t = 1 THEN "initial" ELSE "compare") /\ t \in Traced
      /\ writing' = 2 /\ args' = args /\ states' = states
      /\ last_pc' = "None" /\ prev_state' = <<>>
      /\ i' = 1 /\ j' = 1 /\ cause' = "none"
  BY NotYetCompared DEF RecordFinal, Types
<1>2. WhenOpen(t) /\ Log(args[t], st, tr, Len(tr))
  BY <1>1 DEF Recording, Open, WhenOpen
<1>3. /\ st \in Seq(State) /\ Len(st) \in Nat /\ Len(st) > 1
      /\ tr \in Seq(Point) /\ Len(tr) \in Nat
      /\ Executed(t) = Len(st) - 1 /\ Len(st) - 1 <= MaxSteps + 1
  BY <1>1, <1>2, TracesAssumption DEF Types, Executed, WhenOpen
<1>4. Chain(st, prev_state, Len(st) - 1) /\ prev_state \in Seq(State)
  BY <1>2, <1>3 DEF WhenOpen, Chain
<1>5. Current(t) = st[Len(st)] /\ Current(t) \in State
  BY <1>3 DEF Current, Last
<1>6. p \in Point /\ FinalPoint(st, p)
  <2>1. p = [executed_insns |-> Len(st) - 1, components |-> <<prev_state, st[Len(st)]>>]
    BY <1>3, <1>5 DEF Tracepoint
  <2>2. <<prev_state, st[Len(st)]>> \in Seq(State) \X State
    BY <1>4, <1>5
  <2>3. p \in Point
    BY <1>3, <2>1, <2>2 DEF Point
  <2>4. /\ Key(p) = Len(st) - 1
        /\ p.components[1] = prev_state /\ p.components[2] = st[Len(st)]
    BY <2>1 DEF Key
  <2>5. QED
    BY <1>3, <1>4, <2>3, <2>4 DEF FinalPoint
<1>7. trace' = [trace EXCEPT ![t] = Append(tr, p)]
  BY <1>1 DEF RecordFinal, Recorded, Types
<1> HIDE DEF p
<1>8. FullLog(args[t], st, Append(tr, p))
  BY <1>2, <1>3, <1>6, LogEnds
<1>9. Append(tr, p) \in Seq(Point) /\ Len(Append(tr, p)) = Len(tr) + 1
  BY <1>3, <1>6
<1>10. /\ trace' \in [Traced -> Seq(Point)] /\ trace'[t] = Append(tr, p)
       /\ \A u \in Traced : u # t => trace'[u] = trace[u]
  BY <1>1, <1>7, <1>9 DEF Types
<1>11. Types'
  BY <1>1, <1>10 DEF Types, Traced, Outcomes
<1>12. Recording'
  <2> SUFFICES ASSUME NEW u \in Traced
               PROVE  /\ Fresh(u)' => WhenFresh(u)'
                      /\ Open(u)' => WhenOpen(u)'
                      /\ Done(u)' => WhenDone(u)'
    BY DEF Recording
  <2>1. ~Open(u)'
    BY <1>1 DEF Open
  <2>2. CASE u = t
    <3>1. ~Fresh(u)'
      BY <1>1, <2>2 DEF Fresh, Traced
    <3>2. Len(tr) <= Len(st)
      BY <1>2 DEF WhenOpen
    <3>3. trace'[u] = Append(tr, p) /\ states'[u] = st /\ args'[u] = args[t]
      BY <1>1, <1>10, <2>2
    <3>4. Executed(u)' = Len(st) - 1
      BY <3>3 DEF Executed
    <3>5. WhenDone(u)'
      BY <1>3, <1>8, <1>9, <3>2, <3>3, <3>4 DEF WhenDone
    <3>6. QED
      BY <2>1, <3>1, <3>5
  <2>3. CASE u # t
    <3>1. trace'[u] = trace[u] /\ states'[u] = states[u] /\ args'[u] = args[u]
      BY <1>1, <1>10, <2>3
    <3>2. (Fresh(u)' => Fresh(u)) /\ (Done(u)' => Done(u))
      BY <1>1, <2>3 DEF Fresh, Done, Outcomes, Traced
    <3>3. Fresh(u)' => WhenFresh(u)'
      BY <1>1, <2>3, <3>1, <3>2 DEF Recording, WhenFresh
    <3>4. Done(u)' => WhenDone(u)'
      BY <1>1, <2>3, <3>1, <3>2 DEF Recording, WhenDone, Executed
    <3>5. QED
      BY <2>1, <3>3, <3>4
  <2>4. QED
    BY <2>2, <2>3
<1>13. \A u \in Traced : Len(trace'[u]) \in Nat
  BY <1>10
<1>14. QED
  BY <1>1, <1>11, <1>12, <1>13, NothingCompared

------------------------------------------------------------------------------
(* What the comparator can rely on. *)
LEMMA BothWritten ==
  ASSUME Types, Recording, phase \in {"compare"} \cup Outcomes
  PROVE  /\ states[1] \in Seq(State) /\ states[2] \in Seq(State) /\ states[1][1] = states[2][1]
         /\ trace[1] \in Seq(Point) /\ trace[2] \in Seq(Point)
         /\ Len(trace[1]) \in Nat /\ Len(trace[2]) \in Nat
         /\ FullLog(args[1], states[1], trace[1]) /\ FullLog(args[2], states[2], trace[2])
BY DEF Types, Recording, Done, WhenDone, Traced

(* align goes past a count that the other trace does not have, or has already
   been past. *)
LEMMA SkippedHasBeenCompared ==
  ASSUME NEW a, NEW st \in Seq(State), NEW tr \in Seq(Point), FullLog(a, st, tr),
         NEW at \in 1 .. Len(tr), NEW n \in Nat, n < Key(tr[at]),
         NEW l \in 1 .. Len(tr), Key(tr[l]) = n
  PROVE  l \in 1 .. at - 1
<1>1. Len(tr) \in Nat
  OBVIOUS
<1>2. at <= l => Key(tr[at]) <= Key(tr[l])
  BY FullLogSorted
<1>3. Key(tr[at]) \in Nat
  BY FullLogSorted
<1>4. QED
  BY <1>1, <1>2, <1>3

(* A trace has a tracepoint of count n before its last one. *)
HasCount(tr, n) == \E l \in 1 .. Len(tr) - 1 : Key(tr[l]) = n

(* In a trace made with the same options, a tracepoint that is not the last one
   has its counterpart if the emulator has come so far. *)
LEMMA CounterpartExists ==
  ASSUME NEW a, NEW st1 \in Seq(State), NEW tr1 \in Seq(Point), FullLog(a, st1, tr1),
         NEW st2 \in Seq(State), NEW tr2 \in Seq(Point), FullLog(a, st2, tr2),
         NEW k \in 1 .. Len(tr1) - 1, Key(tr1[k]) <= Len(st2) - 1
  PROVE  HasCount(tr2, Key(tr1[k]))
<1>1. Key(tr1[k]) \in 0 .. Len(st2) - 1 /\ Kept(a, Key(tr1[k]))
  BY DEF FullLog, Log, StepPoint
<1>2. QED
  BY <1>1 DEF FullLog, Log, HasCount

(* A tracepoint that is not the last one is the only one of its count among
   those before the last. *)
LEMMA CountIsNew ==
  ASSUME NEW a, NEW st \in Seq(State), NEW tr \in Seq(Point), FullLog(a, st, tr),
         NEW k \in 1 .. Len(tr) - 1
  PROVE  \A x \in 1 .. k - 1 : Key(tr[x]) # Key(tr[k])
<1> SUFFICES ASSUME NEW x \in 1 .. k - 1 PROVE Key(tr[x]) # Key(tr[k])
  OBVIOUS
<1>1. Len(tr) \in Nat /\ x \in 1 .. Len(tr) - 1 /\ x < k
  OBVIOUS
<1>2. Key(tr[x]) < Key(tr[k])
  BY <1>1 DEF FullLog, Log
<1>3. Key(tr[x]) \in Nat
  BY <1>1, FullLogSorted
<1>4. QED
  BY <1>2, <1>3

(* Every count that tr2 has before l is one that tr1 has before k. *)
Caught(tr1, k, tr2, l) ==
  \A n \in Nat : (\E y \in 1 .. l - 1 : Key(tr2[y]) = n) => \E x \in 1 .. k - 1 : Key(tr1[x]) = n

(* Half of align's step: the trace tr1, at k, is behind tr2, at l.  If they were
   made alike, tr1 is at its end. *)
LEMMA BehindIsAtEnd ==
  ASSUME NEW a, NEW st1 \in Seq(State), NEW tr1 \in Seq(Point), FullLog(a, st1, tr1),
         NEW st2 \in Seq(State), NEW tr2 \in Seq(Point), FullLog(a, st2, tr2),
         NEW k \in 1 .. Len(tr1), NEW l \in 1 .. Len(tr2),
         Key(tr1[k]) < Key(tr2[l]), Caught(tr1, k, tr2, l)
  PROVE  k = Len(tr1)
<1> SUFFICES ASSUME k # Len(tr1) PROVE FALSE
  OBVIOUS
<1>1. k \in 1 .. Len(tr1) - 1 /\ Len(tr1) \in Nat /\ Len(tr2) \in Nat
  OBVIOUS
<1>2. Key(tr1[k]) \in Nat /\ Key(tr1[k]) <= Len(st2) - 1
  <2>1. Key(tr1[k]) \in 0 .. Len(st1) - 1
    BY FullLogSorted
  <2>2. Key(tr2[l]) \in 0 .. Len(st2) - 1
    BY FullLogSorted
  <2>3. QED
    BY <2>1, <2>2
<1>3. PICK y \in 1 .. Len(tr2) - 1 : Key(tr2[y]) = Key(tr1[k])
  <2>1. HasCount(tr2, Key(tr1[k]))
    BY <1>1, <1>2, CounterpartExists
  <2>2. QED
    BY <2>1 DEF HasCount
<1>4. y \in 1 .. l - 1
  BY <1>1, <1>2, <1>3, SkippedHasBeenCompared
<1>5. \E x \in 1 .. k - 1 : Key(tr1[x]) = Key(tr1[k])
  BY <1>2, <1>3, <1>4 DEF Caught
<1>6. QED
  BY <1>1, <1>5, CountIsNew

(* The count of tracepoint k has come before l in the second trace, but not before
   k in the first one. *)
OnlyInSecond(tr1, k, tr2, l) ==
  /\ \E y \in 1 .. l - 1 : Key(tr2[y]) = Key(tr1[k])
  /\ \A x \in 1 .. k - 1 : Key(tr1[x]) # Key(tr1[k])

(* The other half: they are at the same count, and tr2 at its end.  If tr1 is not,
   tr2 has been past that count, and tr1 has not. *)
LEMMA EqualAtEndOfOne ==
  ASSUME NEW a, NEW st1 \in Seq(State), NEW tr1 \in Seq(Point), FullLog(a, st1, tr1),
         NEW st2 \in Seq(State), NEW tr2 \in Seq(Point), FullLog(a, st2, tr2),
         NEW k \in 1 .. Len(tr1), NEW l \in 1 .. Len(tr2),
         Key(tr1[k]) = Key(tr2[l]), k # Len(tr1), l = Len(tr2)
  PROVE  OnlyInSecond(tr1, k, tr2, l)
<1>1. k \in 1 .. Len(tr1) - 1 /\ Len(tr1) \in Nat
  OBVIOUS
<1>2. Key(tr1[k]) \in Nat /\ Key(tr1[k]) <= Len(st2) - 1
  BY FullLogSorted DEF FullLog, FinalPoint
<1>3. \E y \in 1 .. Len(tr2) - 1 : Key(tr2[y]) = Key(tr1[k])
  <2>1. HasCount(tr2, Key(tr1[k]))
    BY <1>1, <1>2, CounterpartExists
  <2>2. QED
    BY <2>1 DEF HasCount
<1>4. QED
  BY <1>1, <1>3, CountIsNew DEF OnlyInSecond

------------------------------------------------------------------------------
(* A step of align. *)
LEMMA AlignIInv == IInv /\ Align => IInv'
<1> SUFFICES ASSUME IInv, Align PROVE IInv'
  OBVIOUS
<1> USE DEF IInv
<1>1. /\ phase = "compare" /\ writing = 2 /\ cause = "none"
      /\ args' = args /\ writing' = writing /\ states' = states /\ last_pc' = last_pc
      /\ prev_state' = prev_state /\ trace' = trace
  BY DEF Align, Comparing, Outcomes
<1> DEFINE a1 == args[1]  st1 == states[1]  tr1 == trace[1]
           a2 == args[2]  st2 == states[2]  tr2 == trace[2]
<1>2. /\ st1 \in Seq(State) /\ st2 \in Seq(State) /\ st1[1] = st2[1]
      /\ tr1 \in Seq(Point) /\ tr2 \in Seq(Point)
      /\ Len(tr1) \in Nat /\ Len(tr2) \in Nat
      /\ FullLog(a1, st1, tr1) /\ FullLog(a2, st2, tr2)
  BY <1>1, BothWritten
<1>3. i \in 1 .. Len(tr1) /\ j \in 1 .. Len(tr2)
  BY <1>1, <1>2 DEF Align, Comparing, Types
<1>4. /\ \A k \in 1 .. Len(tr1) : Key(tr1[k]) \in Nat
      /\ \A l \in 1 .. Len(tr2) : Key(tr2[l]) \in Nat
  BY <1>2, FullLogSorted
<1>5. ASSUME phase' \in {"compare", "deviation", "broken"},
             i' \in {i, i + 1}, j' \in {j, j + 1}, cause' \in {"none", "instruction", "unable"},
             phase' # "compare" => UNCHANGED <<i, j>>,
             cause' # "none" => phase' = "deviation"
      PROVE  Types' /\ Recording' /\ Comparing'
  <2>1. Types'
    BY <1>1, <1>5 DEF Types, Outcomes
  <2>2. Recording'
    BY <1>1, <1>5 DEF Recording, Fresh, Open, Done, WhenDone, Executed, Outcomes, Traced
  <2>3. Comparing'
    BY <1>1, <1>2, <1>3, <1>5 DEF Comparing, Outcomes
  <2>4. QED
    BY <2>1, <2>2, <2>3
<1>6. CASE Key(pt1) = Key(pt2) /\ Compare /\ pt1.components = pt2.components
  <2>1. phase' = "compare" /\ i' = i + 1 /\ j' = j + 1 /\ cause' = "none"
    BY <1>1, <1>6 DEF Compare
  <2>2. AgreeUpTo(Key(pt1))
    <3>1. Key(tr1[i]) = Key(tr2[j]) /\ tr1[i].components = tr2[j].components
      BY <1>6 DEF pt1, pt2
    <3>2. Key(tr1[i]) \in Nat
      BY <1>3, <1>4
    <3>3. /\ \A x \in 0 .. Key(tr1[i]) - 1 : st1[x + 1] = st2[x + 1]
          /\ st1[Key(tr1[i]) + 1] = st2[Key(tr1[i]) + 1]
      <4>1. Key(tr1[i]) = Key(tr2[j]) /\ tr1[i].components[1] = tr2[j].components[1]
        BY <3>1
      <4> HIDE DEF a1, a2, st1, st2, tr1, tr2
      <4>2. /\ \A x \in 0 .. Key(tr1[i]) - 1 : st1[x + 1] = st2[x + 1]
            /\ tr1[i].components[2] = st1[Key(tr1[i]) + 1]
            /\ tr2[j].components[2] = st2[Key(tr1[i]) + 1]
        BY <1>2, <1>3, <4>1, EqualPointsAgree
      <4>3. QED
        BY <3>1, <4>2
    <3>4. QED
      BY <3>2, <3>3 DEF AgreeUpTo, pt1
  <2>3. Compared'
    <3> SUFFICES ASSUME NEW n \in Nat, HasTracepoint(1, n)', HasTracepoint(2, n)',
                        Keyed(1, i - 1, n)' \/ Keyed(2, j - 1, n)'
                 PROVE  AgreeUpTo(n)'
      BY DEF Compared
    <3>1. HasTracepoint(1, n) /\ HasTracepoint(2, n)
      BY <1>1 DEF HasTracepoint
    <3>2. CASE n = Key(pt1)
      BY <1>1, <2>2, <3>2 DEF AgreeUpTo
    <3>3. CASE n # Key(pt1)
      <4>1. Keyed(1, i - 1, n) \/ Keyed(2, j - 1, n)
        BY <1>1, <1>2, <1>3, <1>6, <2>1, <3>3 DEF Keyed, pt1, pt2
      <4>2. QED
        BY <1>1, <3>1, <4>1 DEF Compared, AgreeUpTo
    <3>4. QED
      BY <3>2, <3>3
  <2>4. InStep'
    <3> SUFFICES ASSUME a1 = a2, NEW n \in Nat
                 PROVE  Keyed(1, i - 1, n)' <=> Keyed(2, j - 1, n)'
      BY <1>1 DEF InStep
    <3>1. Keyed(1, i - 1, n) <=> Keyed(2, j - 1, n)
      BY <1>2, <1>3 DEF InStep
    <3>2. Keyed(1, i - 1, n)' <=> Keyed(1, i - 1, n) \/ n = Key(pt1)
      BY <1>1, <1>3, <2>1 DEF Keyed, pt1
    <3>3. Keyed(2, j - 1, n)' <=> Keyed(2, j - 1, n) \/ n = Key(pt2)
      BY <1>1, <1>3, <2>1 DEF Keyed, pt2
    <3>4. QED
      BY <1>6, <3>1, <3>2, <3>3
  <2>5. NoFalseAlarm' /\ CauseIsFirstDeviation'
    BY <2>1 DEF NoFalseAlarm, CauseIsFirstDeviation
  <2>6. QED
    BY <1>5, <2>1, <2>3, <2>4, <2>5
<1>7. CASE Key(pt1) = Key(pt2) /\ Compare /\ pt1.components # pt2.components
  <2> DEFINE n == Key(tr1[i])
  <2>1. /\ phase' = IF pt1.components[1] # pt2.components[1] THEN "broken" ELSE "deviation"
        /\ cause' \in {"none", "instruction", "unable"}
        /\ cause' # "none" => phase' = "deviation"
        /\ i' = i /\ j' = j
    BY <1>7 DEF Compare
  <2>2. /\ n \in Nat /\ Key(tr2[j]) = n
        /\ tr1[i].components \in Seq(State) \X State
        /\ tr2[j].components \in Seq(State) \X State
    <3>1. n \in Nat /\ Key(tr2[j]) = n
      BY <1>3, <1>4, <1>7 DEF pt1, pt2
    <3>2. tr1[i] \in Point /\ tr2[j] \in Point
      BY <1>2, <1>3
    <3>3. QED
      BY <3>1, <3>2 DEF Point
  <2>3. Compared' /\ InStep'
    BY <1>1, <2>1 DEF Compared, InStep, HasTracepoint, Keyed, AgreeUpTo
  <2>4. ASSUME tr1[i].components[1] = tr2[j].components[1]
        PROVE  NoFalseAlarm' /\ CauseIsFirstDeviation'
    <3>1. phase' = "deviation"
      BY <2>1, <2>4 DEF pt1, pt2
    <3>2. /\ \A x \in 0 .. n - 1 : st1[x + 1] = st2[x + 1]
          /\ tr1[i].components[2] = st1[n + 1] /\ tr2[j].components[2] = st2[n + 1]
      <4>1. Key(tr1[i]) = Key(tr2[j])
        BY <2>2
      <4> HIDE DEF a1, a2, st1, st2, tr1, tr2
      <4>2. QED
        BY <1>2, <1>3, <2>4, <4>1, EqualPointsAgree
    <3>3. tr1[i].components[2] # tr2[j].components[2]
      BY <1>7, <2>2, <2>4 DEF pt1, pt2
    <3>4. st1[n + 1] # st2[n + 1]
      BY <3>2, <3>3
    <3>5. NoFalseAlarm'
      <4>1. ~AgreeUpTo(Key(pt1))'
        BY <1>1, <2>1, <2>2, <3>4 DEF AgreeUpTo, pt1
      <4>2. QED
        BY <4>1 DEF NoFalseAlarm
    <3>6. CauseIsFirstDeviation'
      BY <1>1, <2>1, <3>2 DEF CauseIsFirstDeviation, AgreeUpTo, pt1
    <3>7. QED
      BY <3>5, <3>6
  <2>5. ASSUME tr1[i].components[1] # tr2[j].components[1]
        PROVE  NoFalseAlarm' /\ CauseIsFirstDeviation'
    <3>1. phase' = "broken" /\ cause' = "none"
      BY <2>1, <2>5 DEF pt1, pt2
    <3>2. ASSUME a1 = a2 PROVE i = Len(tr1) <=> j = Len(tr2)
      <4>1. \A m \in Nat : Keyed(1, i - 1, m) <=> Keyed(2, j - 1, m)
        BY <1>2, <1>3, <3>2 DEF InStep
      <4>2. j = Len(tr2) => i = Len(tr1)
        <5> SUFFICES ASSUME j = Len(tr2), i # Len(tr1) PROVE FALSE
          OBVIOUS
        <5>1. Key(tr1[i]) = Key(tr2[j]) /\ FullLog(a1, st2, tr2)
          BY <1>2, <2>2, <3>2
        <5>2. OnlyInSecond(tr1, i, tr2, j)
          <6> HIDE DEF a1, a2, st1, st2, tr1, tr2
          <6>1. QED
            BY <1>2, <1>3, <5>1, EqualAtEndOfOne
        <5>3. QED
          BY <2>2, <4>1, <5>1, <5>2 DEF Keyed, OnlyInSecond
      <4>3. i = Len(tr1) => j = Len(tr2)
        <5> SUFFICES ASSUME i = Len(tr1), j # Len(tr2) PROVE FALSE
          OBVIOUS
        <5>1. Key(tr2[j]) = Key(tr1[i]) /\ FullLog(a2, st1, tr1)
          BY <1>2, <2>2, <3>2
        <5>2. OnlyInSecond(tr2, j, tr1, i)
          <6> HIDE DEF a1, a2, st1, st2, tr1, tr2
          <6>1. QED
            BY <1>2, <1>3, <5>1, EqualAtEndOfOne
        <5>3. QED
          BY <2>2, <4>1, <5>1, <5>2 DEF Keyed, OnlyInSecond
      <4>4. QED
        BY <4>2, <4>3
    <3>3. ASSUME i = Len(tr1) <=> j = Len(tr2) PROVE ~AgreeUpTo(Key(pt1))'
      <4>1. \E x \in 0 .. n : st1[x + 1] # st2[x + 1]
        <5>1. Key(tr1[i]) = Key(tr2[j])
          BY <2>2
        <5>2. \E x \in 0 .. Key(tr1[i]) : st1[x + 1] # st2[x + 1]
          <6> HIDE DEF a1, a2, st1, st2, tr1, tr2, n
          <6>1. QED
            BY <1>2, <1>3, <2>5, <3>3, <5>1, UnequalChainsDisagree
        <5>3. QED
          BY <5>2 DEF n
      <4>2. QED
        BY <1>1, <2>1, <4>1 DEF AgreeUpTo, pt1
    <3>4. NoFalseAlarm'
      <4>1. CASE i = Len(tr1) <=> j = Len(tr2)
        BY <3>3, <4>1 DEF NoFalseAlarm
      <4>2. CASE ~(i = Len(tr1) <=> j = Len(tr2))
        <5>1. (args[1] # args[2])' /\ ~(i = Len(trace[1]) <=> j = Len(trace[2]))'
          BY <1>1, <2>1, <3>2, <4>2
        <5>3. QED
          BY <3>1, <5>1 DEF NoFalseAlarm
      <4>3. QED
        BY <4>1, <4>2
    <3>5. CauseIsFirstDeviation'
      BY <3>1 DEF CauseIsFirstDeviation
    <3>6. QED
      BY <3>4, <3>5
  <2>6. phase' \in {"deviation", "broken"}
    BY <2>1
  <2>7. QED
    BY <1>5, <2>1, <2>3, <2>4, <2>5, <2>6
<1>8. CASE Key(pt1) < Key(pt2) /\ i' = i + 1 /\ UNCHANGED <<j, phase, cause>>
  <2>1. phase' = "compare" /\ i' = i + 1 /\ j' = j /\ cause' = "none"
    BY <1>1, <1>8
  <2>2. Key(tr1[i]) \in Nat /\ Key(tr1[i]) < Key(tr2[j])
    BY <1>3, <1>4, <1>8 DEF pt1, pt2
  <2>3. Compared'
    <3> SUFFICES ASSUME NEW n \in Nat, HasTracepoint(1, n)', HasTracepoint(2, n)',
                        Keyed(1, i - 1, n)' \/ Keyed(2, j - 1, n)'
                 PROVE  AgreeUpTo(n)'
      BY DEF Compared
    <3>1. HasTracepoint(1, n) /\ HasTracepoint(2, n)
      BY <1>1 DEF HasTracepoint
    <3>2. Keyed(1, i - 1, n) \/ Keyed(2, j - 1, n)
      <4>1. CASE n = Key(tr1[i])
        <5>1. PICK l \in 1 .. Len(tr2) : Key(tr2[l]) = n
          BY <3>1 DEF HasTracepoint
        <5>2. l \in 1 .. j - 1
          BY <1>2, <1>3, <2>2, <4>1, <5>1, SkippedHasBeenCompared
        <5>3. QED
          BY <5>1, <5>2 DEF Keyed
      <4>2. CASE n # Key(tr1[i])
        BY <1>1, <1>3, <2>1, <4>2 DEF Keyed
      <4>3. QED
        BY <4>1, <4>2
    <3>3. QED
      BY <1>1, <3>1, <3>2 DEF Compared, AgreeUpTo
  <2>4. InStep'
    <3> SUFFICES ASSUME a1 = a2, i' <= Len(tr1), j' <= Len(tr2) PROVE FALSE
      BY <1>1 DEF InStep
    <3>1. \A n \in Nat : Keyed(1, i - 1, n) <=> Keyed(2, j - 1, n)
      BY <1>2, <1>3 DEF InStep
    <3>2. i = Len(tr1)
      <4>1. Caught(tr1, i, tr2, j)
        BY <3>1 DEF Keyed, Caught
      <4> HIDE DEF a1, a2, st1, st2, tr1, tr2
      <4>2. QED
        BY <1>2, <1>3, <2>2, <4>1, BehindIsAtEnd
    <3>3. QED
      BY <1>2, <2>1, <3>2
  <2>5. NoFalseAlarm' /\ CauseIsFirstDeviation'
    BY <2>1 DEF NoFalseAlarm, CauseIsFirstDeviation
  <2>6. QED
    BY <1>5, <2>1, <2>3, <2>4, <2>5
<1>9. CASE Key(pt2) < Key(pt1) /\ j' = j + 1 /\ UNCHANGED <<i, phase, cause>>
  <2>1. phase' = "compare" /\ j' = j + 1 /\ i' = i /\ cause' = "none"
    BY <1>1, <1>9
  <2>2. Key(tr2[j]) \in Nat /\ Key(tr2[j]) < Key(tr1[i])
    BY <1>3, <1>4, <1>9 DEF pt1, pt2
  <2>3. Compared'
    <3> SUFFICES ASSUME NEW n \in Nat, HasTracepoint(1, n)', HasTracepoint(2, n)',
                        Keyed(2, j - 1, n)' \/ Keyed(1, i - 1, n)'
                 PROVE  AgreeUpTo(n)'
      BY DEF Compared
    <3>1. HasTracepoint(1, n) /\ HasTracepoint(2, n)
      BY <1>1 DEF HasTracepoint
    <3>2. Keyed(2, j - 1, n) \/ Keyed(1, i - 1, n)
      <4>1. CASE n = Key(tr2[j])
        <5>1. PICK l \in 1 .. Len(tr1) : Key(tr1[l]) = n
          BY <3>1 DEF HasTracepoint
        <5>2. l \in 1 .. i - 1
          BY <1>2, <1>3, <2>2, <4>1, <5>1, SkippedHasBeenCompared
        <5>3. QED
          BY <5>1, <5>2 DEF Keyed
      <4>2. CASE n # Key(tr2[j])
        BY <1>1, <1>3, <2>1, <4>2 DEF Keyed
      <4>3. QED
        BY <4>1, <4>2
    <3>3. QED
      BY <1>1, <3>1, <3>2 DEF Compared, AgreeUpTo
  <2>4. InStep'
    <3> SUFFICES ASSUME a1 = a2, i' <= Len(tr1), j' <= Len(tr2) PROVE FALSE
      BY <1>1 DEF InStep
    <3>1. \A n \in Nat : Keyed(1, i - 1, n) <=> Keyed(2, j - 1, n)
      BY <1>2, <1>3 DEF InStep
    <3>2. j = Len(tr2)
      <4>1. Caught(tr2, j, tr1, i)
        BY <3>1 DEF Keyed, Caught
      <4> HIDE DEF a1, a2, st1, st2, tr1, tr2
      <4>2. QED
        BY <1>2, <1>3, <2>2, <4>1, BehindIsAtEnd
    <3>3. QED
      BY <1>2, <2>1, <3>2
  <2>5. NoFalseAlarm' /\ CauseIsFirstDeviation'
    BY <2>1 DEF NoFalseAlarm, CauseIsFirstDeviation
  <2>6. QED
    BY <1>5, <2>1, <2>3, <2>4, <2>5
<1>10. QED
  BY <1>6, <1>7, <1>8, <1>9 DEF Align

(* Nothing is left of one of the traces. *)
LEMMA AlignedIInv == IInv /\ Aligned => IInv'
<1> SUFFICES ASSUME IInv, Aligned PROVE IInv'
  OBVIOUS
<1> USE DEF IInv
<1>1. /\ phase = "compare" /\ phase' = "same" /\ cause' = cause /\ cause = "none" /\ writing = 2
      /\ args' = args /\ writing' = writing /\ states' = states /\ last_pc' = last_pc
      /\ prev_state' = prev_state /\ trace' = trace /\ i' = i /\ j' = j
  BY DEF Aligned, Comparing, Outcomes
<1>2. Types'
  BY <1>1 DEF Types, Outcomes
<1>3. Recording'
  BY <1>1 DEF Recording, Fresh, Open, Done, WhenDone, Executed, Outcomes, Traced
<1>4. Comparing'
  BY <1>1 DEF Comparing, Aligned, Outcomes
<1>5. Compared' /\ InStep'
  BY <1>1 DEF Compared, InStep, HasTracepoint, Keyed, AgreeUpTo
<1>6. NoFalseAlarm' /\ CauseIsFirstDeviation'
  BY <1>1 DEF NoFalseAlarm, CauseIsFirstDeviation
<1>7. QED
  BY <1>2, <1>3, <1>4, <1>5, <1>6

LEMMA NextIInv == IInv /\ [Next]_vars => IInv'
<1> SUFFICES ASSUME IInv, [Next]_vars PROVE IInv'
  OBVIOUS
<1>1. CASE UNCHANGED vars
  <2>1. Types' /\ Recording'
    BY <1>1 DEF vars, IInv, Types, Recording, Fresh, Open, Done, WhenFresh, WhenOpen, WhenDone, Executed, pt1
  <2>2. Comparing' /\ Compared' /\ InStep'
    BY <1>1 DEF vars, IInv, Comparing, Compared, InStep, HasTracepoint, Keyed, AgreeUpTo, pt1
  <2>3. NoFalseAlarm' /\ CauseIsFirstDeviation'
    BY <1>1 DEF vars, IInv, NoFalseAlarm, CauseIsFirstDeviation, HasTracepoint, Executed, AgreeUpTo, Keyed, pt1
  <2>4. QED
    BY <2>1, <2>2, <2>3 DEF IInv
<1>2. QED
  BY <1>1, RecordInitialIInv, RecordStepIInv, RecordFinalIInv, AlignIInv, AlignedIInv DEF Next

LEMMA SpecIInv == Spec => []IInv
BY InitIInv, NextIInv, PTL DEF Spec

------------------------------------------------------------------------------
(* Type correctness: neither the traces nor the chain outgrow the run, and align
   never reads past the end of a trace. *)
THEOREM TypeCorrect == Spec => []TypeOK
<1>1. IInv => TypeOK
  <2> SUFFICES ASSUME IInv PROVE TypeOK
    OBVIOUS
  <2> USE DEF IInv
  <2>1. \A t \in Traced : Len(states[t]) \in Nat /\ Len(trace[t]) \in Nat /\ Len(states[t]) > 0
    BY DEF Types
  <2>2. ASSUME NEW t \in Traced
        PROVE  Executed(t) \in 0 .. MaxSteps + 1 /\ Len(trace[t]) <= Executed(t) + 2
    <3>1. Executed(t) = Len(states[t]) - 1
      BY DEF Executed
    <3>2. CASE Fresh(t)
      <4>1. trace[t] = <<>> /\ states[t] = <<Start>>
        BY <3>2 DEF Recording, WhenFresh
      <4>2. Len(trace[t]) = 0 /\ Len(states[t]) = 1
        BY <4>1
      <4>3. QED
        BY <3>1, <4>2, TracesAssumption
    <3>3. CASE Open(t)
      BY <2>1, <3>1, <3>3, TracesAssumption DEF Recording, WhenOpen
    <3>4. CASE Done(t)
      BY <2>1, <3>1, <3>4, TracesAssumption DEF Recording, WhenDone
    <3>5. QED
      BY <3>2, <3>3, <3>4 DEF Fresh, Open, Done, Types, Traced, Outcomes
  <2>3. prev_state \in Seq(State) /\ Len(prev_state) <= MaxSteps + 1
    <3>1. CASE phase = "initial"
      BY <3>1, TracesAssumption DEF Recording, Fresh, WhenFresh, Types
    <3>2. CASE phase \in {"run", "final"}
      <4>1. WhenOpen(writing)
        BY <3>2 DEF Recording, Open, Types
      <4>2. QED
        BY <4>1, TracesAssumption DEF WhenOpen, Chain
    <3>3. CASE phase \in {"compare"} \cup Outcomes
      <4>1. prev_state = <<>>
        BY <3>3 DEF Comparing
      <4>2. QED
        BY <4>1, TracesAssumption
    <3>4. QED
      BY <3>1, <3>2, <3>3 DEF Types
  <2>4. i \in 1 .. Len(trace[1]) + 1 /\ j \in 1 .. Len(trace[2]) + 1
    <3>1. Len(trace[1]) \in Nat /\ Len(trace[2]) \in Nat
      BY <2>1 DEF Traced
    <3>2. i <= Len(trace[1]) + 1 /\ j <= Len(trace[2]) + 1
      BY <3>1 DEF Comparing, Types
    <3>3. QED
      BY <3>1, <3>2 DEF Types
  <2>5. QED
    BY <2>2, <2>3, <2>4 DEF Types, TypeOK
<1>2. QED
  BY <1>1, SpecIInv, PTL

(* When align ends without a complaint, the emulators have been in the same states
   up to the last count both traces have a tracepoint of, kept or not. *)
THEOREM NoDeviationIsMissed == Spec => []NoDeviationMissed
<1>1. IInv => NoDeviationMissed
  <2> SUFFICES ASSUME IInv, phase = "same", NEW n \in Common PROVE AgreeUpTo(n)
    BY DEF NoDeviationMissed
  <2> USE DEF IInv
  <2>1. n \in Nat /\ HasTracepoint(1, n) /\ HasTracepoint(2, n)
    BY TracesAssumption DEF Common
  <2>2. Len(trace[1]) \in Nat /\ Len(trace[2]) \in Nat
    BY DEF Types, Traced
  <2>3. Keyed(1, i - 1, n) \/ Keyed(2, j - 1, n)
    <3>1. CASE i > Len(trace[1])
      BY <2>1, <2>2, <3>1 DEF HasTracepoint, Keyed, Types
    <3>2. CASE j > Len(trace[2])
      BY <2>1, <2>2, <3>2 DEF HasTracepoint, Keyed, Types
    <3>3. QED
      BY <3>1, <3>2 DEF Comparing
  <2>4. QED
    BY <2>1, <2>3 DEF Compared
<1>2. QED
  BY <1>1, SpecIInv, PTL

(* A complaint is about emulators that have deviated, with one exception: under
   different options, the broken chain of a tracepoint that ends only one trace. *)
THEOREM NoAlarmIsFalse == Spec => []NoFalseAlarm
BY SpecIInv, PTL DEF IInv

(* The instruction blamed is the first one that made a difference. *)
THEOREM BlameIsRight == Spec => []CauseIsFirstDeviation
BY SpecIInv, PTL DEF IInv
==============================================================================

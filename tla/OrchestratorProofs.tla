------------------------- MODULE OrchestratorProofs -------------------------
(***************************************************************************)
(* Proofs about Orchestrator for any finite set of workers and any         *)
(* concurrency.                                                            *)
(***************************************************************************)
EXTENDS Orchestrator, FiniteSetTheorems, SequenceTheorems, TLAPS

-----------------------------------------------------------------------------
(* The inductive invariant: types, the told statuses and the slots *)

Phases == {"new", "queued", "running", "over"}
Statuses == Terminal \cup {"none", "cancelled"}

Types ==
  /\ concurrency \in Nat \ {0}
  /\ timed \subseteq Workers
  /\ phase \in [Workers -> Phases]
  /\ free \in Nat
  /\ woken \subseteq In({"queued"})
  /\ expired \subseteq timed
  /\ cancelled \in BOOLEAN
  /\ status \in [Workers -> Statuses]
  /\ \A w \in Workers : status[w] = "none" <=> phase[w] # "over"
  /\ told \in [Workers -> Seq({"PENDING", "RUNNING"} \cup Terminal)]
  /\ run \in {"waiting", "reported", "raised"}
  /\ run = "waiting" => report = "none"

\* The workers that have a slot, and those a step takes them for.
Busy == woken \cup In({"running"})
Slots == free + Cardinality(Busy) = concurrency

\* A slot lies free beside a waiting worker only until a granted worker runs,
\* which hands it on.
Served == free > 0 /\ Idle # {} => \E w \in woken : ~Hit(w)

IInv == Types /\ Slots /\ StatusesInOrder /\ Served

-----------------------------------------------------------------------------
(* What the callback is told, one status more at a time *)

LEMMA TellSecond ==
  ASSUME NEW a, NEW b PROVE <<a>> \o <<b>> = <<a, b>>
<1> DEFINE S == {a, b}
           l == <<a>> \o <<b>>
           r == <<a, b>>
<1>1. <<a>> \in Seq(S) /\ <<b>> \in Seq(S) /\ r \in Seq(S)
  OBVIOUS
<1>2. l \in Seq(S) /\ Len(l) = 2 /\ l[1] = a /\ l[2] = b
  BY <1>1, ConcatProperties
<1>3. Len(r) = 2 /\ r[1] = a /\ r[2] = b
  OBVIOUS
<1>4. \A i \in 1..2 : i = 1 \/ i = 2
  OBVIOUS
<1>5. \A i \in 1..Len(l) : l[i] = r[i]
  BY <1>2, <1>3, <1>4
<1>6. l \in Seq(S) /\ r \in Seq(S) /\ Len(l) = Len(r)
  BY <1>1, <1>2, <1>3
<1> HIDE DEF l, r
<1>7. l = r
  BY <1>5, <1>6, SeqEqual
<1> QED
  BY <1>7 DEF l, r

LEMMA TellThird ==
  ASSUME NEW a, NEW b, NEW c
  PROVE  <<a, b>> \o <<c>> = <<a, b, c>>
<1> DEFINE S == {a, b, c}
           l == <<a, b>> \o <<c>>
           r == <<a, b, c>>
<1>1. <<a, b>> \in Seq(S) /\ <<c>> \in Seq(S) /\ r \in Seq(S)
  OBVIOUS
<1>2. l \in Seq(S) /\ Len(l) = 3 /\ l[1] = a /\ l[2] = b /\ l[3] = c
  BY <1>1, ConcatProperties
<1>3. Len(r) = 3 /\ r[1] = a /\ r[2] = b /\ r[3] = c
  OBVIOUS
<1>4. \A i \in 1..3 : i = 1 \/ i = 2 \/ i = 3
  OBVIOUS
<1>5. \A i \in 1..Len(l) : l[i] = r[i]
  BY <1>2, <1>3, <1>4
<1>6. l \in Seq(S) /\ r \in Seq(S) /\ Len(l) = Len(r)
  BY <1>1, <1>2, <1>3
<1> HIDE DEF l, r
<1>7. l = r
  BY <1>5, <1>6, SeqEqual
<1> QED
  BY <1>7 DEF l, r

-----------------------------------------------------------------------------
(* Sets of workers *)

LEMMA Sizes == \A S : S \subseteq Workers => IsFiniteSet(S) /\ Cardinality(S) \in Nat
  BY WorkersAssumption, FS_Subset, FS_CardinalityType

LEMMA BusyWorkers == Types => Busy \subseteq Workers /\ Idle \subseteq Workers
  BY DEF Types, Busy, In, Idle

LEMMA Disjoint ==
  ASSUME NEW S \in SUBSET Workers, NEW T \in SUBSET Workers, S \cap T = {}
  PROVE  Cardinality(S \cup T) = Cardinality(S) + Cardinality(T)
<1>1. /\ IsFiniteSet(S) /\ IsFiniteSet(T) /\ Cardinality(S) \in Nat /\ Cardinality(T) \in Nat
      /\ Cardinality(S \cap T) = 0
  BY Sizes, FS_EmptySet
<1>2. Cardinality(S \cup T) = Cardinality(S) + Cardinality(T) - Cardinality(S \cap T)
  BY <1>1, FS_Union
<1> QED
  BY <1>1, <1>2

\* One worker gives its slot back (back = {w}) or nobody does (back = {}); the
\* workers in new take slots.
LEMMA Exchange ==
  ASSUME Types, Slots, NEW back \in SUBSET Busy, NEW new \in SUBSET Workers,
         new \cap Busy = {}, Busy' = (Busy \ back) \cup new,
         free' = (free + Cardinality(back)) - Cardinality(new),
         concurrency' = concurrency
  PROVE  Slots'
<1>1. Busy \in SUBSET Workers /\ Busy \ back \in SUBSET Workers /\ back \in SUBSET Workers
  BY BusyWorkers
<1>2. Cardinality((Busy \ back) \cup new) = Cardinality(Busy \ back) + Cardinality(new)
  BY <1>1, Disjoint
<1>3. Cardinality(Busy) = Cardinality(Busy \ back) + Cardinality(back)
  <2>1. (Busy \ back) \cup back = Busy /\ (Busy \ back) \cap back = {}
    OBVIOUS
  <2> QED
    BY <1>1, <2>1, Disjoint
<1>4. /\ Cardinality(Busy) \in Nat /\ Cardinality(Busy \ back) \in Nat
      /\ Cardinality(new) \in Nat /\ Cardinality(back) \in Nat
  BY <1>1, Sizes
<1> QED
  BY <1>2, <1>3, <1>4 DEF Slots, Types

-----------------------------------------------------------------------------
(* The invariant holds initially and is preserved *)

LEMMA InitIInv == Init => IInv
<1> SUFFICES ASSUME Init PROVE IInv
  OBVIOUS
<1>1. concurrency \in Nat \ {0}
  BY LimitsAssumption DEF Init
<1>2. Types
  <2>1. <<>> \in Seq({"PENDING", "RUNNING"} \cup Terminal)
    OBVIOUS
  <2>2. told \in [Workers -> Seq({"PENDING", "RUNNING"} \cup Terminal)]
    BY <2>1 DEF Init
  <2> QED
    BY <1>1, <2>2 DEF Init, Types, Phases, Statuses, In
<1>3. Busy = {}
  BY DEF Init, Busy, In
<1>4. Slots
  BY <1>1, <1>3, FS_EmptySet DEF Init, Slots
<1> QED
  BY <1>2, <1>4 DEF IInv, Init, StatusesInOrder, Served, Idle, In

\* The actions of a worker.
Act(w) ==
  \/ Begin(w) \/ Resume(w) \/ Leave(w) \/ Expire(w)
  \/ \E s \in Terminal \cup {"cancelled"} : End(w, s)

LEMMA NextCases ==
  ASSUME [Next]_vars
  PROVE  \/ \E w \in Workers : Act(w)
         \/ CancelRun \/ Raise \/ Report \/ UNCHANGED vars
  BY DEF Next, Loop, Act

\* What Wake leaves behind.
LEMMA Woken ==
  ASSUME Types, NEW slots \in Nat, NEW most \in Nat,
         NEW others \in SUBSET In({"queued"}), Wake(slots, most, Idle, others)
  PROVE  \E lucky \in SUBSET Idle :
           /\ free' = slots - Cardinality(lucky) /\ free' \in Nat
           /\ woken' = others \cup lucky
<1>1. PICK lucky \in SUBSET Idle :
        /\ Cardinality(lucky) <= slots
        /\ free' = slots - Cardinality(lucky)
        /\ woken' = others \cup lucky
  BY DEF Wake
<1>2. Cardinality(lucky) \in Nat
  BY <1>1, BusyWorkers, Sizes
<1> QED
  BY <1>1, <1>2

LEMMA WorkerStep ==
  ASSUME IInv, NEW w \in Workers, Act(w)
  PROVE  Types' /\ Slots' /\ StatusesInOrder'
<1>1. /\ Types /\ Slots /\ StatusesInOrder
      /\ phase \in [Workers -> Phases] /\ status \in [Workers -> Statuses]
      /\ told \in [Workers -> Seq({"PENDING", "RUNNING"} \cup Terminal)]
      /\ free \in Nat /\ woken \subseteq In({"queued"})
  BY DEF IInv, Types
<1>2. /\ {w} \subseteq Workers /\ Cardinality({w}) = 1 /\ Cardinality({}) = 0
      /\ Cardinality(Idle) \in Nat
  BY <1>1, BusyWorkers, Sizes, FS_Singleton, FS_EmptySet
<1>3. CASE Begin(w) /\ phase'[w] = "running"
  <2>1. /\ free > 0 /\ phase[w] = "new" /\ free' = free - 1 /\ woken' = woken
        /\ phase' = [phase EXCEPT ![w] = "running"] /\ concurrency' = concurrency
        /\ told' = [told EXCEPT ![w] = @ \o <<"PENDING", "RUNNING">>]
        /\ UNCHANGED <<params, expired, cancelled, status, run, report>>
    BY <1>1, <1>3 DEF Begin, Tell, Phases, params
  <2>2. told[w] = <<>> /\ told'[w] = <<"PENDING", "RUNNING">>
    <3>1. told[w] = <<>>
      BY <1>1, <2>1 DEF StatusesInOrder, Terminal, Types
    <3>2. told'[w] = told[w] \o <<"PENDING", "RUNNING">>
      BY <1>1, <2>1
    <3> QED
      BY <3>1, <3>2
  <2>3. Types'
    BY <1>1, <2>1, <2>2 DEF Types, Phases, params, In, Terminal
  <2>4. w \notin Busy /\ Busy' = Busy \cup {w}
    BY <1>1, <2>1 DEF Busy, In
  <2>5. Slots'
    <3>1. /\ {} \in SUBSET Busy /\ {w} \in SUBSET Workers /\ {w} \cap Busy = {}
          /\ Busy' = (Busy \ {}) \cup {w}
          /\ free' = (free + Cardinality({})) - Cardinality({w})
      BY <1>1, <1>2, <2>1, <2>4
    <3> QED
      BY <1>1, <2>1, <3>1, Exchange
  <2>6. StatusesInOrder'
    BY <1>1, <2>1, <2>2 DEF StatusesInOrder
  <2> QED
    BY <2>3, <2>5, <2>6
<1>4. CASE Begin(w) /\ phase'[w] # "running"
  <2>1. /\ phase[w] = "new" /\ free' = free /\ woken' = woken
        /\ phase' = [phase EXCEPT ![w] = "queued"]
        /\ told' = [told EXCEPT ![w] = @ \o <<"PENDING">>]
        /\ UNCHANGED <<params, expired, cancelled, status, run, report>>
    BY <1>1, <1>4 DEF Begin, Tell, Phases
  <2>2. told[w] = <<>> /\ told'[w] = <<"PENDING">>
    <3>1. told[w] = <<>>
      BY <1>1, <2>1 DEF StatusesInOrder, Terminal, Types
    <3>2. told'[w] = told[w] \o <<"PENDING">>
      BY <1>1, <2>1
    <3> QED
      BY <3>1, <3>2
  <2>3. Types'
    BY <1>1, <2>1, <2>2 DEF Types, Phases, params, In, Terminal
  <2>4. Busy' = Busy
    BY <1>1, <2>1 DEF Busy, In
  <2>5. Slots'
    BY <1>1, <2>1, <2>4 DEF Slots, params
  <2>6. StatusesInOrder'
    BY <1>1, <2>1, <2>2 DEF StatusesInOrder
  <2> QED
    BY <2>3, <2>5, <2>6
<1>5. CASE Resume(w)
  <2>1. /\ w \in woken /\ phase[w] = "queued"
        /\ phase' = [phase EXCEPT ![w] = "running"]
        /\ told' = [told EXCEPT ![w] = @ \o <<"RUNNING">>]
        /\ UNCHANGED <<params, expired, cancelled, status, run, report>>
    BY <1>1, <1>5 DEF Resume, Tell, In
  <2>2. told[w] = <<"PENDING">> /\ told'[w] = <<"PENDING", "RUNNING">>
    <3>1. told[w] = <<"PENDING">>
      BY <1>1, <2>1 DEF StatusesInOrder, Terminal, Types
    <3>2. told'[w] = told[w] \o <<"RUNNING">>
      BY <1>1, <2>1
    <3> QED
      BY <3>1, <3>2, TellSecond
  <2>3. PICK lucky \in SUBSET Idle :
          /\ free' = free - Cardinality(lucky) /\ free' \in Nat
          /\ woken' = (woken \ {w}) \cup lucky
    BY <1>1, <1>2, <1>5, Woken DEF Resume
  <2>4. Types'
    <3>1. woken' \subseteq In({"queued"})'
      BY <1>1, <2>1, <2>3 DEF In, Idle
    <3> QED
      BY <1>1, <2>1, <2>2, <2>3, <3>1 DEF Types, Phases, params, Terminal
  <2>5. lucky \cap Busy = {} /\ Busy' = Busy \cup lucky
    BY <1>1, <2>1, <2>3 DEF Busy, In, Idle
  <2>6. Slots'
    <3>1. /\ {} \in SUBSET Busy /\ lucky \in SUBSET Workers
          /\ Busy' = (Busy \ {}) \cup lucky
          /\ free' = (free + Cardinality({})) - Cardinality(lucky)
      BY <1>1, <1>2, <2>3, <2>5, BusyWorkers
    <3>2. concurrency' = concurrency
      BY <2>1 DEF params
    <3> QED
      BY <1>1, <2>5, <3>1, <3>2, Exchange
  <2>7. StatusesInOrder'
    BY <1>1, <2>1, <2>2 DEF StatusesInOrder
  <2> QED
    BY <2>4, <2>6, <2>7
<1>6. CASE Leave(w)
  <2>1. /\ phase[w] \in {"new", "queued"}
        /\ phase' = [phase EXCEPT ![w] = "over"]
        /\ status' = [status EXCEPT ![w] = "cancelled"]
        /\ free' = (IF w \in woken THEN free + 1 ELSE free) /\ woken' = woken \ {w}
        /\ UNCHANGED <<params, expired, cancelled, told, run, report>>
    BY <1>6 DEF Leave
  <2>2. Types'
    BY <1>1, <2>1 DEF Types, Phases, params, In, Statuses, Terminal
  <2>3. Busy' = Busy \ {w} /\ (w \in Busy <=> w \in woken)
    BY <1>1, <2>1 DEF Busy, In
  <2>4. Slots'
    <3>1. concurrency' = concurrency
      BY <2>1 DEF params
    <3>2. CASE w \in woken
      <4>1. /\ {w} \in SUBSET Busy /\ {} \in SUBSET Workers /\ {} \cap Busy = {}
            /\ Busy' = (Busy \ {w}) \cup {}
            /\ free' = (free + Cardinality({w})) - Cardinality({})
        BY <1>1, <1>2, <2>1, <2>3, <3>2
      <4> QED
        BY <1>1, <3>1, <4>1, Exchange
    <3>3. CASE w \notin woken
      BY <1>1, <2>1, <2>3, <3>1, <3>3 DEF Slots
    <3> QED
      BY <3>2, <3>3
  <2>5. StatusesInOrder'
    BY <1>1, <2>1 DEF StatusesInOrder, Types, Terminal
  <2> QED
    BY <2>2, <2>4, <2>5
<1>7. CASE Expire(w)
  <2>1. Types' /\ Busy' = Busy
    BY <1>1, <1>7 DEF Expire, Types, params, In, Busy
  <2>2. Slots'
    BY <1>1, <1>7, <2>1 DEF Expire, Slots, params
  <2> QED
    BY <1>1, <1>7, <2>1, <2>2 DEF Expire, StatusesInOrder
<1>8. ASSUME NEW s \in Terminal \cup {"cancelled"}, End(w, s)
      PROVE  Types' /\ Slots' /\ StatusesInOrder'
  <2>1. /\ phase[w] = "running"
        /\ phase' = [phase EXCEPT ![w] = "over"]
        /\ status' = [status EXCEPT ![w] = s]
        /\ told' = [told EXCEPT ![w] = @ \o (IF s = "cancelled" THEN <<>> ELSE <<s>>)]
        /\ UNCHANGED <<params, expired, cancelled, run, report>>
    BY <1>8 DEF End, Tell
  <2>2. /\ told[w] = <<"PENDING", "RUNNING">>
        /\ s \in Terminal => told'[w] = <<"PENDING", "RUNNING", s>>
        /\ s = "cancelled" => told'[w] = <<"PENDING", "RUNNING">>
    <3>1. told[w] = <<"PENDING", "RUNNING">>
      BY <1>1, <2>1 DEF StatusesInOrder, Terminal, Types
    <3>2. told'[w] = told[w] \o (IF s = "cancelled" THEN <<>> ELSE <<s>>)
      BY <1>1, <2>1
    <3>3. s \in Terminal => s # "cancelled"
      BY DEF Terminal
    <3>4. <<"PENDING", "RUNNING">> \o <<s>> = <<"PENDING", "RUNNING", s>>
      BY TellThird
    <3>5. <<"PENDING", "RUNNING">> \o <<>> = <<"PENDING", "RUNNING">>
      <4>1. <<"PENDING", "RUNNING">> \in Seq({"PENDING", "RUNNING"})
        OBVIOUS
      <4> QED
        BY <4>1, ConcatEmptySeq
    <3> QED
      BY <3>1, <3>2, <3>3, <3>4, <3>5
  <2>3. PICK lucky \in SUBSET Idle :
          /\ free' = (free + 1) - Cardinality(lucky) /\ free' \in Nat
          /\ woken' = woken \cup lucky
    <3>1. free + 1 \in Nat /\ 1 \in Nat /\ Wake(free + 1, 1, Idle, woken)
      BY <1>1, <1>8 DEF End
    <3> QED
      BY <1>1, <3>1, Woken
  <2>4. Types'
    <3>1. woken' \subseteq In({"queued"})'
      BY <1>1, <2>1, <2>3 DEF In, Idle
    <3>2. told' \in [Workers -> Seq({"PENDING", "RUNNING"} \cup Terminal)]
      <4>1. told'[w] \in Seq({"PENDING", "RUNNING"} \cup Terminal)
        <5> DEFINE Heard == {"PENDING", "RUNNING"} \cup Terminal
        <5>1. "PENDING" \in Heard /\ "RUNNING" \in Heard
          OBVIOUS
        <5>2. CASE s \in Terminal
          <6>1. s \in Heard
            BY <5>2
          <6> HIDE DEF Heard
          <6>2. <<"PENDING", "RUNNING", s>> \in Seq(Heard)
            BY <5>1, <6>1
          <6> QED
            BY <2>2, <5>2, <6>2 DEF Heard
        <5>3. CASE s = "cancelled"
          <6> HIDE DEF Heard
          <6>1. <<"PENDING", "RUNNING">> \in Seq(Heard)
            BY <5>1
          <6> QED
            BY <2>2, <5>3, <6>1 DEF Heard
        <5> QED
          BY <1>8, <5>2, <5>3
      <4> QED
        BY <1>1, <2>1, <4>1
    <3> QED
      BY <1>1, <1>8, <2>1, <2>3, <3>1, <3>2 DEF Types, Phases, params, Statuses, Terminal
  <2>5. /\ w \in Busy /\ lucky \cap Busy = {}
        /\ Busy' = (Busy \ {w}) \cup lucky
    BY <1>1, <2>1, <2>3 DEF Busy, In, Idle
  <2>6. Slots'
    <3>1. {w} \in SUBSET Busy /\ lucky \in SUBSET Workers /\ concurrency' = concurrency
      BY <1>1, <2>1, <2>3, <2>5, BusyWorkers DEF params
    <3>2. free' = (free + Cardinality({w})) - Cardinality(lucky)
      BY <1>2, <2>3
    <3> QED
      BY <1>1, <2>5, <3>1, <3>2, Exchange
  <2>7. StatusesInOrder'
    BY <1>1, <1>8, <2>1, <2>2 DEF StatusesInOrder, Types, Terminal
  <2> QED
    BY <2>4, <2>6, <2>7
<1> QED
  BY <1>3, <1>4, <1>5, <1>6, <1>7, <1>8 DEF Act

\* A release, or a hand-on to all who wait, leaves no slot free beside a
\* waiting worker unless it has woken one.
LEMMA WokenServed ==
  ASSUME Types, NEW w \in Workers, w \notin Idle, phase'[w] # "queued",
         \A v \in Workers \ {w} : phase'[v] = phase[v], cancelled' = cancelled,
         NEW slots \in Nat, NEW most \in Nat, most > 0 \/ most = Cardinality(Idle),
         NEW others \in SUBSET In({"queued"}), woken \ {w} \subseteq others,
         Wake(slots, most, Idle, others)
  PROVE  Served'
<1>1. PICK lucky \in SUBSET Idle :
        /\ Cardinality(lucky) = Cardinality(Idle)
             \/ Cardinality(lucky) = slots \/ Cardinality(lucky) = most
        /\ free' = slots - Cardinality(lucky)
        /\ woken' = others \cup lucky
  BY DEF Wake
<1>2. /\ Idle \in SUBSET Workers /\ IsFiniteSet(Idle) /\ IsFiniteSet(lucky)
      /\ Cardinality(lucky) \in Nat /\ Cardinality(Idle) \in Nat
  BY <1>1, BusyWorkers, Sizes
<1>3. CASE Cardinality(lucky) = slots
  BY <1>1, <1>2, <1>3 DEF Served
<1>4. CASE Cardinality(lucky) = Cardinality(Idle)
  <2>1. lucky = Idle
    BY <1>2, <1>4, FS_Subset
  <2>2. Idle' = {}
    <3> SUFFICES ASSUME NEW v \in Idle' PROVE FALSE
      OBVIOUS
    <3>1. v \in Workers /\ phase'[v] = "queued" /\ v \notin woken' /\ ~Hit(v)'
      BY DEF Idle, In
    <3>2. v # w /\ phase[v] = "queued" /\ ~Hit(v)
      BY <3>1 DEF Hit
    <3>3. v \notin woken
      BY <1>1, <3>1, <3>2
    <3>4. v \in Idle
      BY <3>1, <3>2, <3>3 DEF Idle, In
    <3> QED
      BY <1>1, <2>1, <3>1, <3>4
  <2> QED
    BY <2>2 DEF Served
<1>5. CASE Cardinality(lucky) = most /\ most > 0
  <2>1. PICK u \in lucky : TRUE
    BY <1>2, <1>5, FS_EmptySet
  <2>2. u \in Idle /\ u \in Workers /\ u # w /\ ~Hit(u) /\ u \in woken'
    BY <1>1, <1>2, <2>1 DEF Idle
  <2>3. ~Hit(u)'
    BY <2>2 DEF Hit
  <2> QED
    BY <2>2, <2>3 DEF Served
<1> QED
  BY <1>1, <1>3, <1>4, <1>5

LEMMA WorkerServed ==
  ASSUME IInv, NEW w \in Workers, Act(w)
  PROVE  Served'
<1>1. /\ Types /\ Served /\ phase \in [Workers -> Phases]
      /\ free \in Nat /\ woken \subseteq In({"queued"})
  BY DEF IInv, Types
<1>2. Idle \in SUBSET Workers /\ Cardinality(Idle) \in Nat
  BY <1>1, BusyWorkers, Sizes
<1>3. CASE Begin(w)
  <2>1. /\ phase[w] = "new" /\ woken' = woken /\ cancelled' = cancelled
        /\ \A v \in Workers \ {w} : phase'[v] = phase[v]
        /\ ~cancelled
    BY <1>1, <1>3 DEF Begin, Hit
  <2>2. CASE free > 0 /\ In({"queued"}) = {} /\ phase' = [phase EXCEPT ![w] = "running"]
    <3>1. Idle' = {}
      BY <1>1, <2>1, <2>2 DEF Idle, In
    <3> QED
      BY <3>1 DEF Served
  <2>3. CASE free = 0 /\ free' = free
    BY <1>1, <2>3 DEF Served
  <2>4. CASE free > 0 /\ In({"queued"}) # {} /\ free' = free
    <3>1. \E v \in woken : ~Hit(v)
      <4>1. PICK q \in Workers : phase[q] = "queued"
        BY <2>4 DEF In
      <4>2. CASE q \in woken
        BY <2>1, <4>2 DEF Hit
      <4>3. CASE q \notin woken
        BY <1>1, <2>1, <2>4, <4>1, <4>3 DEF Served, Idle, In, Hit
      <4> QED
        BY <4>2, <4>3
    <3>2. \E v \in woken' : ~Hit(v)'
      BY <2>1, <3>1 DEF Hit
    <3> QED
      BY <3>2 DEF Served
  <2> QED
    BY <1>1, <1>3, <2>2, <2>3, <2>4 DEF Begin
<1>4. CASE Resume(w)
  <2>1. /\ w \notin Idle /\ phase'[w] = "running" /\ cancelled' = cancelled
        /\ \A v \in Workers \ {w} : phase'[v] = phase[v]
        /\ Wake(free, Cardinality(Idle), Idle, woken \ {w})
    BY <1>1, <1>4 DEF Resume, Idle
  <2> QED
    BY <1>1, <1>2, <2>1, WokenServed
<1>5. ASSUME NEW s \in Terminal \cup {"cancelled"}, End(w, s) PROVE Served'
  <2>1. /\ w \notin Idle /\ phase'[w] = "over" /\ cancelled' = cancelled
        /\ \A v \in Workers \ {w} : phase'[v] = phase[v]
        /\ Wake(free + 1, 1, Idle, woken)
    BY <1>1, <1>5 DEF End, Idle, In
  <2>2. free + 1 \in Nat /\ 1 \in Nat /\ 1 > 0
    BY <1>1
  <2> QED
    BY <1>1, <2>1, <2>2, WokenServed
<1>6. CASE Leave(w)
  <2>1. cancelled'
    BY <1>6 DEF Leave, Hit
  <2>2. Idle' = {}
    BY <2>1 DEF Idle, Hit, In
  <2> QED
    BY <2>2 DEF Served
<1>7. CASE Expire(w)
  BY <1>1, <1>7 DEF Expire, Served, Idle, Hit, In
<1> QED
  BY <1>3, <1>4, <1>5, <1>6, <1>7 DEF Act

LEMMA Invariance == Spec => []IInv
<1>1. ASSUME IInv, [Next]_vars PROVE IInv'
  <2>1. ASSUME NEW w \in Workers, Act(w) PROVE IInv'
    BY <1>1, <2>1, WorkerStep, WorkerServed DEF IInv
  <2>2. CASE CancelRun \/ Raise \/ Report \/ UNCHANGED vars
    <3>1. UNCHANGED <<params, workerVars>>
      BY <2>2 DEF CancelRun, Raise, Report, vars
    <3>2. StatusesInOrder' /\ Busy' = Busy
      BY <1>1, <3>1 DEF IInv, StatusesInOrder, Busy, In, workerVars
    <3>3. Slots'
      BY <1>1, <3>1, <3>2 DEF IInv, Slots, workerVars, params
    <3>4. Types'
      BY <1>1, <2>2, <3>1 DEF IInv, Types, CancelRun, Raise, Report, vars, workerVars,
         params, In
    <3>5. Served'
      <4>1. CASE cancelled'
        <5>1. Idle' = {}
          BY <4>1 DEF Idle, Hit, In
        <5> QED
          BY <5>1 DEF Served
      <4>2. CASE ~cancelled'
        <5>1. ~cancelled
          BY <2>2, <4>2 DEF CancelRun, Raise, Report, vars
        <5> QED
          BY <1>1, <3>1, <4>2, <5>1 DEF IInv, Served, Idle, Hit, In, workerVars
      <4> QED
        BY <4>1, <4>2
    <3> QED
      BY <3>2, <3>3, <3>4, <3>5 DEF IInv
  <2> QED
    BY <1>1, <2>1, <2>2, NextCases
<1> QED
  BY InitIInv, <1>1, PTL DEF Spec

-----------------------------------------------------------------------------
(* The theorems *)

\* Whatever is cancelled, expires or waits, every slot is free, granted or in
\* use, and every variable has its type.
THEOREM TypesHold == Spec => []TypeOK
<1>1. IInv => TypeOK
  <2> SUFFICES ASSUME IInv PROVE TypeOK
    OBVIOUS
  <2>1. woken \in SUBSET Workers /\ In({"running"}) \in SUBSET Workers
          /\ woken \cap In({"running"}) = {}
    BY DEF IInv, Types, In
  <2>2. Cardinality(Busy) = Cardinality(woken) + Cardinality(In({"running"}))
    BY <2>1, Disjoint DEF Busy
  <2>3. Cardinality(woken) \in Nat /\ Cardinality(In({"running"})) \in Nat
    BY <2>1, Sizes
  <2>4. free + Cardinality(woken) + Cardinality(In({"running"})) = concurrency
    BY <2>2, <2>3 DEF IInv, Slots, Types
  <2> QED
    BY <2>4 DEF IInv, Types, TypeOK, Phases, Statuses
<1> QED
  BY <1>1, Invariance, PTL

\* The callback hears PENDING, RUNNING and the result's status, in this order.
THEOREM CallbackInOrder == Spec => []StatusesInOrder
<1>1. IInv => StatusesInOrder
  BY DEF IInv
<1> QED
  BY <1>1, Invariance, PTL

\* While a worker waits, no slot is left free with nobody on the way to it.
THEOREM SlotsServe == Spec => []NoIdleSlot
<1>1. IInv => NoIdleSlot
  <2> SUFFICES ASSUME IInv, Idle # {}, ~(\E w \in woken : ~Hit(w))
               PROVE  Cardinality(woken) + Cardinality(In({"running"})) = concurrency
    BY DEF NoIdleSlot
  <2>1. free = 0
    BY DEF IInv, Types, Served
  <2>2. woken \in SUBSET Workers /\ In({"running"}) \in SUBSET Workers
          /\ woken \cap In({"running"}) = {}
    BY DEF IInv, Types, In
  <2>3. Cardinality(Busy) = Cardinality(woken) + Cardinality(In({"running"}))
    BY <2>2, Disjoint DEF Busy
  <2>4. Cardinality(woken) \in Nat /\ Cardinality(In({"running"})) \in Nat
    BY <2>2, Sizes
  <2> QED
    BY <2>1, <2>3, <2>4 DEF IInv, Slots
<1> QED
  BY <1>1, Invariance, PTL

\* Every step of the orchestrator is a step of the pool or leaves it unchanged.
THEOREM OrchestratorIsPool == Spec => ImplementsPool
<1> USE DEF Pool!poolVars
<1>1. Init => Pool!Init
  <2> SUFFICES ASSUME Init PROVE Pool!Init
    OBVIOUS
  <2>1. concurrency \in Nat \ {0}
    BY LimitsAssumption DEF Init
  <2> QED
    BY <2>1 DEF Init, Pool!Init, In
<1>2. ASSUME IInv, [Next]_vars PROVE [Pool!Next]_(Pool!poolVars)
  <2>1. Types /\ phase \in [Workers -> Phases] /\ woken \subseteq In({"queued"})
    BY <1>2 DEF IInv, Types
  <2>2. ASSUME NEW w \in Workers, Begin(w) \/ Resume(w), phase'[w] = "running"
        PROVE  Pool!Start(w)
    <3>1. /\ phase[w] \in {"new", "queued"} /\ phase' = [phase EXCEPT ![w] = "running"]
          /\ concurrency' = concurrency
      BY <2>1, <2>2 DEF Begin, Resume, In, params
    <3>2. Cardinality(In({"running"})) < concurrency
      <4>1. woken \in SUBSET Workers /\ In({"running"}) \in SUBSET Workers
              /\ woken \cap In({"running"}) = {}
        BY <2>1 DEF In
      <4>2. Cardinality(Busy) = Cardinality(woken) + Cardinality(In({"running"}))
        BY <4>1, Disjoint DEF Busy
      <4>3. /\ Cardinality(woken) \in Nat /\ Cardinality(In({"running"})) \in Nat
            /\ IsFiniteSet(woken)
        BY <4>1, Sizes
      <4>4. free > 0 \/ Cardinality(woken) > 0
        <5>1. CASE Begin(w)
          BY <2>1, <2>2, <5>1 DEF Begin
        <5>2. CASE Resume(w)
          BY <4>3, <5>2, FS_EmptySet DEF Resume
        <5> QED
          BY <2>2, <5>1, <5>2
      <4> QED
        BY <1>2, <4>2, <4>3, <4>4 DEF IInv, Slots, Types
    <3>3. /\ In({"new", "queued"})' = In({"new", "queued"}) \ {w}
          /\ In({"running"})' = In({"running"}) \cup {w}
          /\ In({"over"})' = In({"over"}) /\ w \in In({"new", "queued"})
      BY <2>1, <3>1 DEF In
    <3> QED
      BY <3>1, <3>2, <3>3 DEF Pool!Start, Pool!Cardinality, Cardinality
  <2>3. ASSUME NEW w \in Workers, Begin(w), phase'[w] # "running"
        PROVE  UNCHANGED Pool!poolVars
    BY <2>1, <2>3 DEF Begin, In, params
  <2>4. ASSUME NEW w \in Workers, Expire(w) PROVE UNCHANGED Pool!poolVars
    BY <2>1, <2>4 DEF Expire, In, params
  <2>5. ASSUME NEW w \in Workers, NEW s \in Terminal \cup {"cancelled"}, End(w, s)
        PROVE  Pool!Finish(w)
    BY <2>1, <2>5 DEF End, In, params, Pool!Finish
  <2>6. ASSUME NEW w \in Workers, Leave(w) PROVE Pool!Abandon(w)
    BY <2>1, <2>6 DEF Leave, In, params, Pool!Abandon
  <2>7. CASE CancelRun \/ Raise \/ Report \/ UNCHANGED vars
    BY <2>7 DEF CancelRun, Raise, Report, vars, params, workerVars, In
  <2>8. ASSUME NEW w \in Workers, Resume(w) PROVE phase'[w] = "running"
    BY <2>1, <2>8 DEF Resume
  <2> QED
    BY <1>2, <2>2, <2>3, <2>4, <2>5, <2>6, <2>7, <2>8, NextCases DEF Act, Pool!Next
<1> QED
  BY <1>1, <1>2, Invariance, PTL DEF Spec, ImplementsPool, Pool!Spec

=============================================================================

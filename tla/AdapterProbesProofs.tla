------------------------- MODULE AdapterProbesProofs -------------------------
(***************************************************************************)
(* The safety of the probe scheduler for every set of adapters, commands   *)
(* and every number of slots: handshakes are bounded, no slot is idle      *)
(* while an adapter waits, no accepted command is forgotten, and the       *)
(* scheduler implements the abstract probe service.                        *)
(***************************************************************************)
EXTENDS AdapterProbes, FiniteSetTheorems, TLAPS

IsResult(m, a) == m.type = "probed" /\ m.adapter = a
HasResult(a)   == \E i \in 1..Len(inbox) : IsResult(inbox[i], a)

\* An adapter holds a slot exactly while its handshake or the result of it is
\* under way, and there is one of them.
SlotIsUsed ==
    /\ \A a \in Adapters :
          /\ a \in running <=> threads[a] = 1 \/ HasResult(a)
          /\ threads[a] = 1 => ~HasResult(a)
    /\ \A a \in Adapters : \A i, j \in 1..Len(inbox) :
          IsResult(inbox[i], a) /\ IsResult(inbox[j], a) => i = j

\* The slots and the queue hold, between them, each adapter somebody waits
\* for, once.
Scheduled ==
    /\ IsFiniteSet(running)
    /\ Cardinality(running) <= MaxProbes
    /\ \A a \in Adapters : waiters[a] # <<>> <=> a \in running \cup InQueue
    /\ running \cap InQueue = {}
    /\ \A i, j \in 1..Len(queued) : queued[i] = queued[j] => i = j

\* A command whose probe is still in the channel was told nothing, and it is
\* there once.
UnreadIsUnanswered ==
    /\ \A i \in 1..Len(inbox) : inbox[i].type = "probe" =>
          /\ inbox[i].command \in sent
          /\ answer[inbox[i].command] = "none"
    /\ \A i, j \in 1..Len(inbox) :
          /\ inbox[i].type = "probe"
          /\ inbox[j].type = "probe"
          /\ inbox[i].command = inbox[j].command
          => i = j
    /\ \A c \in Commands \ sent : answer[c] = "none"

\* An accepted command waits with some adapter, and only such commands do.
AcceptedWaits ==
    /\ \A c \in Commands : answer[c] = "accepted" => \E a \in Adapters : c \in Told(a)
    /\ \A a \in Adapters : \A c \in Told(a) : answer[c] # "none"

\* The inductive invariant.
ProbesInv ==
    /\ TypeOK
    /\ SlotIsUsed
    /\ Scheduled
    /\ NoIdleSlot
    /\ UnreadIsUnanswered
    /\ AcceptedWaits

-----------------------------------------------------------------------------
\* The elements of a sequence.

LEMMA EmptyRange ==
    ASSUME NEW S, NEW w \in Seq(S)
    PROVE  {w[i] : i \in 1..Len(w)} = {} <=> w = <<>>
<1>1. CASE w = <<>>
  <2>1. Len(w) = 0
    BY <1>1
  <2> QED
    BY <1>1, <2>1
<1>2. CASE w # <<>>
  <2>1. 1 \in 1..Len(w)
    BY <1>2
  <2>2. w[1] \in {w[i] : i \in 1..Len(w)}
    BY <2>1
  <2> QED
    BY <1>2, <2>2
<1> QED
  BY <1>1, <1>2

LEMMA AppendedRange ==
    ASSUME NEW S, NEW w \in Seq(S), NEW x \in S, NEW v, v = Append(w, x)
    PROVE  {v[i] : i \in 1..Len(v)} = {w[i] : i \in 1..Len(w)} \cup {x}
<1>1. /\ Len(v) = Len(w) + 1 /\ Len(w) \in Nat
      /\ v[Len(w) + 1] = x
      /\ \A i \in 1..Len(w) : v[i] = w[i]
  OBVIOUS
<1>2. ASSUME NEW i \in 1..Len(v) PROVE v[i] \in {w[j] : j \in 1..Len(w)} \cup {x}
  <2>1. i \in 1..Len(w) \/ i = Len(w) + 1
    BY <1>1
  <2> QED
    BY <1>1, <2>1
<1>3. /\ Len(w) + 1 \in 1..Len(v)
      /\ \A i \in 1..Len(w) : i \in 1..Len(v)
  BY <1>1
<1>4. x \in {v[i] : i \in 1..Len(v)}
  BY <1>1, <1>3
<1>5. ASSUME NEW i \in 1..Len(w) PROVE w[i] \in {v[j] : j \in 1..Len(v)}
  BY <1>1, <1>3
<1> QED
  BY <1>2, <1>4, <1>5

-----------------------------------------------------------------------------
\* The channel.

LEMMA MessageKinds ==
    ASSUME NEW m \in Messages
    PROVE  /\ m.type \in {"probe", "probed", "shutdown"}
           /\ m.type = "probe"  => m.adapter \in Adapters /\ m.command \in Commands
           /\ m.type = "probed" => m.adapter \in Adapters /\ m.ok \in BOOLEAN
BY DEF Messages, Shutdown

\* Reading the oldest message moves the others up by one place.
LEMMA Reading ==
    ASSUME inbox \in Seq(Messages), inbox # <<>>, inbox' = Tail(inbox)
    PROVE  /\ inbox' \in Seq(Messages)
           /\ Head(inbox) = inbox[1]
           /\ Head(inbox) \in Messages
           /\ 1 \in 1..Len(inbox)
           /\ \A i \in 1..Len(inbox') : i + 1 \in 1..Len(inbox) /\ inbox'[i] = inbox[i + 1]
           /\ \A i \in 1..Len(inbox) :
                 i = 1 \/ (i - 1 \in 1..Len(inbox') /\ inbox'[i - 1] = inbox[i])
OBVIOUS

\* A message sent goes behind the others.
LEMMA Sending ==
    ASSUME inbox \in Seq(Messages), NEW m \in Messages, inbox' = Append(inbox, m)
    PROVE  /\ inbox' \in Seq(Messages)
           /\ Len(inbox') = Len(inbox) + 1
           /\ inbox'[Len(inbox) + 1] = m
           /\ \A i \in 1..Len(inbox) : inbox'[i] = inbox[i]
OBVIOUS

\* Whose result is under way, before and after a message is sent or read.
LEMMA ResultsSent ==
    ASSUME TypeOK, NEW m \in Messages, inbox' = Append(inbox, m), NEW a \in Adapters
    PROVE  HasResult(a)' <=> HasResult(a) \/ IsResult(m, a)
<1>1. /\ inbox \in Seq(Messages)
      /\ Len(inbox') = Len(inbox) + 1
      /\ inbox'[Len(inbox) + 1] = m
      /\ \A i \in 1..Len(inbox) : inbox'[i] = inbox[i]
  BY Sending DEF TypeOK
<1>2. Len(inbox) \in Nat
  BY <1>1
<1>3. ASSUME HasResult(a)' PROVE HasResult(a) \/ IsResult(m, a)
  <2>1. PICK i \in 1..Len(inbox') : IsResult(inbox'[i], a)
    BY <1>3 DEF HasResult
  <2>2. i = Len(inbox) + 1 \/ i \in 1..Len(inbox)
    BY <1>1, <1>2
  <2> QED
    BY <1>1, <2>1, <2>2 DEF HasResult
<1>4. ASSUME HasResult(a) PROVE HasResult(a)'
  BY <1>1, <1>2, <1>4 DEF HasResult
<1>5. ASSUME IsResult(m, a) PROVE HasResult(a)'
  BY <1>1, <1>2, <1>5 DEF HasResult
<1> QED
  BY <1>3, <1>4, <1>5

LEMMA ResultsRead ==
    ASSUME TypeOK, SlotIsUsed, inbox # <<>>, inbox' = Tail(inbox), NEW a \in Adapters
    PROVE  HasResult(a)' <=> HasResult(a) /\ ~IsResult(Head(inbox), a)
<1>1. /\ Head(inbox) = inbox[1]
      /\ 1 \in 1..Len(inbox)
      /\ \A i \in 1..Len(inbox') : i + 1 \in 1..Len(inbox) /\ inbox'[i] = inbox[i + 1]
      /\ \A i \in 1..Len(inbox) :
            i = 1 \/ (i - 1 \in 1..Len(inbox') /\ inbox'[i - 1] = inbox[i])
  BY Reading DEF TypeOK
<1>2. ASSUME HasResult(a)' PROVE HasResult(a) /\ ~IsResult(Head(inbox), a)
  <2>1. PICK i \in 1..Len(inbox') : IsResult(inbox'[i], a)
    BY <1>2 DEF HasResult
  <2>2. i + 1 \in 1..Len(inbox) /\ IsResult(inbox[i + 1], a) /\ i + 1 # 1
    BY <1>1, <2>1
  <2> QED
    BY <1>1, <2>2 DEF HasResult, SlotIsUsed
<1>3. ASSUME HasResult(a), ~IsResult(Head(inbox), a) PROVE HasResult(a)'
  <2>1. PICK i \in 1..Len(inbox) : IsResult(inbox[i], a)
    BY <1>3 DEF HasResult
  <2> QED
    BY <1>1, <1>3, <2>1 DEF HasResult
<1> QED
  BY <1>2, <1>3

\* At most one result of an adapter stays at most one.
LEMMA ResultsStayUnique ==
    ASSUME TypeOK, SlotIsUsed,
           \/ inbox # <<>> /\ inbox' = Tail(inbox)
           \/ \E m \in Messages :
                 /\ inbox' = Append(inbox, m)
                 /\ \A a \in Adapters : IsResult(m, a) => ~HasResult(a)
    PROVE  \A a \in Adapters : \A i, j \in 1..Len(inbox') :
              IsResult(inbox'[i], a) /\ IsResult(inbox'[j], a) => i = j
<1> SUFFICES ASSUME NEW a \in Adapters, NEW i \in 1..Len(inbox'), NEW j \in 1..Len(inbox'),
                    IsResult(inbox'[i], a), IsResult(inbox'[j], a)
             PROVE  i = j
  OBVIOUS
<1>0. inbox \in Seq(Messages) /\ Len(inbox) \in Nat
  BY DEF TypeOK
<1>1. CASE inbox # <<>> /\ inbox' = Tail(inbox)
  <2>1. /\ i + 1 \in 1..Len(inbox) /\ inbox'[i] = inbox[i + 1]
        /\ j + 1 \in 1..Len(inbox) /\ inbox'[j] = inbox[j + 1]
    BY <1>0, <1>1, Reading
  <2>2. i + 1 = j + 1
    BY <2>1 DEF SlotIsUsed
  <2> QED
    BY <2>2, <1>1, <1>0
<1>2. ASSUME NEW m \in Messages, inbox' = Append(inbox, m),
             \A b \in Adapters : IsResult(m, b) => ~HasResult(b)
      PROVE  i = j
  <2>1. /\ Len(inbox') = Len(inbox) + 1
        /\ inbox'[Len(inbox) + 1] = m
        /\ \A k \in 1..Len(inbox) : inbox'[k] = inbox[k]
    BY <1>0, <1>2, Sending
  <2>2. CASE i \in 1..Len(inbox) /\ j \in 1..Len(inbox)
    BY <2>1, <2>2 DEF SlotIsUsed
  <2>3. CASE i \in 1..Len(inbox) /\ j = Len(inbox) + 1
    BY <1>2, <2>1, <2>3 DEF HasResult
  <2>4. CASE i = Len(inbox) + 1 /\ j \in 1..Len(inbox)
    BY <1>2, <2>1, <2>4 DEF HasResult
  <2> QED
    BY <1>0, <2>1, <2>2, <2>3, <2>4
<1> QED
  BY <1>1, <1>2

-----------------------------------------------------------------------------
\* The slots and the queue.

\* admit keeps the books: the adapter's first command takes a slot or a place
\* in the queue, a later one changes neither.
LEMMA AdmitKeepsBooks ==
    ASSUME ProbesInv, NEW a \in Adapters, NEW c \in Commands, Admit(a, c)
    PROVE  /\ waiters' \in [Adapters -> Seq(Commands)]
           /\ running' \in SUBSET Adapters
           /\ queued' \in Seq(Adapters)
           /\ Scheduled'
           /\ NoIdleSlot'
           /\ running \subseteq running'
           /\ \/ running' = running /\ threads' = threads
              \/ /\ a \notin running
                 /\ running' = running \cup {a}
                 /\ threads' = [threads EXCEPT ![a] = @ + 1]
<1>1. TypeOK /\ Scheduled /\ NoIdleSlot
  BY DEF ProbesInv
<1>2. /\ waiters \in [Adapters -> Seq(Commands)] /\ queued \in Seq(Adapters)
      /\ running \subseteq Adapters /\ Len(queued) \in Nat
  BY <1>1 DEF TypeOK
<1>3. waiters' = [waiters EXCEPT ![a] = Append(@, c)]
  BY DEF Admit
<1>4. /\ waiters' \in [Adapters -> Seq(Commands)]
      /\ waiters'[a] # <<>>
      /\ \A b \in Adapters \ {a} : waiters'[b] = waiters[b]
  <2>1. waiters[a] \in Seq(Commands)
    BY <1>2
  <2>2. Append(waiters[a], c) \in Seq(Commands) /\ Append(waiters[a], c) # <<>>
    BY <2>1
  <2> QED
    BY <1>2, <1>3, <2>2
<1>5. CASE Pending(a) /\ UNCHANGED <<running, queued, threads>>
  <2>1. Scheduled'
    BY <1>1, <1>4, <1>5 DEF Scheduled, Pending, InQueue
  <2> QED
    BY <1>1, <1>2, <1>4, <1>5, <2>1 DEF NoIdleSlot, HasSlot
<1>6. CASE /\ ~Pending(a)
           /\ HasSlot(running)
           /\ running' = running \cup {a}
           /\ threads' = [threads EXCEPT ![a] = @ + 1]
           /\ UNCHANGED queued
  <2>1. queued = <<>>
    BY <1>1, <1>6 DEF NoIdleSlot
  <2>2. a \notin running
    BY <1>1, <1>6 DEF Scheduled, Pending
  <2>3. IsFiniteSet(running') /\ Cardinality(running') <= MaxProbes
    <3>1. IsFiniteSet(running) /\ Cardinality(running) < MaxProbes
      BY <1>1, <1>6 DEF Scheduled, HasSlot
    <3>2. Cardinality(running) \in Nat
      BY <3>1, FS_CardinalityType
    <3>3. IsFiniteSet(running') /\ Cardinality(running') = Cardinality(running) + 1
      BY <1>6, <2>2, <3>1, FS_AddElement
    <3> QED
      BY <3>1, <3>2, <3>3, MaxProbesAssumption
  <2>4. InQueue' = InQueue
    BY <1>6 DEF InQueue
  <2>5. running' \cap InQueue' = {}
    BY <1>6, <2>1, <2>4 DEF InQueue
  <2>6. \A b \in Adapters : waiters'[b] # <<>> <=> b \in running' \cup InQueue'
    BY <1>1, <1>4, <1>6, <2>4 DEF Scheduled
  <2>7. Scheduled'
    BY <1>1, <1>6, <2>3, <2>4, <2>5, <2>6 DEF Scheduled
  <2> QED
    BY <1>2, <1>4, <1>6, <2>1, <2>2, <2>7 DEF NoIdleSlot
<1>7. CASE /\ ~Pending(a)
           /\ ~HasSlot(running)
           /\ queued' = Enqueue(a)
           /\ UNCHANGED <<running, threads>>
  <2>1. a \notin running \cup InQueue
    BY <1>1, <1>7 DEF Scheduled, Pending
  <2>2. /\ queued' \in Seq(Adapters)
        /\ Len(queued') = Len(queued) + 1
        /\ queued'[Len(queued) + 1] = a
        /\ \A i \in 1..Len(queued) : queued'[i] = queued[i]
    BY <1>2, <1>7 DEF Enqueue
  <2>3. InQueue' = InQueue \cup {a}
    <3>1. ASSUME NEW b \in InQueue' PROVE b \in InQueue \cup {a}
      <4>1. PICK i \in 1..Len(queued') : b = queued'[i]
        BY <3>1 DEF InQueue
      <4>2. i \in 1..Len(queued) \/ i = Len(queued) + 1
        BY <1>2, <2>2
      <4> QED
        BY <2>2, <4>1, <4>2 DEF InQueue
    <3>2. ASSUME NEW b \in InQueue \cup {a} PROVE b \in InQueue'
      <4>1. CASE b \in InQueue
        <5>1. PICK i \in 1..Len(queued) : b = queued[i]
          BY <4>1 DEF InQueue
        <5>2. i \in 1..Len(queued') /\ b = queued'[i]
          BY <1>2, <2>2, <5>1
        <5> QED
          BY <5>2 DEF InQueue
      <4>2. CASE b = a
        <5>1. Len(queued) + 1 \in 1..Len(queued') /\ b = queued'[Len(queued) + 1]
          BY <1>2, <2>2, <4>2
        <5> QED
          BY <5>1 DEF InQueue
      <4> QED
        BY <4>1, <4>2
    <3> QED
      BY <3>1, <3>2
  <2>4. \A b \in Adapters : waiters'[b] # <<>> <=> b \in running' \cup InQueue'
    BY <1>1, <1>4, <1>7, <2>3 DEF Scheduled
  <2>5. \A i, j \in 1..Len(queued') : queued'[i] = queued'[j] => i = j
    <3> SUFFICES ASSUME NEW i \in 1..Len(queued'), NEW j \in 1..Len(queued'),
                        queued'[i] = queued'[j]
                 PROVE  i = j
      OBVIOUS
    <3>1. \A k \in 1..Len(queued) : queued[k] # a
      BY <2>1 DEF InQueue
    <3>2. /\ i \in 1..Len(queued) \/ i = Len(queued) + 1
          /\ j \in 1..Len(queued) \/ j = Len(queued) + 1
      BY <1>2, <2>2
    <3>3. CASE i \in 1..Len(queued) /\ j \in 1..Len(queued)
      BY <1>1, <2>2, <3>3 DEF Scheduled
    <3> QED
      BY <2>2, <3>1, <3>2, <3>3
  <2>6. Scheduled'
    BY <1>1, <1>7, <2>1, <2>3, <2>4, <2>5 DEF Scheduled
  <2>7. NoIdleSlot'
    BY <1>7 DEF NoIdleSlot, HasSlot
  <2> QED
    BY <1>2, <1>4, <1>7, <2>2, <2>6, <2>7
<1> QED
  BY <1>5, <1>6, <1>7 DEF Admit

\* release of an adapter that holds a slot: the oldest queued adapter, if
\* there is one, takes the slot over, and nothing else moves.
LEMMA ReleaseHandsOver ==
    ASSUME ProbesInv, NEW a \in running, Release(a)
    PROVE  /\ waiters' = [waiters EXCEPT ![a] = <<>>]
           /\ \/ /\ queued = <<>>
                 /\ queued' = <<>>
                 /\ running' = running \ {a}
                 /\ threads' = threads
              \/ /\ queued # <<>>
                 /\ queued' \in Seq(Adapters)
                 /\ Len(queued') = Len(queued) - 1
                 /\ \A i \in 1..Len(queued') : queued'[i] = queued[i + 1]
                 /\ running' = (running \ {a}) \cup {queued[1]}
                 /\ threads' = [threads EXCEPT ![queued[1]] = @ + 1]
<1> DEFINE free      == running \ {a}
           left      == [waiters EXCEPT ![a] = <<>>]
           Filled(k) == free \cup {queued[i] : i \in Starting(left, k)}
           n         == Popped(free, left)
           start     == Starting(left, n)
<1>1. TypeOK /\ Scheduled /\ NoIdleSlot
  BY DEF ProbesInv
<1>2. /\ waiters \in [Adapters -> Seq(Commands)] /\ queued \in Seq(Adapters)
      /\ threads \in [Adapters -> {0, 1}]
      /\ a \in Adapters /\ Len(queued) \in Nat
  BY <1>1 DEF TypeOK
<1>3. /\ waiters' = left
      /\ running' = free \cup {queued[i] : i \in start}
      /\ queued' = SubSeq(queued, n + 1, Len(queued))
      /\ threads' = [b \in Adapters |->
                        threads[b] + Cardinality({i \in start : queued[i] = b})]
  BY DEF Release
<1>4. n = CHOOSE k \in 0..Len(queued) :
             /\ k = Len(queued) \/ ~HasSlot(Filled(k))
             /\ \A j \in 0..(k - 1) : HasSlot(Filled(j))
  BY DEF Popped
<1>5. CASE queued = <<>>
  <2>1. Len(queued) = 0
    BY <1>5
  <2>2. n = 0
    BY <1>4, <2>1
  <2>3. start = {}
    BY <2>2 DEF Starting
  <2>4. \A b \in Adapters : {i \in start : queued[i] = b} = {}
    BY <2>3
  <2>5. \A b \in Adapters : threads'[b] = threads[b]
    <3> SUFFICES ASSUME NEW b \in Adapters PROVE threads'[b] = threads[b]
      OBVIOUS
    <3>1. threads'[b] = threads[b] + Cardinality({i \in start : queued[i] = b})
      BY <1>3
    <3>2. Cardinality({i \in start : queued[i] = b}) = 0
      BY <2>4, FS_EmptySet
    <3>3. threads[b] \in Int
      BY <1>2
    <3> HIDE DEF start
    <3> QED
      BY <3>1, <3>2, <3>3
  <2>6. threads' = threads
    BY <1>2, <1>3, <2>5
  <2> QED
    <3>1. running' = free
      BY <1>3, <2>3
    <3>2. queued' = SubSeq(queued, 1, 0)
      <4> HIDE DEF n
      <4> QED
        BY <1>3, <2>1, <2>2
    <3>3. queued' = <<>>
      BY <1>5, <3>2
    <3> QED
      BY <1>3, <1>5, <2>6, <3>1, <3>3
<1>6. CASE queued # <<>>
  <2>1. 1 \in 1..Len(queued) /\ queued[1] \in Adapters /\ queued[1] \in InQueue
    BY <1>2, <1>6 DEF InQueue
  <2>2. queued[1] \notin running /\ queued[1] # a
    BY <1>1, <2>1 DEF Scheduled
  <2>3. left[queued[1]] # <<>>
    BY <1>1, <1>2, <2>1, <2>2 DEF Scheduled
  <2>4. Starting(left, 0) = {} /\ Starting(left, 1) = {1}
    BY <2>3 DEF Starting
  <2>5. Filled(0) = free /\ Filled(1) = free \cup {queued[1]}
    BY <2>4
  <2>6. Cardinality(running) = MaxProbes /\ IsFiniteSet(running)
    BY <1>1, <1>6, FS_CardinalityType, MaxProbesAssumption
       DEF NoIdleSlot, HasSlot, Scheduled
  <2>7. IsFiniteSet(free) /\ Cardinality(free) = MaxProbes - 1
    BY <2>6, FS_RemoveElement
  <2>8. HasSlot(Filled(0))
    <3>1. Cardinality(free) < MaxProbes
      <4> HIDE DEF free
      <4> QED
        BY <2>7, MaxProbesAssumption
    <3> QED
      BY <2>5, <3>1 DEF HasSlot
  <2>9. ~HasSlot(Filled(1))
    <3>1. Cardinality(free \cup {queued[1]}) = MaxProbes
      <4>1. queued[1] \notin free
        BY <2>2
      <4>2. Cardinality(free \cup {queued[1]}) = Cardinality(free) + 1
        BY <2>7, <4>1, FS_AddElement
      <4> HIDE DEF free
      <4> QED
        BY <2>7, <4>2, MaxProbesAssumption
    <3>2. ~(Cardinality(free \cup {queued[1]}) < MaxProbes)
      BY <3>1, MaxProbesAssumption
    <3> QED
      BY <2>5, <3>2 DEF HasSlot
  <2>10. n = 1
    <3> DEFINE Stops(k) == /\ k = Len(queued) \/ ~HasSlot(Filled(k))
                           /\ \A j \in 0..(k - 1) : HasSlot(Filled(j))
    <3> HIDE DEF Filled
    <3>1. Stops(1) /\ 1 \in 0..Len(queued)
      <4>1. \A j \in 0..(1 - 1) : j = 0
        OBVIOUS
      <4> QED
        BY <1>2, <2>1, <2>8, <2>9, <4>1
    <3>2. ASSUME NEW k \in 0..Len(queued), Stops(k) PROVE k = 1
      <4>1. k # 0
        BY <1>2, <2>1, <2>8, <3>2
      <4>2. ~(k > 1)
        <5>1. k > 1 => 1 \in 0..(k - 1)
          BY <1>2
        <5> QED
          BY <2>9, <3>2, <5>1
      <4> QED
        BY <1>2, <4>1, <4>2
    <3>3. n = CHOOSE k \in 0..Len(queued) : Stops(k)
      BY <1>4
    <3> HIDE DEF Stops, n
    <3>4. n \in 0..Len(queued) /\ Stops(n)
      BY <3>1, <3>3
    <3> QED
      BY <3>2, <3>4
  <2>11. start = {1}
    BY <2>4, <2>10
  <2>12. running' = free \cup {queued[1]}
    BY <1>3, <2>11
  <2>13. \A b \in Adapters :
            {i \in start : queued[i] = b} = IF b = queued[1] THEN {1} ELSE {}
    BY <2>11
  <2>14. \A b \in Adapters :
            threads'[b] = threads[b] + (IF b = queued[1] THEN 1 ELSE 0)
    <3> SUFFICES ASSUME NEW b \in Adapters
                 PROVE threads'[b] = threads[b] + (IF b = queued[1] THEN 1 ELSE 0)
      OBVIOUS
    <3>1. threads'[b] = threads[b] + Cardinality({i \in start : queued[i] = b})
      BY <1>3
    <3>2. Cardinality({i \in start : queued[i] = b}) = IF b = queued[1] THEN 1 ELSE 0
      BY <2>13, FS_Singleton, FS_EmptySet
    <3> QED
      BY <3>1, <3>2
  <2>15. threads' = [threads EXCEPT ![queued[1]] = @ + 1]
    <3>1. threads' = [b \in Adapters |-> threads'[b]]
      BY <1>3
    <3>2. threads = [b \in Adapters |-> threads[b]] /\ threads[queued[1]] \in Int
      BY <1>2, <2>1
    <3>3. \A b \in Adapters : threads'[b] = [threads EXCEPT ![queued[1]] = @ + 1][b]
      <4> HIDE DEF n, start, free, left
      <4> QED
        BY <1>2, <2>1, <2>14
    <3> HIDE DEF n, start, free, left
    <3> QED
      BY <1>2, <2>1, <3>1, <3>3
  <2>16. queued' = SubSeq(queued, 2, Len(queued))
    <3> HIDE DEF n
    <3> QED
      BY <1>3, <2>10
  <2>17. /\ queued' \in Seq(Adapters)
         /\ Len(queued') = Len(queued) - 1
         /\ \A i \in 1..Len(queued') : queued'[i] = queued[i + 1]
    <3>1. queued' = Tail(queued)
      BY <1>2, <1>6, <2>16
    <3> QED
      BY <1>2, <1>6, <3>1
  <2> QED
    BY <1>3, <1>6, <2>12, <2>15, <2>17
<1> QED
  BY <1>5, <1>6

-----------------------------------------------------------------------------
\* The channel and the answers.

LEMMA UnreadAfterRead ==
    ASSUME TypeOK, UnreadIsUnanswered, inbox # <<>>, inbox' = Tail(inbox),
           sent' = sent, answer' \in [Commands -> Answers],
           \A c \in Commands :
              \/ answer'[c] = answer[c]
              \/ Head(inbox).type = "probe" /\ c = Head(inbox).command
              \/ answer[c] # "none"
    PROVE  UnreadIsUnanswered'
<1>1. /\ inbox \in Seq(Messages) /\ Len(inbox) \in Nat
      /\ Head(inbox) = inbox[1]
      /\ 1 \in 1..Len(inbox)
      /\ \A i \in 1..Len(inbox') : i + 1 \in 1..Len(inbox) /\ inbox'[i] = inbox[i + 1]
  BY Reading DEF TypeOK
<1>2. \A i \in 1..Len(inbox) : inbox[i] \in Messages
  BY <1>1
<1>3. ASSUME NEW i \in 1..Len(inbox'), inbox'[i].type = "probe"
      PROVE  inbox'[i].command \in sent' /\ answer'[inbox'[i].command] = "none"
  <2>1. /\ i + 1 \in 1..Len(inbox) /\ i + 1 # 1 /\ inbox[i + 1].type = "probe"
        /\ inbox'[i] = inbox[i + 1]
    BY <1>1, <1>3
  <2>2. inbox[i + 1].command \in Commands
    BY <1>2, <2>1, MessageKinds
  <2>3. answer[inbox[i + 1].command] = "none" /\ inbox[i + 1].command \in sent
    BY <2>1 DEF UnreadIsUnanswered
  <2>4. ~(Head(inbox).type = "probe" /\ inbox[i + 1].command = Head(inbox).command)
    BY <1>1, <2>1 DEF UnreadIsUnanswered
  <2> QED
    BY <2>1, <2>2, <2>3, <2>4
<1>4. ASSUME NEW i \in 1..Len(inbox'), NEW j \in 1..Len(inbox'),
             inbox'[i].type = "probe", inbox'[j].type = "probe",
             inbox'[i].command = inbox'[j].command
      PROVE  i = j
  <2>1. i + 1 = j + 1
    BY <1>1, <1>4 DEF UnreadIsUnanswered
  <2>2. i \in Int /\ j \in Int
    OBVIOUS
  <2> QED
    BY <2>1, <2>2
<1>5. ASSUME NEW c \in Commands \ sent' PROVE answer'[c] = "none"
  <2>1. answer[c] = "none"
    BY <1>5 DEF UnreadIsUnanswered
  <2>2. ~(Head(inbox).type = "probe" /\ c = Head(inbox).command)
    BY <1>1, <1>5 DEF UnreadIsUnanswered
  <2> QED
    BY <2>1, <2>2
<1> QED
  BY <1>3, <1>4, <1>5 DEF UnreadIsUnanswered

LEMMA UnreadAfterSend ==
    ASSUME TypeOK, UnreadIsUnanswered, NEW m \in Messages, inbox' = Append(inbox, m),
           sent \subseteq sent', sent' \subseteq Commands, UNCHANGED answer,
           m.type = "probe" => m.command \in sent' \ sent
    PROVE  UnreadIsUnanswered'
<1>1. /\ inbox \in Seq(Messages) /\ Len(inbox) \in Nat
      /\ Len(inbox') = Len(inbox) + 1
      /\ inbox'[Len(inbox) + 1] = m
      /\ \A i \in 1..Len(inbox) : inbox'[i] = inbox[i]
  BY Sending DEF TypeOK
<1>2. \A i \in 1..Len(inbox') : i \in 1..Len(inbox) \/ i = Len(inbox) + 1
  BY <1>1
<1>3. ASSUME NEW i \in 1..Len(inbox'), inbox'[i].type = "probe"
      PROVE  inbox'[i].command \in sent' /\ answer'[inbox'[i].command] = "none"
  BY <1>1, <1>2, <1>3 DEF UnreadIsUnanswered
<1>4. ASSUME NEW i \in 1..Len(inbox'), NEW j \in 1..Len(inbox'),
             inbox'[i].type = "probe", inbox'[j].type = "probe",
             inbox'[i].command = inbox'[j].command
      PROVE  i = j
  <2>1. CASE i \in 1..Len(inbox) /\ j \in 1..Len(inbox)
    BY <1>1, <1>4, <2>1 DEF UnreadIsUnanswered
  <2>2. CASE i \in 1..Len(inbox) /\ j = Len(inbox) + 1
    BY <1>1, <1>4, <2>2 DEF UnreadIsUnanswered
  <2>3. CASE i = Len(inbox) + 1 /\ j \in 1..Len(inbox)
    BY <1>1, <1>4, <2>3 DEF UnreadIsUnanswered
  <2> QED
    BY <1>2, <2>1, <2>2, <2>3
<1> QED
  BY <1>3, <1>4 DEF UnreadIsUnanswered

\* The scheduler's part of the invariant when only the channel changes, by a
\* message that is not a result.
LEMMA SlotsAfterSend ==
    ASSUME TypeOK, SlotIsUsed, NEW m \in Messages, inbox' = Append(inbox, m),
           m.type # "probed", UNCHANGED <<running, threads>>
    PROVE  SlotIsUsed'
<1>1. \A a \in Adapters : ~IsResult(m, a)
  BY DEF IsResult
<1>2. \A a \in Adapters : HasResult(a)' <=> HasResult(a)
  BY <1>1, ResultsSent
<1>3. \A a \in Adapters : \A i, j \in 1..Len(inbox') :
         IsResult(inbox'[i], a) /\ IsResult(inbox'[j], a) => i = j
  BY <1>1, ResultsStayUnique
<1> QED
  BY <1>2, <1>3 DEF SlotIsUsed

\* The same when a message that is not a result is read, and an adapter
\* without a slot may get one.
LEMMA SlotsAfterRead ==
    ASSUME TypeOK, SlotIsUsed, inbox # <<>>, inbox' = Tail(inbox),
           Head(inbox).type # "probed",
           \/ UNCHANGED <<running, threads>>
           \/ \E a \in Adapters \ running :
                 /\ running' = running \cup {a}
                 /\ threads' = [threads EXCEPT ![a] = @ + 1]
    PROVE  SlotIsUsed' /\ threads' \in [Adapters -> {0, 1}]
<1>1. \A a \in Adapters : HasResult(a)' <=> HasResult(a)
  BY ResultsRead DEF IsResult
<1>2. \A a \in Adapters : \A i, j \in 1..Len(inbox') :
         IsResult(inbox'[i], a) /\ IsResult(inbox'[j], a) => i = j
  BY ResultsStayUnique
<1>3. threads \in [Adapters -> {0, 1}]
  BY DEF TypeOK
<1>4. CASE UNCHANGED <<running, threads>>
  BY <1>1, <1>2, <1>3, <1>4 DEF SlotIsUsed
<1>5. ASSUME NEW a \in Adapters \ running, running' = running \cup {a},
             threads' = [threads EXCEPT ![a] = @ + 1]
      PROVE  SlotIsUsed' /\ threads' \in [Adapters -> {0, 1}]
  <2>1. threads[a] = 0 /\ ~HasResult(a)
    BY <1>3 DEF SlotIsUsed
  <2>2. threads' \in [Adapters -> {0, 1}]
    BY <1>3, <1>5, <2>1
  <2>3. /\ threads'[a] = 1
        /\ \A b \in Adapters \ {a} : threads'[b] = threads[b]
    BY <1>3, <1>5, <2>1
  <2> QED
    BY <1>1, <1>2, <1>5, <2>1, <2>2, <2>3 DEF SlotIsUsed
<1> QED
  BY <1>4, <1>5

-----------------------------------------------------------------------------
\* Invariance.

LEMMA ProbesInit == Init => ProbesInv
<1> SUFFICES ASSUME Init PROVE ProbesInv
  OBVIOUS
<1>1. TypeOK
  BY DEF Init, TypeOK, Answers
<1>2. Len(inbox) = 0 /\ Len(queued) = 0 /\ running = {}
  BY DEF Init
<1>3. Scheduled
  <2>1. IsFiniteSet(running) /\ Cardinality(running) = 0
    BY <1>2, FS_EmptySet
  <2>2. \A a \in Adapters : waiters[a] = <<>>
    BY DEF Init
  <2> QED
    BY <1>2, <2>1, <2>2, MaxProbesAssumption DEF Scheduled, InQueue
<1>4. SlotIsUsed
  BY <1>2 DEF Init, SlotIsUsed, HasResult
<1>5. NoIdleSlot
  BY DEF Init, NoIdleSlot
<1>6. UnreadIsUnanswered
  BY <1>2 DEF Init, UnreadIsUnanswered
<1>7. AcceptedWaits
  <2>1. \A a \in Adapters : Told(a) = {}
    BY DEF Init, Told
  <2> QED
    BY <2>1 DEF Init, AcceptedWaits
<1> QED
  BY <1>1, <1>3, <1>4, <1>5, <1>6, <1>7 DEF ProbesInv

\* A step that only adds a message other than a result to the channel.
LEMMA InvAfterSend ==
    ASSUME ProbesInv, NEW m \in Messages, inbox' = Append(inbox, m),
           m.type # "probed", open' \in BOOLEAN,
           sent \subseteq sent', sent' \subseteq Commands,
           m.type = "probe" => m.command \in sent' \ sent,
           UNCHANGED <<up, waiters, running, queued, threads, accepted, answer>>
    PROVE  ProbesInv'
<1>1. TypeOK'
  BY DEF ProbesInv, TypeOK
<1>2. SlotIsUsed'
  BY SlotsAfterSend DEF ProbesInv
<1>3. Scheduled'
  BY DEF ProbesInv, Scheduled, InQueue
<1>4. UnreadIsUnanswered'
  BY UnreadAfterSend DEF ProbesInv
<1>5. NoIdleSlot' /\ AcceptedWaits'
  BY DEF ProbesInv, NoIdleSlot, HasSlot, AcceptedWaits, Told
<1> QED
  BY <1>1, <1>2, <1>3, <1>4, <1>5 DEF ProbesInv

LEMMA SendKeeps ==
    ASSUME ProbesInv, NEW c \in Commands, NEW a \in Adapters, Send(c, a)
    PROVE  ProbesInv'
<1>1. ProbeMessage(c, a) \in Messages
  BY DEF ProbeMessage, Messages
<1>2. ProbeMessage(c, a).type = "probe" /\ ProbeMessage(c, a).command = c
  BY DEF ProbeMessage
<1>3. sent \subseteq Commands /\ open \in BOOLEAN
  BY DEF ProbesInv, TypeOK
<1> QED
  BY <1>1, <1>2, <1>3, InvAfterSend DEF Send

LEMMA SendShutdownKeeps ==
    ASSUME ProbesInv, SendShutdown
    PROVE  ProbesInv'
<1>1. Shutdown \in Messages /\ Shutdown.type = "shutdown"
  BY DEF Messages, Shutdown
<1>2. sent \subseteq Commands
  BY DEF ProbesInv, TypeOK
<1> QED
  BY <1>1, <1>2, InvAfterSend DEF SendShutdown

LEMMA HandshakeKeeps ==
    ASSUME ProbesInv, NEW a \in Adapters, Handshake(a)
    PROVE  ProbesInv'
<1>1. TypeOK /\ SlotIsUsed
  BY DEF ProbesInv
<1>2. PICK ok \in BOOLEAN : inbox' = Append(inbox, Probed(a, ok))
  BY DEF Handshake
<1>3. /\ Probed(a, ok) \in Messages
      /\ Probed(a, ok).type = "probed"
      /\ Probed(a, ok).adapter = a
  BY DEF Probed, Messages
<1>4. threads[a] = 1 /\ threads \in [Adapters -> {0, 1}]
  BY <1>1 DEF Handshake, TypeOK
<1>5. /\ threads' \in [Adapters -> {0, 1}]
      /\ threads'[a] = 0
      /\ \A b \in Adapters \ {a} : threads'[b] = threads[b]
  BY <1>4 DEF Handshake
<1>6. \A b \in Adapters : HasResult(b)' <=> HasResult(b) \/ b = a
  BY <1>1, <1>2, <1>3, ResultsSent DEF IsResult
<1>7. \A b \in Adapters : IsResult(Probed(a, ok), b) => ~HasResult(b)
  BY <1>1, <1>3, <1>4 DEF IsResult, SlotIsUsed
<1>8. SlotIsUsed'
  <2>1. \A b \in Adapters : \A i, j \in 1..Len(inbox') :
           IsResult(inbox'[i], b) /\ IsResult(inbox'[j], b) => i = j
    BY <1>1, <1>2, <1>3, <1>7, ResultsStayUnique
  <2>2. running' = running
    BY DEF Handshake
  <2> QED
    BY <1>1, <1>4, <1>5, <1>6, <2>1, <2>2 DEF SlotIsUsed
<1>9. TypeOK'
  BY <1>1, <1>2, <1>3, <1>5 DEF TypeOK, Handshake
<1>10. UnreadIsUnanswered'
  <2>1. sent \subseteq Commands
    BY <1>1 DEF TypeOK
  <2> QED
    BY <1>1, <1>2, <1>3, <2>1, UnreadAfterSend DEF ProbesInv, Handshake
<1>11. Scheduled' /\ NoIdleSlot' /\ AcceptedWaits'
  BY DEF Handshake, ProbesInv, Scheduled, InQueue, NoIdleSlot, HasSlot, AcceptedWaits, Told
<1> QED
  BY <1>8, <1>9, <1>10, <1>11 DEF ProbesInv

LEMMA RefuseProbeKeeps ==
    ASSUME ProbesInv, RefuseProbe
    PROVE  ProbesInv'
<1>1. TypeOK /\ SlotIsUsed /\ UnreadIsUnanswered
  BY DEF ProbesInv
<1>2. /\ inbox # <<>> /\ inbox' = Tail(inbox) /\ Head(inbox).type = "probe"
      /\ answer' = [answer EXCEPT ![Head(inbox).command] = "refused"]
      /\ UNCHANGED <<open, sent, up, waiters, running, queued, threads, accepted>>
  BY DEF RefuseProbe, Receive
<1>3. Head(inbox) \in Messages /\ inbox' \in Seq(Messages)
  BY <1>1, <1>2, Reading DEF TypeOK
<1>4. Head(inbox).command \in Commands
  BY <1>2, <1>3, MessageKinds
<1>5. /\ answer \in [Commands -> Answers]
      /\ answer' \in [Commands -> Answers]
      /\ answer'[Head(inbox).command] = "refused"
      /\ \A c \in Commands \ {Head(inbox).command} : answer'[c] = answer[c]
  BY <1>1, <1>2, <1>4 DEF TypeOK, Answers
<1>6. TypeOK'
  BY <1>1, <1>2, <1>3, <1>5 DEF TypeOK
<1>7. SlotIsUsed'
  BY <1>1, <1>2, SlotsAfterRead
<1>8. UnreadIsUnanswered'
  BY <1>1, <1>2, <1>5, UnreadAfterRead
<1>9. AcceptedWaits'
  <2>1. \A a \in Adapters : Told(a)' = Told(a) /\ Told(a) \subseteq Commands
    BY <1>1, <1>2 DEF Told, TypeOK
  <2> QED
    BY <1>2, <1>5, <2>1 DEF ProbesInv, AcceptedWaits
<1>10. Scheduled' /\ NoIdleSlot'
  BY <1>2 DEF ProbesInv, Scheduled, InQueue, NoIdleSlot, HasSlot
<1> QED
  BY <1>6, <1>7, <1>8, <1>9, <1>10 DEF ProbesInv

LEMMA AcceptProbeKeeps ==
    ASSUME ProbesInv, AcceptProbe, NEW a, NEW c,
           a = Head(inbox).adapter, c = Head(inbox).command
    PROVE  ProbesInv'
<1>1. TypeOK /\ SlotIsUsed /\ UnreadIsUnanswered
  BY DEF ProbesInv
<1>2. /\ inbox # <<>> /\ inbox' = Tail(inbox) /\ Head(inbox).type = "probe"
      /\ answer' = [answer EXCEPT ![c] = "accepted"]
      /\ accepted' = Append(accepted, c)
      /\ Admit(a, c)
      /\ UNCHANGED <<open, sent, up>>
  BY DEF AcceptProbe, Receive
<1>3. Head(inbox) \in Messages /\ inbox' \in Seq(Messages)
  BY <1>1, <1>2, Reading DEF TypeOK
<1>4. c \in Commands /\ a \in Adapters
  BY <1>2, <1>3, MessageKinds
<1>5. /\ answer' \in [Commands -> Answers]
      /\ answer'[c] = "accepted"
      /\ \A d \in Commands \ {c} : answer'[d] = answer[d]
  BY <1>1, <1>2, <1>4 DEF TypeOK, Answers
<1>6. /\ waiters' \in [Adapters -> Seq(Commands)]
      /\ running' \in SUBSET Adapters
      /\ queued' \in Seq(Adapters)
      /\ Scheduled' /\ NoIdleSlot'
      /\ \/ running' = running /\ threads' = threads
         \/ /\ a \notin running
            /\ running' = running \cup {a}
            /\ threads' = [threads EXCEPT ![a] = @ + 1]
  BY <1>2, <1>4, AdmitKeepsBooks
<1>7. SlotIsUsed' /\ threads' \in [Adapters -> {0, 1}]
  BY <1>1, <1>2, <1>4, <1>6, SlotsAfterRead
<1>8. TypeOK'
  <2>1. accepted' \in Seq(Commands)
    BY <1>1, <1>2, <1>4 DEF TypeOK
  <2> QED
    BY <1>1, <1>2, <1>3, <1>5, <1>6, <1>7, <2>1 DEF TypeOK
<1>9. UnreadIsUnanswered'
  BY <1>1, <1>2, <1>5, UnreadAfterRead
<1>10. AcceptedWaits'
  <2>1. waiters \in [Adapters -> Seq(Commands)] /\ waiters[a] \in Seq(Commands)
    BY <1>1, <1>4 DEF TypeOK
  <2>2. waiters' = [waiters EXCEPT ![a] = Append(@, c)]
    BY <1>2 DEF Admit
  <2>3. \A b \in Adapters \ {a} : Told(b)' = Told(b) /\ Told(b) \subseteq Commands
    BY <2>1, <2>2 DEF Told
  <2>4. waiters'[a] = Append(waiters[a], c)
    BY <1>4, <2>1, <2>2
  <2>5. Told(a)' = Told(a) \cup {c}
    <3>1. Told(a) = {waiters[a][i] : i \in 1..Len(waiters[a])}
      BY DEF Told
    <3>2. Told(a)' = {waiters'[a][i] : i \in 1..Len(waiters'[a])}
      BY DEF Told
    <3> QED
      BY <1>4, <2>1, <2>4, <3>1, <3>2, AppendedRange
  <2>6. Told(a) \subseteq Commands
    BY <2>1 DEF Told
  <2> QED
    <3>1. ASSUME NEW d \in Commands, answer'[d] = "accepted"
          PROVE  \E b \in Adapters : d \in Told(b)'
      <4>1. CASE d = c
        BY <1>4, <2>5, <4>1
      <4>2. CASE d # c
        <5>1. PICK b \in Adapters : d \in Told(b)
          BY <1>5, <3>1, <4>2 DEF ProbesInv, AcceptedWaits
        <5>2. d \in Told(b)'
          BY <2>3, <2>5, <5>1
        <5> QED
          BY <5>2
      <4> QED
        BY <4>1, <4>2
    <3>2. ASSUME NEW b \in Adapters, NEW d \in Told(b)' PROVE answer'[d] # "none"
      <4>1. d = c \/ (d \in Told(b) /\ d \in Commands)
        BY <2>3, <2>5, <2>6, <3>2
      <4>2. d \in Told(b) => answer[d] # "none"
        BY DEF ProbesInv, AcceptedWaits
      <4> QED
        BY <1>5, <4>1, <4>2
    <3> QED
      BY <3>1, <3>2 DEF AcceptedWaits
<1> QED
  BY <1>6, <1>7, <1>8, <1>9, <1>10 DEF ProbesInv

LEMMA FinishProbeKeeps ==
    ASSUME ProbesInv, FinishProbe, NEW a, a = Head(inbox).adapter
    PROVE  ProbesInv'
<1>1. TypeOK /\ SlotIsUsed /\ UnreadIsUnanswered /\ Scheduled /\ NoIdleSlot /\ AcceptedWaits
  BY DEF ProbesInv
<1>2. /\ inbox # <<>> /\ inbox' = Tail(inbox) /\ Head(inbox).type = "probed"
      /\ answer' = [c \in Commands |->
                       IF c \notin Told(a) THEN answer[c]
                       ELSE IF Head(inbox).ok THEN "shown" ELSE "rejected"]
      /\ Release(a)
      /\ UNCHANGED <<open, sent, up, accepted>>
  BY DEF FinishProbe, Receive
<1>3. /\ Head(inbox) \in Messages /\ inbox' \in Seq(Messages)
      /\ Head(inbox) = inbox[1] /\ 1 \in 1..Len(inbox)
  BY <1>1, <1>2, Reading DEF TypeOK
<1>4. a \in Adapters
  BY <1>2, <1>3, MessageKinds
<1>5. IsResult(Head(inbox), a) /\ HasResult(a)
  BY <1>2, <1>3 DEF IsResult, HasResult
<1>6. a \in running /\ threads[a] = 0
  BY <1>1, <1>4, <1>5 DEF SlotIsUsed, TypeOK
<1>7. /\ answer \in [Commands -> Answers]
      /\ answer' \in [Commands -> Answers]
      /\ \A c \in Commands : c \notin Told(a) => answer'[c] = answer[c]
      /\ \A c \in Commands : c \in Told(a) => answer'[c] \in {"shown", "rejected"}
  BY <1>1, <1>2 DEF TypeOK, Answers
<1> DEFINE next == queued[1]
<1>8. \A b \in Adapters : HasResult(b)' <=> HasResult(b) /\ b # a
  BY <1>1, <1>2, <1>5, ResultsRead DEF IsResult
<1>9. /\ waiters' = [waiters EXCEPT ![a] = <<>>]
      /\ \/ /\ queued = <<>>
            /\ queued' = <<>>
            /\ running' = running \ {a}
            /\ threads' = threads
         \/ /\ queued # <<>>
            /\ queued' \in Seq(Adapters)
            /\ Len(queued') = Len(queued) - 1
            /\ \A i \in 1..Len(queued') : queued'[i] = queued[i + 1]
            /\ running' = (running \ {a}) \cup {next}
            /\ threads' = [threads EXCEPT ![next] = @ + 1]
  BY <1>2, <1>6, ReleaseHandsOver
<1>10. /\ waiters \in [Adapters -> Seq(Commands)] /\ queued \in Seq(Adapters)
       /\ threads \in [Adapters -> {0, 1}] /\ running \subseteq Adapters
       /\ Len(queued) \in Nat
  BY <1>1 DEF TypeOK
<1>11. /\ waiters' \in [Adapters -> Seq(Commands)]
       /\ waiters'[a] = <<>>
       /\ \A b \in Adapters \ {a} : waiters'[b] = waiters[b]
  BY <1>4, <1>9, <1>10
<1>12. \A b \in Adapters : \A i, j \in 1..Len(inbox') :
          IsResult(inbox'[i], b) /\ IsResult(inbox'[j], b) => i = j
  BY <1>1, <1>2, ResultsStayUnique
<1>13. UnreadIsUnanswered'
  <2>1. \A c \in Commands : answer'[c] = answer[c] \/ answer[c] # "none"
    BY <1>1, <1>4, <1>7 DEF AcceptedWaits
  <2> QED
    BY <1>1, <1>2, <1>7, <2>1, UnreadAfterRead
<1>14. AcceptedWaits'
  <2>1. Told(a)' = {}
    BY <1>11 DEF Told
  <2>2. \A b \in Adapters \ {a} : Told(b)' = Told(b) /\ Told(b) \subseteq Commands
    BY <1>10, <1>11 DEF Told
  <2>3. ASSUME NEW c \in Commands, answer'[c] = "accepted"
        PROVE  \E b \in Adapters : c \in Told(b)'
    <3>1. c \notin Told(a) /\ answer[c] = "accepted"
      BY <1>7, <2>3
    <3>2. PICK b \in Adapters : c \in Told(b)
      BY <1>1, <3>1 DEF AcceptedWaits
    <3> QED
      BY <2>2, <3>1, <3>2
  <2>4. ASSUME NEW b \in Adapters, NEW c \in Told(b)' PROVE answer'[c] # "none"
    <3>1. b # a /\ c \in Told(b) /\ c \in Commands
      BY <2>1, <2>2, <2>4
    <3>2. answer[c] # "none"
      BY <1>1, <3>1 DEF AcceptedWaits
    <3> QED
      BY <1>7, <3>1, <3>2
  <2> QED
    BY <2>3, <2>4 DEF AcceptedWaits
<1>15. accepted' \in Seq(Commands) /\ open' \in BOOLEAN /\ up' \in BOOLEAN
       /\ sent' \subseteq Commands
  BY <1>1, <1>2 DEF TypeOK
<1>16. IsFiniteSet(running) /\ Cardinality(running) \in Nat /\ Cardinality(running) <= MaxProbes
  BY <1>1, FS_CardinalityType DEF Scheduled
<1>17. /\ IsFiniteSet(running \ {a})
       /\ Cardinality(running \ {a}) = Cardinality(running) - 1
  BY <1>6, <1>16, FS_RemoveElement
<1>18. CASE /\ queued = <<>>
            /\ queued' = <<>>
            /\ running' = running \ {a}
            /\ threads' = threads
  <2>1. TypeOK'
    BY <1>3, <1>7, <1>10, <1>11, <1>15, <1>18 DEF TypeOK
  <2>2. SlotIsUsed'
    BY <1>1, <1>4, <1>6, <1>8, <1>12, <1>18 DEF SlotIsUsed
  <2>3. Len(queued) = 0 /\ Len(queued') = 0
    BY <1>18
  <2>4. InQueue = {} /\ InQueue' = {}
    BY <2>3 DEF InQueue
  <2>5. Cardinality(running') <= MaxProbes
    BY <1>16, <1>17, <1>18, MaxProbesAssumption
  <2>6. Scheduled'
    BY <1>1, <1>4, <1>11, <1>17, <1>18, <2>3, <2>4, <2>5 DEF Scheduled
  <2>7. NoIdleSlot'
    BY <1>18 DEF NoIdleSlot
  <2> QED
    BY <1>13, <1>14, <2>1, <2>2, <2>6, <2>7 DEF ProbesInv
<1>19. CASE /\ queued # <<>>
            /\ queued' \in Seq(Adapters)
            /\ Len(queued') = Len(queued) - 1
            /\ \A i \in 1..Len(queued') : queued'[i] = queued[i + 1]
            /\ running' = (running \ {a}) \cup {next}
            /\ threads' = [threads EXCEPT ![next] = @ + 1]
  <2>1. 1 \in 1..Len(queued) /\ next \in Adapters /\ next \in InQueue
    BY <1>10, <1>19 DEF InQueue
  <2>2. next \notin running /\ next # a
    BY <1>1, <1>6, <2>1 DEF Scheduled
  <2>3. threads[next] = 0 /\ ~HasResult(next)
    BY <1>1, <1>10, <2>1, <2>2 DEF SlotIsUsed
  <2> HIDE DEF next
  <2>4. /\ threads' \in [Adapters -> {0, 1}]
        /\ threads'[next] = 1
        /\ \A b \in Adapters \ {next} : threads'[b] = threads[b]
    BY <1>10, <1>19, <2>1, <2>3
  <2>5. TypeOK'
    BY <1>3, <1>7, <1>10, <1>11, <1>15, <1>19, <2>1, <2>4 DEF TypeOK
  <2>6. \A b \in Adapters : /\ b \in running' <=> threads'[b] = 1 \/ HasResult(b)'
                            /\ threads'[b] = 1 => ~HasResult(b)'
    <3> SUFFICES ASSUME NEW b \in Adapters
                 PROVE  /\ b \in running' <=> threads'[b] = 1 \/ HasResult(b)'
                        /\ threads'[b] = 1 => ~HasResult(b)'
      OBVIOUS
    <3>1. CASE b = next
      BY <1>8, <1>19, <2>1, <2>3, <2>4, <3>1
    <3>2. CASE b = a
      BY <1>6, <1>8, <1>19, <2>2, <2>4, <3>2
    <3>3. CASE b # next /\ b # a
      BY <1>1, <1>8, <1>19, <2>4, <3>3 DEF SlotIsUsed
    <3> QED
      BY <3>1, <3>2, <3>3
  <2>7. SlotIsUsed'
    BY <1>12, <2>6 DEF SlotIsUsed
  <2>8. InQueue' = InQueue \ {next}
    <3>1. ASSUME NEW b \in InQueue' PROVE b \in InQueue \ {next}
      <4>1. PICK i \in 1..Len(queued') : b = queued'[i]
        BY <3>1 DEF InQueue
      <4>2. i + 1 \in 1..Len(queued) /\ i + 1 # 1 /\ b = queued[i + 1]
        BY <1>10, <1>19, <4>1
      <4>3. b # next
        BY <1>1, <2>1, <4>2 DEF Scheduled, next
      <4> QED
        BY <4>2, <4>3 DEF InQueue
    <3>2. ASSUME NEW b \in InQueue \ {next} PROVE b \in InQueue'
      <4>1. PICK i \in 1..Len(queued) : b = queued[i]
        BY <3>2 DEF InQueue
      <4>2. i # 1
        BY <3>2, <4>1 DEF next
      <4>3. i - 1 \in 1..Len(queued') /\ (i - 1) + 1 = i
        BY <1>10, <1>19, <4>2
      <4>4. queued'[i - 1] = b
        BY <1>19, <4>1, <4>3
      <4> QED
        BY <4>3, <4>4 DEF InQueue
    <3> QED
      BY <3>1, <3>2
  <2>9. /\ IsFiniteSet(running')
        /\ Cardinality(running') = Cardinality(running)
    <3>1. next \notin running \ {a}
      BY <2>2
    <3>2. /\ IsFiniteSet(running')
          /\ Cardinality(running') = Cardinality(running \ {a}) + 1
      BY <1>17, <1>19, <3>1, FS_AddElement
    <3> QED
      BY <1>16, <1>17, <3>2
  <2>10. \A b \in Adapters : waiters'[b] # <<>> <=> b \in running' \cup InQueue'
    <3> SUFFICES ASSUME NEW b \in Adapters
                 PROVE  waiters'[b] # <<>> <=> b \in running' \cup InQueue'
      OBVIOUS
    <3>1. a \notin InQueue
      BY <1>1, <1>6 DEF Scheduled
    <3>2. CASE b = a
      BY <1>11, <1>19, <2>2, <2>8, <3>1, <3>2
    <3>3. CASE b # a
      BY <1>1, <1>11, <1>19, <2>1, <2>8, <3>3 DEF Scheduled
    <3> QED
      BY <3>2, <3>3
  <2>11. running' \cap InQueue' = {}
    BY <1>1, <1>19, <2>8 DEF Scheduled
  <2>12. \A i, j \in 1..Len(queued') : queued'[i] = queued'[j] => i = j
    <3> SUFFICES ASSUME NEW i \in 1..Len(queued'), NEW j \in 1..Len(queued'),
                        queued'[i] = queued'[j]
                 PROVE  i = j
      OBVIOUS
    <3>1. /\ i + 1 \in 1..Len(queued) /\ j + 1 \in 1..Len(queued)
          /\ queued[i + 1] = queued[j + 1]
      BY <1>10, <1>19, SMTT(30)
    <3>2. i + 1 = j + 1
      BY <1>1, <3>1 DEF Scheduled
    <3>3. i \in Int /\ j \in Int
      OBVIOUS
    <3> QED
      BY <3>2, <3>3
  <2>13. Scheduled'
    BY <1>16, <2>9, <2>10, <2>11, <2>12 DEF Scheduled
  <2>14. NoIdleSlot'
    BY <1>1, <1>19, <2>9 DEF NoIdleSlot, HasSlot
  <2> QED
    BY <1>13, <1>14, <2>5, <2>7, <2>13, <2>14 DEF ProbesInv
<1> QED
  BY <1>9, <1>18, <1>19

LEMMA StopKeeps ==
    ASSUME ProbesInv, Stop
    PROVE  ProbesInv'
<1>1. TypeOK /\ SlotIsUsed /\ UnreadIsUnanswered
  BY DEF ProbesInv
<1>2. /\ inbox # <<>> /\ inbox' = Tail(inbox) /\ Head(inbox).type = "shutdown"
      /\ up' = FALSE
      /\ UNCHANGED <<open, sent, waiters, running, queued, threads, accepted, answer>>
  BY DEF Stop, Receive
<1>3. inbox' \in Seq(Messages)
  BY <1>1, <1>2, Reading DEF TypeOK
<1>4. TypeOK'
  BY <1>1, <1>2, <1>3 DEF TypeOK
<1>5. SlotIsUsed'
  BY <1>1, <1>2, SlotsAfterRead
<1>6. UnreadIsUnanswered'
  BY <1>1, <1>2, UnreadAfterRead DEF TypeOK
<1>7. Scheduled' /\ NoIdleSlot' /\ AcceptedWaits'
  BY <1>2 DEF ProbesInv, Scheduled, InQueue, NoIdleSlot, HasSlot, AcceptedWaits, Told
<1> QED
  BY <1>4, <1>5, <1>6, <1>7 DEF ProbesInv

LEMMA ProbesStep == ProbesInv /\ [Next]_vars => ProbesInv'
<1> SUFFICES ASSUME ProbesInv, [Next]_vars PROVE ProbesInv'
  OBVIOUS
<1>1. CASE \E c \in Commands, a \in Adapters : Send(c, a)
  BY <1>1, SendKeeps
<1>2. CASE SendShutdown
  BY <1>2, SendShutdownKeeps
<1>3. CASE WorkerStep
  BY <1>3, RefuseProbeKeeps, AcceptProbeKeeps, FinishProbeKeeps, StopKeeps DEF WorkerStep
<1>4. CASE \E a \in Adapters : Handshake(a)
  BY <1>4, HandshakeKeeps
<1>5. CASE UNCHANGED vars
  BY <1>5 DEF vars, ProbesInv, TypeOK, SlotIsUsed, HasResult, Scheduled, InQueue,
              NoIdleSlot, HasSlot, UnreadIsUnanswered, AcceptedWaits, Told
<1> QED
  BY <1>1, <1>2, <1>3, <1>4, <1>5 DEF Next

\* The inductive invariant holds of every behaviour of the scheduler.
THEOREM ProbesInvariance == Spec => []ProbesInv
  BY ProbesInit, ProbesStep, PTL DEF Spec

\* The scheduler's state, its messages and its threads are well typed.
THEOREM ProbesTypeCorrect == Spec => []TypeOK
<1>1. ProbesInv => TypeOK
  BY DEF ProbesInv
<1> QED
  BY <1>1, ProbesInvariance, PTL

\* There are never more handshake subprocesses than slots.
THEOREM Bounded == Spec => []HandshakesAreBounded
<1>1. ASSUME ProbesInv PROVE HandshakesAreBounded
  <2>1. Alive \subseteq running
    BY <1>1 DEF ProbesInv, TypeOK, SlotIsUsed, Alive
  <2>2. IsFiniteSet(running) /\ Cardinality(running) <= MaxProbes
    BY <1>1 DEF ProbesInv, Scheduled
  <2>3. IsFiniteSet(Alive) /\ Cardinality(Alive) <= Cardinality(running)
    BY <2>1, <2>2, FS_Subset
  <2>4. Cardinality(Alive) \in Nat /\ Cardinality(running) \in Nat
    BY <2>2, <2>3, FS_CardinalityType
  <2> QED
    BY <2>2, <2>3, <2>4, MaxProbesAssumption DEF HandshakesAreBounded
<1>2. ProbesInv => HandshakesAreBounded
  BY <1>1
<1> QED
  BY <1>2, ProbesInvariance, PTL

\* An adapter waits in the queue only while every slot is taken.
THEOREM SlotsAreFilled == Spec => []NoIdleSlot
<1>1. ProbesInv => NoIdleSlot
  BY DEF ProbesInv
<1> QED
  BY <1>1, ProbesInvariance, PTL

\* No accepted command is lost between the books, the threads and the channel.
THEOREM NothingForgotten == Spec => []NobodyIsForgotten
<1>1. ASSUME ProbesInv PROVE NobodyIsForgotten
  <2> SUFFICES ASSUME NEW c \in Commands, answer[c] = "accepted"
               PROVE  \E a \in Adapters :
                         /\ c \in Told(a)
                         /\ \/ a \in InQueue
                            \/ a \in Alive
                            \/ \E i \in 1..Len(inbox) :
                                  inbox[i].type = "probed" /\ inbox[i].adapter = a
    BY DEF NobodyIsForgotten
  <2>1. PICK a \in Adapters : c \in Told(a)
    BY <1>1 DEF ProbesInv, AcceptedWaits
  <2>2. waiters[a] # <<>>
    BY <2>1 DEF Told
  <2>3. a \in running \cup InQueue
    BY <1>1, <2>2 DEF ProbesInv, Scheduled
  <2>4. a \in running => a \in Alive \/ HasResult(a)
    BY <1>1 DEF ProbesInv, SlotIsUsed, Alive
  <2>5. HasResult(a) => \E i \in 1..Len(inbox) :
                           inbox[i].type = "probed" /\ inbox[i].adapter = a
    BY DEF HasResult, IsResult
  <2> QED
    BY <2>1, <2>3, <2>4, <2>5
<1>2. ProbesInv => NobodyIsForgotten
  BY <1>1
<1> QED
  BY <1>2, ProbesInvariance, PTL

-----------------------------------------------------------------------------
\* Refinement.


\* Whenever the invariant holds afterwards, the slots are as full as the
\* abstract service asks for.
LEMMA Rescheduling ==
    ASSUME ProbesInv', NEW ended, running \ ended \subseteq running'
    PROVE  Service!Reschedule(ended)
<1>1. /\ waiters' \in [Adapters -> Seq(Commands)]
      /\ running' \subseteq Adapters
      /\ queued' \in Seq(Adapters)
      /\ IsFiniteSet(running') /\ Cardinality(running') <= MaxProbes
      /\ \A a \in Adapters : waiters'[a] # <<>> <=> a \in running' \cup InQueue'
      /\ queued' # <<>> => ~(Cardinality(running') < MaxProbes)
  BY DEF ProbesInv, TypeOK, Scheduled, NoIdleSlot, HasSlot
<1>2. \A a \in Adapters : Told(a)' # {} <=> a \in running' \cup InQueue'
  <2> SUFFICES ASSUME NEW a \in Adapters
               PROVE  Told(a)' # {} <=> a \in running' \cup InQueue'
    OBVIOUS
  <2>1. waiters'[a] \in Seq(Commands)
    BY <1>1
  <2>2. Told(a)' = {waiters'[a][i] : i \in 1..Len(waiters'[a])}
    BY DEF Told
  <2>3. Told(a)' = {} <=> waiters'[a] = <<>>
    BY <2>1, <2>2, EmptyRange
  <2> QED
    BY <1>1, <2>3
<1> DEFINE wanted == {a \in Adapters : Told(a)' # {}}
<1>3. wanted = running' \cup InQueue'
  <2>1. InQueue' \subseteq Adapters
    BY <1>1 DEF InQueue
  <2> QED
    BY <1>1, <1>2, <2>1
<1>4. Cardinality(running') \in Nat
  BY <1>1, FS_CardinalityType
<1>5. Cardinality(running') = MaxProbes \/ running' = wanted
  <2>1. CASE queued' = <<>>
    <3>1. Len(queued') = 0
      BY <2>1
    <3>2. InQueue' = {}
      BY <3>1 DEF InQueue
    <3> QED
      BY <1>3, <3>2
  <2>2. CASE queued' # <<>>
    BY <1>1, <1>4, <2>2, MaxProbesAssumption
  <2> QED
    BY <2>1, <2>2
<1>6. Service!Wanted' = wanted
  BY DEF Service!Wanted
<1> HIDE DEF wanted
<1>7. /\ running' \subseteq wanted
      /\ running \ ended \subseteq running'
      /\ Cardinality(running') <= MaxProbes
      /\ Cardinality(running') = MaxProbes \/ running' = wanted
  BY <1>1, <1>3, <1>5
<1> QED
  BY <1>6, <1>7 DEF Service!Reschedule, Service!Cardinality, Cardinality

LEMMA AcceptRefines ==
    ASSUME ProbesInv, ProbesInv', AcceptProbe, NEW a, NEW c,
           a = Head(inbox).adapter, c = Head(inbox).command
    PROVE  Service!Accept(c, a)
<1>1. TypeOK /\ UnreadIsUnanswered
  BY DEF ProbesInv
<1>2. /\ inbox # <<>> /\ inbox' = Tail(inbox) /\ Head(inbox).type = "probe"
      /\ answer' = [answer EXCEPT ![c] = "accepted"]
      /\ Admit(a, c)
  BY DEF AcceptProbe, Receive
<1>3. Head(inbox) \in Messages /\ Head(inbox) = inbox[1] /\ 1 \in 1..Len(inbox)
  BY <1>1, <1>2, Reading DEF TypeOK
<1>4. c \in Commands /\ a \in Adapters /\ answer[c] = "none"
  BY <1>1, <1>2, <1>3, MessageKinds DEF UnreadIsUnanswered
<1>5. waiters \in [Adapters -> Seq(Commands)] /\ waiters' = [waiters EXCEPT ![a] = Append(@, c)]
  BY <1>1, <1>2 DEF TypeOK, Admit
<1>6. \A b \in Adapters \ {a} : Told(b)' = Told(b)
  BY <1>5 DEF Told
<1>7. Told(a)' = Told(a) \cup {c}
  <2>1. waiters[a] \in Seq(Commands) /\ waiters'[a] = Append(waiters[a], c)
    BY <1>4, <1>5
  <2>2. Told(a) = {waiters[a][i] : i \in 1..Len(waiters[a])}
    BY DEF Told
  <2>3. Told(a)' = {waiters'[a][i] : i \in 1..Len(waiters'[a])}
    BY DEF Told
  <2> QED
    BY <1>4, <2>1, <2>2, <2>3, AppendedRange
<1>8. running \ {} \subseteq running'
  BY <1>2, <1>4, AdmitKeepsBooks
<1>9. Service!Reschedule({})
  BY <1>8, Rescheduling
<1>10. [b \in Adapters |-> Told(b)]' =
          [[b \in Adapters |-> Told(b)] EXCEPT ![a] = @ \cup {c}]
  BY <1>4, <1>6, <1>7
<1> QED
  BY <1>2, <1>4, <1>9, <1>10 DEF Service!Accept

LEMMA FinishRefines ==
    ASSUME ProbesInv, ProbesInv', FinishProbe, NEW a, a = Head(inbox).adapter
    PROVE  a \in Adapters /\ Service!Conclude(a)
<1>1. TypeOK /\ SlotIsUsed
  BY DEF ProbesInv
<1>2. /\ inbox # <<>> /\ Head(inbox).type = "probed"
      /\ answer' = [c \in Commands |->
                       IF c \notin Told(a) THEN answer[c]
                       ELSE IF Head(inbox).ok THEN "shown" ELSE "rejected"]
      /\ Release(a)
  BY DEF FinishProbe, Receive
<1>3. /\ Head(inbox) \in Messages
      /\ Head(inbox) = inbox[1] /\ 1 \in 1..Len(inbox)
  <2>1. inbox' = Tail(inbox) /\ inbox \in Seq(Messages)
    BY <1>1 DEF FinishProbe, Receive, TypeOK
  <2> QED
    BY <1>2, <2>1, Reading
<1>4. a \in Adapters
  BY <1>2, <1>3, MessageKinds
<1>5. HasResult(a)
  BY <1>2, <1>3 DEF IsResult, HasResult
<1>6. a \in running
  BY <1>1, <1>4, <1>5 DEF SlotIsUsed
<1>7. waiters \in [Adapters -> Seq(Commands)] /\ waiters' = [waiters EXCEPT ![a] = <<>>]
  BY <1>1, <1>2 DEF TypeOK, Release
<1>8. \A b \in Adapters \ {a} : Told(b)' = Told(b)
  BY <1>7 DEF Told
<1>9. Told(a)' = {}
  <2>1. waiters'[a] = <<>>
    BY <1>4, <1>7
  <2>2. Len(waiters'[a]) = 0
    BY <2>1
  <2> QED
    BY <2>2 DEF Told
<1>10. running \ {a} \subseteq running'
  BY <1>2, <1>6, ReleaseHandsOver
<1>11. Service!Reschedule({a})
  BY <1>10, Rescheduling
<1>12. [b \in Adapters |-> Told(b)]' =
          [[b \in Adapters |-> Told(b)] EXCEPT ![a] = {}]
  BY <1>4, <1>8, <1>9
<1>13. PICK result \in {"shown", "rejected"} :
          result = IF Head(inbox).ok THEN "shown" ELSE "rejected"
  OBVIOUS
<1>14. answer' = [c \in Commands |->
                    IF c \in [b \in Adapters |-> Told(b)][a] THEN result ELSE answer[c]]
  BY <1>2, <1>4, <1>13
<1> QED
  BY <1>4, <1>6, <1>11, <1>12, <1>14 DEF Service!Conclude

\* The scheduler implements the abstract probe service.
THEOREM Implements == Spec => ServiceSpec
<1>1. Init => Service!Init
  <2> SUFFICES ASSUME Init PROVE Service!Init
    OBVIOUS
  <2>1. \A a \in Adapters : Told(a) = {}
    BY DEF Init, Told
  <2> QED
    BY <2>1 DEF Init, Service!Init
<1>2. ASSUME ProbesInv, ProbesInv', [Next]_vars
      PROVE  [Service!Next]_(Service!vars)
  <2>1. CASE UNCHANGED <<waiters, running, answer>>
    BY <2>1 DEF Service!vars, Told
  <2>2. CASE RefuseProbe
    <3> DEFINE c == Head(inbox).command
    <3>1. /\ inbox # <<>> /\ inbox' = Tail(inbox) /\ Head(inbox).type = "probe"
          /\ answer' = [answer EXCEPT ![c] = "refused"]
          /\ UNCHANGED <<waiters, running>>
      BY <2>2 DEF RefuseProbe, Receive
    <3>2. Head(inbox) \in Messages /\ Head(inbox) = inbox[1] /\ 1 \in 1..Len(inbox)
      BY <1>2, <3>1, Reading DEF ProbesInv, TypeOK
    <3>3. c \in Commands /\ answer[c] = "none"
      BY <1>2, <3>1, <3>2, MessageKinds DEF ProbesInv, UnreadIsUnanswered
    <3>4. [b \in Adapters |-> Told(b)]' = [b \in Adapters |-> Told(b)]
      BY <3>1 DEF Told
    <3>5. Service!Refuse(c)
      BY <3>1, <3>3, <3>4 DEF Service!Refuse
    <3> QED
      BY <3>3, <3>5 DEF Service!Next
  <2>3. CASE AcceptProbe
    <3>1. PICK a, c : a = Head(inbox).adapter /\ c = Head(inbox).command
      OBVIOUS
    <3>2. Service!Accept(c, a)
      BY <1>2, <2>3, <3>1, AcceptRefines
    <3>3. a \in Adapters /\ c \in Commands
      <4>1. inbox # <<>> /\ inbox' = Tail(inbox) /\ Head(inbox).type = "probe"
        BY <2>3 DEF AcceptProbe, Receive
      <4> QED
        BY <1>2, <3>1, <4>1, Reading, MessageKinds DEF ProbesInv, TypeOK
    <3> QED
      BY <3>2, <3>3 DEF Service!Next
  <2>4. CASE FinishProbe
    <3>1. PICK a : a = Head(inbox).adapter
      OBVIOUS
    <3>2. a \in Adapters /\ Service!Conclude(a)
      BY <1>2, <2>4, <3>1, FinishRefines
    <3> QED
      BY <3>2 DEF Service!Next
  <2> QED
    BY <1>2, <2>1, <2>2, <2>3, <2>4
       DEF Next, WorkerStep, Send, SendShutdown, Handshake, Stop, vars
<1> QED
  BY <1>1, <1>2, ProbesInvariance, PTL DEF Spec, ServiceSpec, Service!Spec

-----------------------------------------------------------------------------
\* First come, first served.

\* Every command in the books was accepted, once.
BooksAreAccepted ==
    /\ \A i, j \in 1..Len(accepted) : accepted[i] = accepted[j] => i = j
    /\ \A i \in 1..Len(accepted) : answer[accepted[i]] # "none"
    /\ \A a \in Adapters : waiters[a] # <<>> =>
          \E i \in 1..Len(accepted) : accepted[i] = waiters[a][1]

ArrivalInv == ProbesInv /\ BooksAreAccepted /\ ArrivalOrder

\* Since is the place of the adapter's oldest command in the order of
\* acceptance.
LEMMA SincePlace ==
    ASSUME BooksAreAccepted, NEW a \in Adapters, NEW i \in 1..Len(accepted),
           accepted[i] = waiters[a][1]
    PROVE  Since(a) = i
<1>1. /\ Since(a) \in 1..Len(accepted)
      /\ accepted[Since(a)] = waiters[a][1]
  BY DEF Since
<1> QED
  BY <1>1 DEF BooksAreAccepted

LEMMA SinceKnown ==
    ASSUME BooksAreAccepted, NEW a \in Adapters, waiters[a] # <<>>
    PROVE  Since(a) \in 1..Len(accepted) /\ accepted[Since(a)] = waiters[a][1]
<1>1. PICK i \in 1..Len(accepted) : accepted[i] = waiters[a][1]
  BY DEF BooksAreAccepted
<1> QED
  BY <1>1, SincePlace

\* Steps that accept nothing and finish nothing.
LEMMA ArrivalQuiet ==
    ASSUME ProbesInv, BooksAreAccepted, ArrivalOrder,
           UNCHANGED <<waiters, running, queued, accepted>>,
           answer' \in [Commands -> Answers],
           \A c \in Commands : answer[c] # "none" => answer'[c] # "none"
    PROVE  BooksAreAccepted' /\ ArrivalOrder'
<1>1. \A a \in Adapters : Since(a)' = Since(a)
  BY DEF Since
<1>2. InQueue' = InQueue /\ InQueue \subseteq Adapters /\ running \subseteq Adapters
  BY DEF InQueue, ProbesInv, TypeOK
<1>3. ArrivalOrder'
  BY <1>1, <1>2 DEF ArrivalOrder, ProbesInv, TypeOK
<1>4. \A i \in 1..Len(accepted) : accepted[i] \in Commands
  BY DEF ProbesInv, TypeOK
<1>5. BooksAreAccepted'
  BY <1>4 DEF BooksAreAccepted
<1> QED
  BY <1>3, <1>5

LEMMA ArrivalAccept ==
    ASSUME ProbesInv, BooksAreAccepted, ArrivalOrder, AcceptProbe, NEW a, NEW c,
           a = Head(inbox).adapter, c = Head(inbox).command
    PROVE  BooksAreAccepted' /\ ArrivalOrder'
<1>1. TypeOK /\ UnreadIsUnanswered /\ Scheduled /\ NoIdleSlot
  BY DEF ProbesInv
<1>2. /\ inbox # <<>> /\ inbox' = Tail(inbox) /\ Head(inbox).type = "probe"
      /\ answer' = [answer EXCEPT ![c] = "accepted"]
      /\ accepted' = Append(accepted, c)
      /\ Admit(a, c)
  BY DEF AcceptProbe, Receive
<1>3. Head(inbox) \in Messages /\ Head(inbox) = inbox[1] /\ 1 \in 1..Len(inbox)
  BY <1>1, <1>2, Reading DEF TypeOK
<1>4. c \in Commands /\ a \in Adapters /\ answer[c] = "none"
  BY <1>1, <1>2, <1>3, MessageKinds DEF UnreadIsUnanswered
<1>5. /\ Len(accepted') = Len(accepted) + 1 /\ Len(accepted) \in Nat
      /\ accepted'[Len(accepted) + 1] = c
      /\ \A i \in 1..Len(accepted) : accepted'[i] = accepted[i] /\ accepted[i] \in Commands
  BY <1>1, <1>2, <1>4 DEF TypeOK
<1>6. \A i \in 1..Len(accepted') : i \in 1..Len(accepted) \/ i = Len(accepted) + 1
  BY <1>5
<1>7. \A i \in 1..Len(accepted) : accepted[i] # c /\ i \in 1..Len(accepted')
  BY <1>4, <1>5 DEF BooksAreAccepted
<1>8. Len(accepted) + 1 \in 1..Len(accepted')
  BY <1>5
<1>9. /\ waiters \in [Adapters -> Seq(Commands)] /\ waiters[a] \in Seq(Commands)
      /\ waiters' = [waiters EXCEPT ![a] = Append(@, c)]
      /\ running \subseteq Adapters /\ queued \in Seq(Adapters) /\ Len(queued) \in Nat
  BY <1>1, <1>2, <1>4 DEF TypeOK, Admit
<1>10. /\ \A b \in Adapters \ {a} : waiters'[b] = waiters[b]
       /\ waiters[a] # <<>> => waiters'[a][1] = waiters[a][1]
       /\ waiters[a] = <<>> => waiters'[a][1] = c
       /\ waiters'[a] # <<>>
  <2>1. waiters'[a] = Append(waiters[a], c)
    BY <1>4, <1>9
  <2>2. \A b \in Adapters \ {a} : waiters'[b] = waiters[b]
    BY <1>9
  <2>3. ASSUME NEW old \in Seq(Commands), NEW new, new = Append(old, c)
        PROVE  /\ new # <<>>
               /\ old # <<>> => new[1] = old[1]
               /\ old = <<>> => new[1] = c
    <3>1. Len(old) \in Nat /\ Len(new) = Len(old) + 1 /\ new[Len(old) + 1] = c
      BY <1>4, <2>3
    <3>2. old # <<>> => Len(old) > 0
      BY <2>3
    <3>3. old # <<>> => new[1] = old[1]
      BY <2>3, <3>1, <3>2
    <3>4. old = <<>> => new[1] = c
      BY <3>1
    <3> QED
      BY <3>1, <3>3, <3>4
  <2> QED
    BY <1>9, <2>1, <2>2, <2>3
<1>11. BooksAreAccepted'
  <2>1. \A i, j \in 1..Len(accepted') : accepted'[i] = accepted'[j] => i = j
    BY <1>5, <1>6, <1>7 DEF BooksAreAccepted
  <2>2. \A i \in 1..Len(accepted') : answer'[accepted'[i]] # "none"
    <3>1. answer \in [Commands -> Answers]
      BY <1>1 DEF TypeOK
    <3> QED
      BY <1>2, <1>4, <1>5, <1>6, <3>1 DEF BooksAreAccepted
  <2>3. ASSUME NEW b \in Adapters, waiters'[b] # <<>>
        PROVE  \E i \in 1..Len(accepted') : accepted'[i] = waiters'[b][1]
    <3>1. CASE b = a /\ waiters[a] = <<>>
      BY <1>5, <1>8, <1>10, <3>1
    <3>2. CASE ~(b = a /\ waiters[a] = <<>>)
      <4>1. waiters[b] # <<>> /\ waiters'[b][1] = waiters[b][1]
        BY <1>10, <2>3, <3>2
      <4>2. PICK i \in 1..Len(accepted) : accepted[i] = waiters[b][1]
        BY <4>1 DEF BooksAreAccepted
      <4> QED
        BY <1>5, <1>7, <4>1, <4>2
    <3> QED
      BY <3>1, <3>2
  <2> QED
    BY <2>1, <2>2, <2>3 DEF BooksAreAccepted
<1>12. ASSUME NEW b \in Adapters, waiters[b] # <<>>
       PROVE  Since(b)' = Since(b) /\ Since(b) \in 1..Len(accepted)
  <2>1. Since(b) \in 1..Len(accepted) /\ accepted[Since(b)] = waiters[b][1]
    BY <1>12, SinceKnown
  <2>2. waiters'[b][1] = waiters[b][1]
    BY <1>10, <1>12
  <2>3. \E i \in 1..Len(accepted') : accepted'[i] = waiters'[b][1]
    BY <1>5, <1>7, <2>1, <2>2
  <2>4. Since(b)' \in 1..Len(accepted') /\ accepted'[Since(b)'] = waiters'[b][1]
    BY <2>3 DEF Since
  <2>5. Since(b) \in 1..Len(accepted') /\ accepted'[Since(b)] = waiters'[b][1]
    BY <1>5, <1>7, <2>1, <2>2
  <2> QED
    BY <1>11, <2>1, <2>4, <2>5 DEF BooksAreAccepted
<1>13. /\ \A b \in running \cup InQueue : b \in Adapters /\ waiters[b] # <<>>
       /\ \A i \in 1..Len(queued) : queued[i] \in InQueue
  <2>1. InQueue \subseteq Adapters
    BY <1>9 DEF InQueue
  <2> QED
    BY <1>1, <1>9, <2>1 DEF Scheduled, InQueue
<1>14. \A b \in running \cup InQueue :
          Since(b)' = Since(b) /\ Since(b) \in 1..Len(accepted)
  BY <1>12, <1>13
<1>15. CASE UNCHANGED <<running, queued>>
  <2>1. InQueue' = InQueue
    BY <1>15 DEF InQueue
  <2>2. ArrivalOrder'
    BY <1>13, <1>14, <1>15, <2>1 DEF ArrivalOrder
  <2> QED
    BY <1>11, <2>2
<1>16. CASE HasSlot(running) /\ UNCHANGED queued
  <2>1. queued = <<>>
    BY <1>1, <1>16 DEF NoIdleSlot
  <2>2. Len(queued') = 0
    BY <1>16, <2>1
  <2>3. InQueue' = {}
    BY <2>2 DEF InQueue
  <2>4. ArrivalOrder'
    BY <2>2, <2>3 DEF ArrivalOrder
  <2> QED
    BY <1>11, <2>4
<1>17. CASE ~Pending(a) /\ queued' = Enqueue(a) /\ UNCHANGED running
  <2>1. waiters[a] = <<>> /\ waiters'[a][1] = c
    BY <1>10, <1>17 DEF Pending
  <2>2. Since(a)' = Len(accepted) + 1
    <3>1. \E i \in 1..Len(accepted') : accepted'[i] = waiters'[a][1]
      BY <1>5, <1>8, <2>1
    <3>2. Since(a)' \in 1..Len(accepted') /\ accepted'[Since(a)'] = waiters'[a][1]
      BY <3>1 DEF Since
    <3> QED
      BY <1>5, <1>6, <1>7, <2>1, <3>2
  <2>3. /\ Len(queued') = Len(queued) + 1
        /\ queued'[Len(queued) + 1] = a
        /\ \A i \in 1..Len(queued) : queued'[i] = queued[i]
    BY <1>4, <1>9, <1>17 DEF Enqueue
  <2>4. \A i \in 1..Len(queued') : i \in 1..Len(queued) \/ i = Len(queued) + 1
    BY <1>9, <2>3
  <2>5. \A b \in InQueue' : b \in InQueue \/ b = a
    BY <2>3, <2>4 DEF InQueue
  <2>6. \A b \in running \cup InQueue : Since(b)' < Since(a)'
    BY <1>5, <1>14, <2>2
  <2>7. \A x \in running', b \in InQueue' : Since(x)' < Since(b)'
    BY <1>14, <1>17, <2>5, <2>6 DEF ArrivalOrder
  <2>8. ASSUME NEW i \in 1..Len(queued'), NEW j \in 1..Len(queued'), i < j,
               NEW b, NEW d, b = queued'[i], d = queued'[j]
        PROVE  Since(b)' < Since(d)'
    <3>1. i \in 1..Len(queued) /\ b = queued[i] /\ b \in InQueue
      BY <1>9, <1>13, <2>3, <2>4, <2>8
    <3>2. CASE j = Len(queued) + 1
      <4>1. d = a
        BY <2>3, <2>8, <3>2
      <4> QED
        BY <2>6, <3>1, <4>1
    <3>3. CASE j \in 1..Len(queued)
      <4>1. d = queued[j] /\ d \in InQueue
        BY <1>13, <2>3, <2>8, <3>3
      <4>2. Since(b) < Since(d)
        BY <2>8, <3>1, <3>3, <4>1 DEF ArrivalOrder
      <4> QED
        BY <1>14, <3>1, <4>1, <4>2
    <3> QED
      BY <2>4, <3>2, <3>3
  <2>9. \A i, j \in 1..Len(queued') :
           i < j => Since(queued[i])' < Since(queued[j])'
    BY <2>8 DEF Since
  <2> QED
    BY <1>11, <2>7, <2>9 DEF ArrivalOrder
<1> QED
  BY <1>2, <1>15, <1>16, <1>17 DEF Admit

\* A result hands the slot to the longest waiting adapter.
LEMMA ArrivalFinish ==
    ASSUME ProbesInv, BooksAreAccepted, ArrivalOrder, FinishProbe,
           NEW a, a = Head(inbox).adapter
    PROVE  BooksAreAccepted' /\ ArrivalOrder'
<1>1. TypeOK /\ SlotIsUsed /\ Scheduled
  BY DEF ProbesInv
<1>2. /\ inbox # <<>> /\ inbox' = Tail(inbox) /\ Head(inbox).type = "probed"
      /\ answer' = [c \in Commands |->
                       IF c \notin Told(a) THEN answer[c]
                       ELSE IF Head(inbox).ok THEN "shown" ELSE "rejected"]
      /\ Release(a)
      /\ UNCHANGED accepted
  BY DEF FinishProbe, Receive
<1>3. a \in running /\ a \in Adapters
  <2>1. Head(inbox) \in Messages /\ Head(inbox) = inbox[1] /\ 1 \in 1..Len(inbox)
    BY <1>1, <1>2, Reading DEF TypeOK
  <2>2. a \in Adapters
    BY <1>2, <2>1, MessageKinds
  <2>3. HasResult(a)
    BY <1>2, <2>1 DEF IsResult, HasResult
  <2> QED
    BY <1>1, <2>2, <2>3 DEF SlotIsUsed
<1>4. /\ waiters \in [Adapters -> Seq(Commands)] /\ running \subseteq Adapters
      /\ queued \in Seq(Adapters) /\ Len(queued) \in Nat
      /\ accepted \in Seq(Commands)
  BY <1>1 DEF TypeOK
<1>5. /\ waiters' = [waiters EXCEPT ![a] = <<>>]
      /\ \/ /\ queued = <<>>
            /\ queued' = <<>>
         \/ /\ queued # <<>>
            /\ Len(queued') = Len(queued) - 1
            /\ \A i \in 1..Len(queued') : queued'[i] = queued[i + 1]
            /\ running' = (running \ {a}) \cup {queued[1]}
  BY <1>2, <1>3, ReleaseHandsOver
<1>6. BooksAreAccepted'
  <2>1. \A b \in Adapters : waiters'[b] # <<>> => b # a /\ waiters'[b] = waiters[b]
    BY <1>3, <1>4, <1>5
  <2>2. \A i \in 1..Len(accepted) : accepted[i] \in Commands
    BY <1>4
  <2>3. \A c \in Commands : answer[c] # "none" => answer'[c] # "none"
    BY <1>2
  <2> QED
    BY <1>2, <2>1, <2>2, <2>3 DEF BooksAreAccepted
<1>7. \A b \in Adapters \ {a} : Since(b)' = Since(b)
  BY <1>2, <1>3, <1>4, <1>5 DEF Since
<1>8. a \notin InQueue /\ InQueue \subseteq Adapters
  BY <1>1, <1>3, <1>4 DEF Scheduled, InQueue
<1>9. CASE queued' = <<>>
  <2>1. Len(queued') = 0
    BY <1>9
  <2>2. InQueue' = {}
    BY <2>1 DEF InQueue
  <2> QED
    BY <1>6, <2>1, <2>2 DEF ArrivalOrder
<1>10. CASE /\ queued # <<>>
            /\ Len(queued') = Len(queued) - 1
            /\ \A i \in 1..Len(queued') : queued'[i] = queued[i + 1]
            /\ running' = (running \ {a}) \cup {queued[1]}
  <2>1. \A i \in 1..Len(queued') :
           i \in 1..Len(queued) /\ i + 1 \in 1..Len(queued) /\ 1 < i + 1
    BY <1>4, <1>10
  <2>2. 1 \in 1..Len(queued)
    BY <1>4, <1>10
  <2>3. \A i \in 1..Len(queued) : queued[i] \in InQueue /\ queued[i] \in Adapters \ {a}
    BY <1>4, <1>8 DEF InQueue
  <2>4. ASSUME NEW x \in running', NEW b \in InQueue'
        PROVE  Since(x)' < Since(b)'
    <3>1. PICK i \in 1..Len(queued') : b = queued[i + 1]
      BY <1>10, <2>4 DEF InQueue
    <3>2. b \in InQueue /\ b \in Adapters \ {a}
      BY <2>1, <2>3, <3>1
    <3>3. x \in Adapters \ {a} /\ (x \in running \/ x = queued[1])
      BY <1>4, <1>10, <2>2, <2>3, <2>4
    <3>4. Since(x) < Since(b)
      BY <2>1, <2>2, <3>1, <3>2, <3>3 DEF ArrivalOrder
    <3> QED
      BY <1>7, <3>2, <3>3, <3>4
  <2>5. ASSUME NEW i \in 1..Len(queued'), NEW j \in 1..Len(queued'), i < j,
               NEW b, NEW d, b = queued'[i], d = queued'[j]
        PROVE  Since(b)' < Since(d)'
    <3>1. /\ b = queued[i + 1] /\ d = queued[j + 1]
          /\ i + 1 \in 1..Len(queued) /\ j + 1 \in 1..Len(queued) /\ i + 1 < j + 1
      BY <1>10, <2>1, <2>5
    <3>2. Since(b) < Since(d)
      BY <3>1 DEF ArrivalOrder
    <3>3. b \in Adapters \ {a} /\ d \in Adapters \ {a}
      BY <2>3, <3>1
    <3> QED
      BY <1>7, <3>2, <3>3
  <2>6. \A i, j \in 1..Len(queued') :
           i < j => Since(queued[i])' < Since(queued[j])'
    BY <2>5 DEF Since
  <2> QED
    BY <1>6, <2>4, <2>6 DEF ArrivalOrder
<1> QED
  BY <1>5, <1>9, <1>10

LEMMA ArrivalInit == Init => ArrivalInv
<1> SUFFICES ASSUME Init PROVE ArrivalInv
  OBVIOUS
<1>1. ProbesInv
  BY ProbesInit
<1>2. /\ Len(accepted) = 0 /\ Len(queued) = 0 /\ running = {}
      /\ \A a \in Adapters : waiters[a] = <<>>
  BY DEF Init
<1>3. BooksAreAccepted
  BY <1>2 DEF BooksAreAccepted
<1>4. ArrivalOrder
  BY <1>2 DEF ArrivalOrder
<1> QED
  BY <1>1, <1>3, <1>4 DEF ArrivalInv

LEMMA ArrivalStep == ArrivalInv /\ [Next]_vars => ArrivalInv'
<1> SUFFICES ASSUME ArrivalInv, [Next]_vars PROVE ArrivalInv'
  OBVIOUS
<1>1. ProbesInv /\ BooksAreAccepted /\ ArrivalOrder /\ answer \in [Commands -> Answers]
  BY DEF ArrivalInv, ProbesInv, TypeOK
<1>2. ProbesInv'
  BY <1>1, ProbesStep
<1>3. CASE AcceptProbe
  <2>1. PICK a, c : a = Head(inbox).adapter /\ c = Head(inbox).command
    OBVIOUS
  <2> QED
    BY <1>1, <1>2, <1>3, <2>1, ArrivalAccept DEF ArrivalInv
<1>4. CASE FinishProbe
  <2>1. PICK a : a = Head(inbox).adapter
    OBVIOUS
  <2> QED
    BY <1>1, <1>2, <1>4, <2>1, ArrivalFinish DEF ArrivalInv
<1>5. CASE RefuseProbe
  <2>1. answer' \in [Commands -> Answers]
    BY <1>2 DEF ProbesInv, TypeOK
  <2>2. \A c \in Commands : answer[c] # "none" => answer'[c] # "none"
    BY <1>1, <1>5 DEF RefuseProbe
  <2> QED
    BY <1>1, <1>2, <1>5, <2>1, <2>2, ArrivalQuiet DEF ArrivalInv, RefuseProbe
<1>6. CASE UNCHANGED <<waiters, running, queued, accepted, answer>>
  BY <1>1, <1>2, <1>6, ArrivalQuiet DEF ArrivalInv
<1> QED
  BY <1>3, <1>4, <1>5, <1>6
     DEF Next, WorkerStep, Send, SendShutdown, Handshake, Stop, vars

\* Adapters are served in the order in which they were first asked for.
THEOREM FirstComeFirstServed == Spec => []ArrivalOrder
<1>1. ArrivalInv => ArrivalOrder
  BY DEF ArrivalInv
<1> QED
  BY <1>1, ArrivalInit, ArrivalStep, PTL DEF Spec
=============================================================================

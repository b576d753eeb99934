----------------------- MODULE SupervisorControlProofs -----------------------
(***************************************************************************)
(* Approvals are judged by what the engine will be: the projection, which  *)
(* the client thread reads, and the engine with the controls still in the  *)
(* channel, which only the worker sees, are the same values.  Both are     *)
(* folds, one over the submitted commands and one over the channel, and    *)
(* what relates them is the order of the epochs in the two.                *)
(***************************************************************************)
EXTENDS SupervisorProofs, WellFoundedInduction

-----------------------------------------------------------------------------
\* Folds over a sequence, as the recursive functions of the model.

\* A set of naturals with 0 that is closed under + 1 up to n holds 0..n.
LEMMA CountingUp ==
    ASSUME NEW n \in Nat, NEW T, 0 \in T, \A k \in T : k \in Nat /\ k < n => k + 1 \in T
    PROVE  \A k \in 0..n : k \in T
<1> DEFINE missing == {k \in 0..n : k \notin T}
<1> SUFFICES missing = {}
  OBVIOUS
<1>1. CASE missing # {}
  <2>1. missing \subseteq Nat
    OBVIOUS
  <2>2. PICK k \in missing : \A l \in missing : ~(<<l, k>> \in OpToRel(<, Nat))
    BY <1>1, <2>1, WFMin, NatLessThanWellFounded
  <2>3. \A l \in missing : ~(l < k)
    BY <2>1, <2>2 DEF OpToRel
  <2>4. k - 1 \in 0..n /\ k - 1 < k /\ k - 1 < n
    OBVIOUS
  <2>5. k - 1 \in T
    BY <2>3, <2>4
  <2>6. (k - 1) + 1 = k
    OBVIOUS
  <2>7. (k - 1) + 1 \in T
    BY <2>4, <2>5
  <2> QED
    BY <2>6, <2>7
<1> QED
  BY <1>1

Steps(F, X, S)  == F \in [X \X S -> X]
IsFold(f, F, s, x) == f[0] = x /\ \A n \in 1..Len(s) : f[n] = F[<<f[n - 1], s[n]>>]

\* Every sequence has a fold.
LEMMA FoldExists ==
    ASSUME NEW X, NEW S, NEW F, Steps(F, X, S), NEW s \in Seq(S), NEW x \in X
    PROVE  \E f \in [0..Len(s) -> X] : IsFold(f, F, s, x)
<1> USE DEF Steps, IsFold
<1> DEFINE Upto(k, f) == f[0] = x /\ \A n \in 1..k : f[n] = F[<<f[n - 1], s[n]>>]
           T == {k \in Nat : k <= Len(s) => \E f \in [0..k -> X] : Upto(k, f)}
<1>1. Len(s) \in Nat
  OBVIOUS
<1>2. 0 \in T
  <2>1. [n \in 0..0 |-> x] \in [0..0 -> X] /\ Upto(0, [n \in 0..0 |-> x])
    OBVIOUS
  <2> QED
    BY <2>1
<1>3. ASSUME NEW k \in T, k \in Nat, k < Len(s)
      PROVE  k + 1 \in T
  <2>1. PICK f \in [0..k -> X] : Upto(k, f)
    BY <1>1, <1>3
  <2>2. k + 1 \in 1..Len(s) /\ s[k + 1] \in S /\ f[k] \in X
    BY <1>1, <1>3, <2>1
  <2>3. PICK y \in X : y = F[<<f[k], s[k + 1]>>]
    BY <2>2
  <2> DEFINE g == [n \in 0..(k + 1) |-> IF n = k + 1 THEN y ELSE f[n]]
  <2>4. g \in [0..(k + 1) -> X]
    BY <1>3, <2>1, <2>3
  <2>5. \A n \in 0..k : g[n] = f[n] /\ n # k + 1
    BY <1>3
  <2>6. g[k + 1] = y
    BY <1>3
  <2> HIDE DEF g
  <2>7. g[0] = x
    BY <1>3, <2>1, <2>5
  <2>8. \A n \in 1..(k + 1) : g[n] = F[<<g[n - 1], s[n]>>]
    <3>1. TAKE n \in 1..(k + 1)
    <3>2. CASE n = k + 1
      <4>1. g[n - 1] = f[k]
        BY <1>3, <2>5, <3>2
      <4> QED
        BY <2>3, <2>6, <3>2, <4>1
    <3>3. CASE n # k + 1
      <4>1. n \in 1..k /\ n \in 0..k /\ n - 1 \in 0..k
        BY <1>3, <3>3
      <4> QED
        BY <2>1, <2>5, <4>1
    <3> QED
      BY <3>2, <3>3
  <2> QED
    BY <1>3, <2>4, <2>7, <2>8, SMTT(30)
<1> HIDE DEF T
<1>4. Len(s) \in T
  BY <1>1, <1>2, <1>3, CountingUp
<1> QED
  BY <1>1, <1>4 DEF T

\* There is one fold only.
LEMMA FoldIsOne ==
    ASSUME NEW n \in Nat, NEW f, NEW g, f[0] = g[0],
           \A k \in 1..n : f[k - 1] = g[k - 1] => f[k] = g[k]
    PROVE  \A k \in 0..n : f[k] = g[k]
<1> DEFINE T == {k \in 0..n : f[k] = g[k]}
<1>1. 0 \in T
  OBVIOUS
<1>2. ASSUME NEW k \in T, k \in Nat, k < n
      PROVE  k + 1 \in T
  <2>1. k + 1 \in 1..n /\ (k + 1) - 1 = k
    BY <1>2
  <2> QED
    BY <1>2, <2>1
<1> HIDE DEF T
<1>3. \A k \in 0..n : k \in T
  BY <1>1, <1>2, CountingUp
<1> QED
  BY <1>3 DEF T

\* The projection is the last value of the fold over what was submitted.
LEMMA ProjectedIs ==
    ASSUME NEW n \in Nat, n = Len(control.submitted),
           NEW f, f = [k \in 0..n |-> f[k]], f[0] = control.applied,
           \A k \in 1..n : f[k] = Applied(f[k - 1], control.submitted[k].command)
    PROVE  Projected = f[n]
<1> DEFINE Fold(v) == [k \in 0..n |-> IF k = 0 THEN control.applied
                                      ELSE Applied(v[k - 1], control.submitted[k].command)]
<1>1. f = Fold(f)
  BY SMTT(30)
<1>2. PICK values : /\ values = CHOOSE v : v = Fold(v)
              /\ values = Fold(values)
  BY <1>1
<1>3. Projected = values[n]
  BY <1>2 DEF Projected
<1>4. /\ values[0] = f[0]
      /\ \A k \in 1..n :
            values[k] = Applied(values[k - 1], control.submitted[k].command)
  BY <1>2, SMTT(30)
<1>5. \A k \in 1..n : values[k - 1] = f[k - 1] => values[k] = f[k]
  BY <1>4
<1>6. values[n] = f[n]
  <2> HIDE DEF Fold
  <2>1. \A k \in 0..n : values[k] = f[k]
    BY ONLY n \in Nat, <1>4, <1>5, FoldIsOne
  <2> QED
    BY <2>1
<1> QED
  BY <1>3, <1>6

\* So is what the engine will publish, over the channel.
LEMMA EngineProjectedIs ==
    ASSUME NEW n \in Nat, n = Len(inbox),
           NEW g, g = [k \in 0..n |-> g[k]], g[0] = engine,
           \A k \in 1..n : g[k] = IF inbox[k].type = "control"
                                    THEN EngineApplied(g[k - 1], inbox[k].command)
                                    ELSE g[k - 1]
    PROVE  EngineProjected = Published(g[n])
<1> DEFINE Fold(v) == [k \in 0..n |-> IF k = 0 THEN engine
                                      ELSE IF inbox[k].type = "control"
                                        THEN EngineApplied(v[k - 1], inbox[k].command)
                                      ELSE v[k - 1]]
<1>1. g = Fold(g)
  <2>1. \A k \in 0..n : k = 0 \/ k \in 1..n
    OBVIOUS
  <2>2. \A k \in 0..n : g[k] = IF k = 0 THEN engine
                                ELSE IF inbox[k].type = "control"
                                  THEN EngineApplied(g[k - 1], inbox[k].command)
                                ELSE g[k - 1]
    BY <2>1
  <2> QED
    BY <2>2
<1>2. PICK seen : /\ seen = CHOOSE v : v = Fold(v)
            /\ seen = Fold(seen)
  BY <1>1
<1>3. EngineProjected = Published(seen[n])
  BY <1>2 DEF EngineProjected
<1>4. /\ seen[0] = g[0]
      /\ \A k \in 1..n : seen[k] = IF inbox[k].type = "control"
                                     THEN EngineApplied(seen[k - 1], inbox[k].command)
                                     ELSE seen[k - 1]
  BY <1>2
<1>5. \A k \in 1..n : seen[k - 1] = g[k - 1] => seen[k] = g[k]
  BY <1>4
<1>6. seen[n] = g[n]
  <2> HIDE DEF Fold
  <2>1. \A k \in 0..n : seen[k] = g[k]
    BY ONLY n \in Nat, <1>4, <1>5, FoldIsOne
  <2> QED
    BY <2>1
<1> QED
  BY <1>3, <1>6

-----------------------------------------------------------------------------
\* The engine's rules are the supervisor's: what the engine publishes after a
\* control is what the supervisor's copy makes of what it published before.
LEMMA RulesAgree ==
    ASSUME NEW e \in EngineValues, NEW c \in ControlCommands
    PROVE  /\ Published(EngineApplied(e, c)) = Applied(Published(e), c)
           /\ EngineApplied(e, c) \in EngineValues
<1>1. /\ e.mode \in Modes /\ e.permission \in {"default", "accept_edits", "plan"}
      /\ EngineValues = [mode : Modes, permission : {"default", "accept_edits", "plan"}]
      /\ LevelOf["default"] = "ask" /\ LevelOf["accept_edits"] = "auto_edit"
      /\ LevelOf["plan"] = "readonly"
      /\ PermissionMode["ask"] = "default" /\ PermissionMode["auto_edit"] = "accept_edits"
      /\ PermissionMode["readonly"] = "plan"
  BY DEF EngineValues, LevelOf, PermissionMode
<1>2. CASE c.set = "mode"
  <2>1. c.to \in Modes
    BY <1>2 DEF ControlCommands, SetWorkMode, SetPermissionLevel
  <2> QED
    BY <1>1, <1>2, <2>1 DEF EngineApplied, EngineSetWorkMode, Applied, Published, Modes
<1>3. CASE c.set # "mode"
  <2>1. c.to \in {"ask", "auto_edit", "readonly"}
    BY <1>3 DEF ControlCommands, SetWorkMode, SetPermissionLevel, Levels
  <2> QED
    BY <1>1, <1>3, <2>1
       DEF EngineApplied, EngineSetPermissionMode, Applied, Published, Modes
<1> QED
  BY <1>2, <1>3

\* The order of the submissions s, and of the control messages in a channel q.
EpochsGrow(s) == \A k, l \in 1..Len(s) : k < l => s[k].epoch < s[l].epoch
IdsGrow(q) ==
    \A i, j \in 1..Len(q) :
       q[i].type = "control" /\ q[j].type = "control" /\ i < j => q[i].id < q[j].id

\* Message i of the channel carries submission k.
Carries(q, i, s, k) ==
    q[i].type = "control" /\ q[i].id = s[k].epoch /\ q[i].command = s[k].command

\* The channel has the submissions from d + 1 on, and no other control.
Announced(q, s, d) ==
    \A i \in 1..Len(q) : q[i].type = "control" => \E k \in (d + 1)..Len(s) : Carries(q, i, s, k)
Sent(q, s, d) ==
    \A k \in (d + 1)..Len(s) : \E i \in 1..Len(q) : Carries(q, i, s, k)

\* A fold over the submissions and one over the channel.
Folds(f, s) == \A k \in 1..Len(s) : f[k] = Applied(f[k - 1], s[k].command)
Sees(g, q)  ==
    \A i \in 1..Len(q) : g[i] = IF q[i].type = "control"
                                  THEN EngineApplied(g[i - 1], q[i].command)
                                  ELSE g[i - 1]

\* The first i messages of the channel are the submissions from d + 1 to k.
Cut(q, i, s, k, d) ==
    \A l \in (d + 1)..Len(s), j \in 1..Len(q) : Carries(q, j, s, l) => (j <= i <=> l <= k)

\* Once the epochs and the ids grow and each has its counterpart, a control
\* message that ends a cut is the last submission of the cut.
LEMMA CutEnds ==
    ASSUME NEW s \in Seq(Submissions), NEW q \in Seq(Messages), NEW d \in Nat, d <= Len(s),
           EpochsGrow(s), IdsGrow(q), Announced(q, s, d), Sent(q, s, d),
           NEW i \in Nat, i + 1 \in 1..Len(q), q[i + 1].type = "control",
           NEW k \in d..Len(s), Cut(q, i + 1, s, k, d)
    PROVE  k \in (d + 1)..Len(s) /\ Carries(q, i + 1, s, k) /\ Cut(q, i, s, k - 1, d)
<1>1. /\ Len(s) \in Nat /\ Len(q) \in Nat
      /\ \A n \in (d + 1)..Len(s) : n \in 1..Len(s)
      /\ \A n \in 1..Len(s) : s[n] \in Submissions
      /\ \A n \in 1..Len(q) : q[n] \in Messages
  OBVIOUS
<1>2. \A n \in 1..Len(s) : s[n].epoch \in Int
  BY <1>1, SupervisorBounds DEF Submissions
<1>3. PICK m \in (d + 1)..Len(s) : Carries(q, i + 1, s, m)
  BY DEF Announced
<1>4. m <= k
  BY ONLY <1>3, i \in Nat, i + 1 \in 1..Len(q), Cut(q, i + 1, s, k, d) DEF Cut
<1>5. m = k
  <2>1. CASE m < k
    <3>1. k \in (d + 1)..Len(s)
      BY <1>1, <2>1
    <3>2. PICK j \in 1..Len(q) : Carries(q, j, s, k)
      BY <3>1 DEF Sent
    <3>3. j <= i + 1
      BY ONLY <3>1, <3>2, d \in Nat, Len(s) \in Nat, <1>1, Cut(q, i + 1, s, k, d) DEF Cut
    <3>4. s[m].epoch < s[k].epoch
      BY ONLY <1>1, <1>3, <2>1, <3>1, EpochsGrow(s) DEF EpochsGrow
    <3>5. s[m].epoch = q[i + 1].id /\ s[k].epoch = q[j].id /\ q[j].type = "control"
      BY <1>3, <3>2 DEF Carries
    <3>6. s[m].epoch \in Int /\ s[k].epoch \in Int
      BY <1>1, <1>2, <1>3, <3>1
    <3>7. CASE j = i + 1
      BY ONLY <3>4, <3>5, <3>6, <3>7
    <3>8. CASE j < i + 1
      <4>1. q[j].id < q[i + 1].id
        BY ONLY <3>2, <3>5, <3>8, IdsGrow(q), i + 1 \in 1..Len(q), q[i + 1].type = "control"
           DEF IdsGrow
      <4> QED
        BY ONLY <3>4, <3>5, <3>6, <4>1
    <3> QED
      BY ONLY <3>3, <3>7, <3>8, i \in Nat, j \in 1..Len(q)
  <2> QED
    BY ONLY <1>1, <1>4, <2>1, k \in d..Len(s), d \in Nat, m \in (d + 1)..Len(s)
<1>6. k \in (d + 1)..Len(s)
  BY <1>5
<1>7. \A l \in (d + 1)..Len(s) : s[l].epoch = s[k].epoch => l = k
  <2> TAKE l \in (d + 1)..Len(s)
  <2>1. s[l].epoch \in Int /\ s[k].epoch \in Int /\ l \in 1..Len(s) /\ k \in 1..Len(s)
    BY <1>1, <1>2, <1>6
  <2>2. l < k => s[l].epoch < s[k].epoch
    BY ONLY <2>1, EpochsGrow(s) DEF EpochsGrow
  <2>3. k < l => s[k].epoch < s[l].epoch
    BY ONLY <2>1, EpochsGrow(s) DEF EpochsGrow
  <2> QED
    BY ONLY <1>1, <2>1, <2>2, <2>3
<1>8. \A j \in 1..Len(q) : q[j].type = "control" /\ q[j].id = s[k].epoch => j = i + 1
  <2> SUFFICES ASSUME NEW j \in 1..Len(q), q[j].type = "control", q[j].id = s[k].epoch
               PROVE  j = i + 1
    OBVIOUS
  <2>1. q[i + 1].id = s[k].epoch /\ s[k].epoch \in Int
    BY <1>1, <1>2, <1>3, <1>5 DEF Carries
  <2>2. j < i + 1 => q[j].id < q[i + 1].id
    BY DEF IdsGrow
  <2>3. i + 1 < j => q[i + 1].id < q[j].id
    BY DEF IdsGrow
  <2> QED
    BY ONLY <1>1, <2>1, <2>2, <2>3, i \in Nat, j \in 1..Len(q), q[j].id = s[k].epoch
<1>9. Cut(q, i, s, k - 1, d)
  <2> SUFFICES ASSUME NEW l \in (d + 1)..Len(s), NEW j \in 1..Len(q), Carries(q, j, s, l)
               PROVE  j <= i <=> l <= k - 1
    BY DEF Cut
  <2>1. j <= i + 1 <=> l <= k
    BY ONLY Cut(q, i + 1, s, k, d), Carries(q, j, s, l), l \in (d + 1)..Len(s), j \in 1..Len(q)
       DEF Cut
  <2>2. q[j].type = "control" /\ q[j].id = s[l].epoch
    BY ONLY Carries(q, j, s, l) DEF Carries
  <2>3. j = i + 1 => l = k
    <3>1. q[i + 1].id = s[k].epoch
      BY <1>3, <1>5 DEF Carries
    <3> QED
      BY ONLY <1>7, <2>2, <3>1, l \in (d + 1)..Len(s)
  <2>4. l = k => j = i + 1
    BY ONLY <1>8, <2>2, j \in 1..Len(q)
  <2> QED
    BY ONLY <1>1, <2>1, <2>3, <2>4, i \in Nat, d \in Nat, k \in d..Len(s),
            l \in (d + 1)..Len(s), j \in 1..Len(q)
<1> QED
  BY <1>3, <1>5, <1>6, <1>9

\* So the two folds, equal where both begin, are equal at the end.
LEMMA SameFold ==
    ASSUME NEW s \in Seq(Submissions), NEW q \in Seq(Messages), NEW d \in Nat, d <= Len(s),
           NEW f, NEW g \in [0..Len(q) -> EngineValues], f[d] = Published(g[0]),
           Folds(f, s), Sees(g, q),
           EpochsGrow(s), IdsGrow(q), Announced(q, s, d), Sent(q, s, d)
    PROVE  f[Len(s)] = Published(g[Len(q)])
<1> DEFINE T == {i \in 0..Len(q) :
                    \A k \in d..Len(s) : Cut(q, i, s, k, d) => f[k] = Published(g[i])}
<1>1. /\ Len(s) \in Nat /\ Len(q) \in Nat
      /\ \A k \in (d + 1)..Len(s) : k \in 1..Len(s)
      /\ \A k \in 1..Len(s) : s[k] \in Submissions
  OBVIOUS
<1>2. \A k \in 1..Len(s) : s[k].command \in ControlCommands
  BY <1>1 DEF Submissions
<1>3. 0 \in T
  <2>1. SUFFICES ASSUME NEW k \in d..Len(s), Cut(q, 0, s, k, d) PROVE k = d
    BY <1>1
  <2>2. CASE k # d
    <3>1. k \in (d + 1)..Len(s)
      BY <1>1, <2>2
    <3>2. PICK j \in 1..Len(q) : Carries(q, j, s, k)
      BY <3>1 DEF Sent
    <3>3. j <= 0
      BY ONLY <1>1, <3>1, <3>2, d \in Nat, Cut(q, 0, s, k, d) DEF Cut
    <3> QED
      BY ONLY <3>2, <3>3
  <2> QED
    BY <2>2
<1>4. ASSUME NEW i \in T, i \in Nat, i < Len(q)
      PROVE  i + 1 \in T
  <2>1. i + 1 \in 1..Len(q) /\ i + 1 \in 0..Len(q) /\ (i + 1) - 1 = i
    BY <1>1, <1>4
  <2>2. SUFFICES ASSUME NEW k \in d..Len(s), Cut(q, i + 1, s, k, d)
                 PROVE  f[k] = Published(g[i + 1])
    BY <2>1
  <2>3. CASE q[i + 1].type # "control"
    <3>1. Cut(q, i, s, k, d)
      <4> SUFFICES ASSUME NEW l \in (d + 1)..Len(s), NEW j \in 1..Len(q), Carries(q, j, s, l)
                   PROVE  j <= i <=> l <= k
        BY DEF Cut
      <4>1. j # i + 1
        BY <2>3 DEF Carries
      <4>2. j <= i + 1 <=> l <= k
        BY ONLY <2>2, Carries(q, j, s, l), l \in (d + 1)..Len(s), j \in 1..Len(q) DEF Cut
      <4> QED
        BY ONLY <1>1, <4>1, <4>2, i \in Nat, j \in 1..Len(q)
    <3>2. g[i + 1] = g[i]
      BY <2>1, <2>3 DEF Sees
    <3> QED
      BY <3>1, <3>2
  <2>4. CASE q[i + 1].type = "control"
    <3>1. k \in (d + 1)..Len(s) /\ Carries(q, i + 1, s, k) /\ Cut(q, i, s, k - 1, d)
      BY <1>4, <2>1, <2>2, <2>4, CutEnds
    <3>2. k - 1 \in d..Len(s) /\ k \in 1..Len(s)
      BY ONLY <1>1, <3>1, d \in Nat
    <3>3. f[k - 1] = Published(g[i])
      BY <3>1, <3>2
    <3>4. f[k] = Applied(f[k - 1], s[k].command) /\ s[k].command \in ControlCommands
      BY <1>2, <3>2 DEF Folds
    <3>5. g[i + 1] = EngineApplied(g[i], q[i + 1].command) /\ q[i + 1].command = s[k].command
      BY <2>1, <2>4, <3>1 DEF Sees, Carries
    <3>6. g[i] \in EngineValues
      BY <1>1, <1>4
    <3> QED
      BY ONLY <3>3, <3>4, <3>5, <3>6, RulesAgree
  <2> QED
    BY <2>3, <2>4
<1>5. \A i \in T : i \in Nat /\ i < Len(q) => i + 1 \in T
  BY <1>4
<1> HIDE DEF T
<1>6. Len(q) \in T
  <2>1. \A i \in 0..Len(q) : i \in T
    BY ONLY <1>1, <1>3, <1>5, CountingUp
  <2> QED
    BY <1>1, <2>1
<1>7. Cut(q, Len(q), s, Len(s), d)
  BY ONLY <1>1, d \in Nat DEF Cut
<1>8. Len(s) \in d..Len(s)
  BY <1>1
<1> QED
  BY ONLY <1>6, <1>7, <1>8 DEF T

-----------------------------------------------------------------------------
\* How the channel and the submissions change.

\* Another message joins the channel.
LEMMA OtherSent ==
    ASSUME NEW s \in Seq(Submissions), NEW q \in Seq(Messages), NEW d \in Nat,
           NEW m, m.type # "control",
           IdsGrow(q), Announced(q, s, d), Sent(q, s, d)
    PROVE  IdsGrow(Append(q, m)) /\ Announced(Append(q, m), s, d) /\ Sent(Append(q, m), s, d)
<1> DEFINE r == Append(q, m)
<1>1. /\ Len(q) \in Nat /\ Len(r) = Len(q) + 1 /\ r[Len(q) + 1] = m
      /\ \A i \in 1..Len(q) : r[i] = q[i] /\ i \in 1..Len(r)
      /\ \A i \in 1..Len(r) : i \in 1..Len(q) \/ i = Len(q) + 1
  OBVIOUS
<1> HIDE DEF r
<1>2. \A i \in 1..Len(r) : r[i].type = "control" => i \in 1..Len(q) /\ r[i] = q[i]
  BY <1>1
<1>3. IdsGrow(r)
  BY <1>2 DEF IdsGrow
<1>4. Announced(r, s, d)
  BY <1>2 DEF Announced, Carries
<1>5. Sent(r, s, d)
  BY <1>1 DEF Sent, Carries
<1> QED
  BY <1>3, <1>4, <1>5 DEF r

\* The worker takes another message from it.
LEMMA OtherTaken ==
    ASSUME NEW s \in Seq(Submissions), NEW q \in Seq(Messages), NEW d \in Nat,
           q # <<>>, Head(q).type # "control",
           IdsGrow(q), Announced(q, s, d), Sent(q, s, d)
    PROVE  IdsGrow(Tail(q)) /\ Announced(Tail(q), s, d) /\ Sent(Tail(q), s, d)
<1> DEFINE r == Tail(q)
<1>1. /\ Len(q) \in Nat /\ Len(r) = Len(q) - 1 /\ Len(r) \in Nat /\ q[1].type # "control"
      /\ \A i \in 1..Len(r) : r[i] = q[i + 1] /\ i + 1 \in 1..Len(q)
      /\ \A i \in 1..Len(q) : i = 1 \/ (i - 1 \in 1..Len(r) /\ r[i - 1] = q[i])
  OBVIOUS
<1> HIDE DEF r
<1>2. IdsGrow(r)
  BY <1>1 DEF IdsGrow
<1>3. Announced(r, s, d)
  BY <1>1 DEF Announced, Carries
<1>4. Sent(r, s, d)
  <2> SUFFICES ASSUME NEW k \in (d + 1)..Len(s)
               PROVE  \E i \in 1..Len(r) : Carries(r, i, s, k)
    BY DEF Sent
  <2>1. PICK i \in 1..Len(q) : Carries(q, i, s, k)
    BY DEF Sent
  <2>2. i - 1 \in 1..Len(r) /\ r[i - 1] = q[i]
    BY <1>1, <2>1 DEF Carries
  <2>3. Carries(r, i - 1, s, k)
    BY <2>1, <2>2 DEF Carries
  <2> QED
    BY <2>2, <2>3
<1> QED
  BY <1>2, <1>3, <1>4 DEF r

\* A control is submitted and sent, with an epoch above all before it.
LEMMA ControlSent ==
    ASSUME NEW s \in Seq(Submissions), NEW q \in Seq(Messages), NEW d \in Nat, d <= Len(s),
           NEW e \in 1..MaxControls, NEW c \in ControlCommands,
           \A k \in 1..Len(s) : s[k].epoch < e,
           EpochsGrow(s), IdsGrow(q), Announced(q, s, d), Sent(q, s, d)
    PROVE  LET t == Append(s, [epoch |-> e, command |-> c])
               r == Append(q, ControlMessage(c, e))
           IN  EpochsGrow(t) /\ IdsGrow(r) /\ Announced(r, t, d) /\ Sent(r, t, d)
<1> DEFINE x == [epoch |-> e, command |-> c]
           m == ControlMessage(c, e)
           t == Append(s, x)
           r == Append(q, m)
<1>1. x.epoch = e /\ x.command = c /\ m.type = "control" /\ m.command = c /\ m.id = e
  BY DEF ControlMessage
<1> HIDE DEF x, m
<1>2. /\ Len(q) \in Nat /\ Len(r) = Len(q) + 1 /\ r[Len(q) + 1] = m
      /\ \A i \in 1..Len(q) : r[i] = q[i] /\ i \in 1..Len(r)
      /\ \A i \in 1..Len(r) : i \in 1..Len(q) \/ i = Len(q) + 1
  OBVIOUS
<1>3. /\ Len(s) \in Nat /\ Len(t) = Len(s) + 1 /\ t[Len(s) + 1] = x
      /\ \A i \in 1..Len(s) : t[i] = s[i] /\ i \in 1..Len(t)
      /\ \A i \in 1..Len(t) : i \in 1..Len(s) \/ i = Len(s) + 1
      /\ \A i \in (d + 1)..Len(s) : i \in 1..Len(s) /\ i \in (d + 1)..Len(t)
      /\ \A i \in (d + 1)..Len(t) : i \in (d + 1)..Len(s) \/ i = Len(s) + 1
      /\ Len(s) + 1 \in (d + 1)..Len(t)
  OBVIOUS
<1> HIDE DEF r, t
<1>4. EpochsGrow(t)
  BY <1>1, <1>3 DEF EpochsGrow
<1>5. \A i \in 1..Len(q) : q[i].type = "control" => q[i].id < e
  BY <1>3 DEF Announced, Carries
<1>6. IdsGrow(r)
  BY <1>1, <1>2, <1>5 DEF IdsGrow
<1>7. Announced(r, t, d)
  <2> SUFFICES ASSUME NEW i \in 1..Len(r), r[i].type = "control"
               PROVE  \E k \in (d + 1)..Len(t) : Carries(r, i, t, k)
    BY DEF Announced
  <2>1. CASE i = Len(q) + 1
    <3>1. Carries(r, i, t, Len(s) + 1)
      BY <1>1, <1>2, <1>3, <2>1 DEF Carries
    <3> QED
      BY <1>3, <3>1
  <2>2. CASE i \in 1..Len(q)
    <3>1. PICK k \in (d + 1)..Len(s) : Carries(q, i, s, k)
      BY <1>2, <2>2 DEF Announced
    <3>2. Carries(r, i, t, k)
      BY <1>2, <1>3, <2>2, <3>1 DEF Carries
    <3> QED
      BY <1>3, <3>1, <3>2
  <2> QED
    BY <1>2, <2>1, <2>2
<1>8. Sent(r, t, d)
  <2> SUFFICES ASSUME NEW k \in (d + 1)..Len(t)
               PROVE  \E i \in 1..Len(r) : Carries(r, i, t, k)
    BY DEF Sent
  <2>1. CASE k = Len(s) + 1
    <3>1. Carries(r, Len(q) + 1, t, k) /\ Len(q) + 1 \in 1..Len(r)
      BY <1>1, <1>2, <1>3, <2>1 DEF Carries
    <3> QED
      BY <3>1
  <2>2. CASE k \in (d + 1)..Len(s)
    <3>1. PICK i \in 1..Len(q) : Carries(q, i, s, k)
      BY <2>2 DEF Sent
    <3>2. Carries(r, i, t, k)
      BY <1>2, <1>3, <2>2, <3>1 DEF Carries
    <3> QED
      BY <1>2, <3>1, <3>2
  <2> QED
    BY <1>3, <2>1, <2>2
<1> QED
  BY <1>4, <1>6, <1>7, <1>8 DEF r, t, x, m

\* The control the worker takes is the oldest submission.
LEMMA ControlTaken ==
    ASSUME NEW s \in Seq(Submissions), NEW q \in Seq(Messages),
           q # <<>>, Head(q).type = "control",
           EpochsGrow(s), IdsGrow(q), Announced(q, s, 0), Sent(q, s, 0)
    PROVE  /\ s # <<>> /\ s[1].epoch = Head(q).id /\ s[1].command = Head(q).command
           /\ IdsGrow(Tail(q)) /\ Announced(Tail(q), s, 1) /\ Sent(Tail(q), s, 1)
<1> DEFINE r == Tail(q)
<1>1. /\ Len(q) \in Nat /\ Len(r) = Len(q) - 1 /\ Len(r) \in Nat /\ Head(q) = q[1]
      /\ 0 + 1 \in 1..Len(q)
      /\ \A i \in 1..Len(r) : r[i] = q[i + 1] /\ i + 1 \in 1..Len(q)
      /\ \A i \in 1..Len(q) : i = 1 \/ (i - 1 \in 1..Len(r) /\ r[i - 1] = q[i])
  OBVIOUS
<1>2. Len(s) \in Nat
  OBVIOUS
<1> HIDE DEF r
<1>3. \A k \in 1..Len(s) : s[k].epoch \in Int
  <2>1. \A k \in 1..Len(s) : s[k] \in Submissions
    OBVIOUS
  <2> QED
    BY <2>1, SupervisorBounds DEF Submissions
<1>4. PICK k \in 1..Len(s) : Carries(q, 1, s, k)
  BY <1>1 DEF Announced
<1>5. k = 1
  <2>1. CASE 1 < k
    <3>1. PICK j \in 1..Len(q) : Carries(q, j, s, 1)
      BY <1>2, <1>4 DEF Sent
    <3>2. s[1].epoch < s[k].epoch
      BY <1>2, <2>1 DEF EpochsGrow
    <3>3. q[j].id < q[1].id /\ q[1].id \in Int /\ q[j].id \in Int
      BY <1>2, <1>3, <1>4, <3>1, <3>2 DEF Carries
    <3>4. 1 < j
      BY <1>1, <3>3
    <3>5. q[1].id < q[j].id
      BY <1>1, <1>4, <3>1, <3>4 DEF IdsGrow, Carries
    <3> QED
      BY <3>3, <3>5
  <2> QED
    BY <1>2, <2>1
<1>6. IdsGrow(r)
  BY <1>1, SMTT(30) DEF IdsGrow
<1>7. Announced(r, s, 1)
  <2> SUFFICES ASSUME NEW i \in 1..Len(r), r[i].type = "control"
               PROVE  \E l \in (1 + 1)..Len(s) : Carries(r, i, s, l)
    BY DEF Announced
  <2>1. PICK l \in 1..Len(s) : Carries(q, i + 1, s, l)
    BY <1>1 DEF Announced
  <2>2. q[1].id < q[i + 1].id
    BY <1>1, <1>4 DEF IdsGrow, Carries
  <2>3. l # 1
    BY <1>2, <1>3, <1>4, <1>5, <2>1, <2>2 DEF Carries
  <2> QED
    BY <1>1, <1>2, <2>1, <2>3 DEF Carries
<1>8. Sent(r, s, 1)
  <2> SUFFICES ASSUME NEW l \in (1 + 1)..Len(s)
               PROVE  \E i \in 1..Len(r) : Carries(r, i, s, l)
    BY DEF Sent
  <2>1. PICK i \in 1..Len(q) : Carries(q, i, s, l)
    BY <1>2 DEF Sent
  <2>2. s[1].epoch < s[l].epoch /\ s[l].epoch \in Int
    BY <1>2, <1>3 DEF EpochsGrow
  <2>3. i # 1
    BY <1>2, <1>3, <1>4, <1>5, <2>1, <2>2 DEF Carries
  <2> QED
    BY <1>1, <2>1, <2>3 DEF Carries
<1> QED
  BY <1>1, <1>2, <1>4, <1>5, <1>6, <1>7, <1>8 DEF r, Carries

\* The oldest submission is settled.
LEMMA ControlSettled ==
    ASSUME NEW s \in Seq(Submissions), NEW q \in Seq(Messages), s # <<>>,
           EpochsGrow(s), Announced(q, s, 1), Sent(q, s, 1)
    PROVE  EpochsGrow(Tail(s)) /\ Announced(q, Tail(s), 0) /\ Sent(q, Tail(s), 0)
<1> DEFINE t == Tail(s)
<1>1. /\ Len(s) \in Nat /\ Len(t) = Len(s) - 1 /\ Len(t) \in Nat
      /\ \A k \in 1..Len(t) : t[k] = s[k + 1] /\ k + 1 \in 1..Len(s) /\ k + 1 \in (1 + 1)..Len(s)
      /\ \A k \in (1 + 1)..Len(s) : k - 1 \in 1..Len(t) /\ t[k - 1] = s[k]
  OBVIOUS
<1> HIDE DEF t
<1>2. EpochsGrow(t)
  <2> SUFFICES ASSUME NEW k \in 1..Len(t), NEW l \in 1..Len(t), k < l
               PROVE  t[k].epoch < t[l].epoch
    BY DEF EpochsGrow
  <2>1. k + 1 \in 1..Len(s) /\ l + 1 \in 1..Len(s) /\ k + 1 < l + 1
    BY <1>1
  <2>2. s[k + 1].epoch < s[l + 1].epoch
    BY <2>1 DEF EpochsGrow
  <2> QED
    BY <1>1, <2>2
<1>3. Announced(q, t, 0)
  <2> SUFFICES ASSUME NEW i \in 1..Len(q), q[i].type = "control"
               PROVE  \E k \in (0 + 1)..Len(t) : Carries(q, i, t, k)
    BY DEF Announced
  <2>1. PICK k \in (1 + 1)..Len(s) : Carries(q, i, s, k)
    BY DEF Announced
  <2>2. Carries(q, i, t, k - 1)
    BY <1>1, <2>1 DEF Carries
  <2> QED
    BY <1>1, <2>2
<1>4. Sent(q, t, 0)
  <2> SUFFICES ASSUME NEW k \in (0 + 1)..Len(t)
               PROVE  \E i \in 1..Len(q) : Carries(q, i, t, k)
    BY DEF Sent
  <2>1. t[k] = s[k + 1] /\ k + 1 \in (1 + 1)..Len(s)
    BY <1>1
  <2>2. PICK i \in 1..Len(q) : Carries(q, i, s, k + 1)
    BY <2>1 DEF Sent
  <2> QED
    BY <2>1, <2>2 DEF Carries
<1> QED
  BY <1>2, <1>3, <1>4 DEF t

\* A submission that is withdrawn and the oldest is the head.
LEMMA OldestWithdrawn ==
    ASSUME NEW s \in Seq(Submissions), s = control.submitted, s # <<>>, EpochsGrow(s)
    PROVE  WithoutEpoch(s[1].epoch) = Tail(s)
<1> DEFINE found == {i \in DOMAIN s : s[i].epoch = s[1].epoch}
<1>1. Len(s) \in Nat /\ DOMAIN s = 1..Len(s) /\ 1 \in 1..Len(s)
  OBVIOUS
<1>2. s[1].epoch \in Int
  <2>1. s[1] \in Submissions
    BY <1>1
  <2> QED
    BY <2>1, SupervisorBounds DEF Submissions
<1>3. \A i \in 1..Len(s) : i # 1 => s[1].epoch < s[i].epoch
  BY <1>1 DEF EpochsGrow
<1>4. found = {1}
  BY <1>1, <1>2, <1>3
<1>5. (CHOOSE i \in found : TRUE) = 1
  BY <1>4
<1>6. WithoutEpoch(s[1].epoch) = RemoveAt(s, 1)
  BY <1>4, <1>5 DEF WithoutEpoch
<1>7. RemoveAt(s, 1) = SubSeq(s, 1, 0) \o SubSeq(s, 2, Len(s))
  BY DEF RemoveAt
<1>8. SubSeq(s, 1, 0) = <<>> /\ SubSeq(s, 2, Len(s)) = Tail(s)
  BY <1>1
<1>9. Tail(s) \in Seq(Submissions)
  OBVIOUS
<1>10. <<>> \o Tail(s) = Tail(s)
  BY <1>9, ConcatEmptySeq
<1> QED
  BY ONLY <1>6, <1>7, <1>8, <1>10

-----------------------------------------------------------------------------
\* The inductive invariant.

Handling == At("commit") \/ At("reject")

\* The control in the worker's hands is the oldest submission; the others are
\* in the channel, in their order.
Begun == IF Handling THEN 1 ELSE 0

ControlsInOrder ==
    /\ EpochsGrow(control.submitted)
    /\ \A k \in 1..Len(control.submitted) : control.submitted[k].epoch <= control.nextEpoch
    /\ IdsGrow(inbox)
    /\ Announced(inbox, control.submitted, Begun)
    /\ Sent(inbox, control.submitted, Begun)
    /\ Handling => control.submitted # <<>> /\ control.submitted[1].epoch = worker.job

\* The applied values are the engine's, but for the control that took effect
\* and is to be committed.
InStep ==
    Published(engine) = IF At("commit")
                          THEN Applied(control.applied, control.submitted[1].command)
                          ELSE control.applied

ControlInv == SupervisorInv /\ ControlsInOrder /\ InStep

-----------------------------------------------------------------------------
\* What it says: the projection is exact.

LEMMA InvProjects == ControlInv => ProjectionIsExact
<1> SUFFICES ASSUME ControlInv, ~At("reject") PROVE Projected = EngineProjected
  BY DEF ProjectionIsExact
<1>1. PICK s : s = control.submitted
  OBVIOUS
<1>2. PICK q : q = inbox
  OBVIOUS
<1>3. PICK d : d = Begun
  OBVIOUS
<1>4. PICK v : v = control.applied
  OBVIOUS
<1>5. PICK e : e = engine
  OBVIOUS
<1>6. /\ s \in Seq(Submissions) /\ q \in Seq(Messages) /\ v \in Values /\ e \in EngineValues
      /\ Len(s) \in Nat /\ Len(q) \in Nat
      /\ \A k \in 1..Len(s) : s[k].command \in ControlCommands
  <2>1. s \in Seq(Submissions) /\ q \in Seq(Messages) /\ v \in Values /\ e \in EngineValues
    BY <1>1, <1>2, <1>4, <1>5 DEF ControlInv, SupervisorInv, Typed, PermissionControls
  <2>2. \A k \in 1..Len(s) : s[k] \in Submissions
    BY <2>1
  <2> QED
    BY <2>1, <2>2 DEF Submissions
<1>7. d \in Nat /\ d <= Len(s) /\ d \in {0, 1}
  BY <1>1, <1>3, <1>6 DEF ControlInv, ControlsInOrder, Begun
<1>8. \E f : /\ f = [k \in 0..Len(s) |-> f[k]] /\ f[0] = v
             /\ Folds(f, s)
  <2> DEFINE F == [p \in Values \X Submissions |-> Applied(p[1], p[2].command)]
  <2>1. Steps(F, Values, Submissions)
    BY AppliedTyped DEF Submissions, Steps
  <2>2. \A w \in Values, x \in Submissions : F[<<w, x>>] = Applied(w, x.command)
    OBVIOUS
  <2> HIDE DEF F
  <2>7. s \in Seq(Submissions) /\ v \in Values
    BY <1>6
  <2>3. PICK f \in [0..Len(s) -> Values] :
           IsFold(f, F, s, v)
    BY ONLY <2>1, <2>7, FoldExists
  <2>4. \A n \in 1..Len(s) : f[n - 1] \in Values /\ s[n] \in Submissions
    BY <1>6, <2>3
  <2>5. Folds(f, s)
    BY <2>2, <2>3, <2>4 DEF Folds, IsFold
  <2>6. f = [k \in 0..Len(s) |-> f[k]]
    BY <2>3
  <2> QED
    BY <2>3, <2>5, <2>6 DEF IsFold
<1>9. PICK f : f = [k \in 0..Len(s) |-> f[k]] /\ f[0] = v /\ Folds(f, s)
  BY <1>8
<1>10. \E g \in [0..Len(q) -> EngineValues] :
          /\ g = [k \in 0..Len(q) |-> g[k]] /\ g[0] = e
          /\ Sees(g, q)
  <2> DEFINE Told(w, x) == IF x.type = "control" THEN EngineApplied(w, x.command) ELSE w
             G == [p \in EngineValues \X Messages |-> Told(p[1], p[2])]
  <2>1. \A w \in EngineValues, x \in Messages : Told(w, x) \in EngineValues
    <3> TAKE w \in EngineValues, x \in Messages
    <3>1. x.type = "control" => x.command \in ControlCommands
      BY DEF Messages, JobTypes, NewTypes, ResumeTypes
    <3> QED
      BY <3>1, RulesAgree
  <2>2. \A w \in EngineValues, x \in Messages : G[<<w, x>>] = Told(w, x)
    OBVIOUS
  <2> HIDE DEF Told
  <2>3. Steps(G, EngineValues, Messages)
    BY <2>1 DEF Steps
  <2> HIDE DEF G
  <2>9. q \in Seq(Messages) /\ e \in EngineValues
    BY <1>6
  <2>4. PICK g \in [0..Len(q) -> EngineValues] :
           IsFold(g, G, q, e)
    BY ONLY <2>3, <2>9, FoldExists
  <2>5. \A n \in 1..Len(q) : g[n - 1] \in EngineValues /\ q[n] \in Messages
    BY <1>6, <2>4, SMTT(30)
  <2>6. \A n \in 1..Len(q) : g[n] = Told(g[n - 1], q[n])
    BY <2>2, <2>4, <2>5 DEF IsFold
  <2>7. Sees(g, q)
    BY <2>6 DEF Sees, Told
  <2>8. g = [k \in 0..Len(q) |-> g[k]]
    BY <2>4
  <2> QED
    BY <2>4, <2>7, <2>8 DEF IsFold
<1>11. PICK g \in [0..Len(q) -> EngineValues] :
          g = [k \in 0..Len(q) |-> g[k]] /\ g[0] = e /\ Sees(g, q)
  BY <1>10
<1>12. Projected = f[Len(s)]
  <2>1. \A k \in 1..Len(s) : f[k] = Applied(f[k - 1], control.submitted[k].command)
    BY <1>1, <1>9 DEF Folds
  <2> QED
    BY <1>1, <1>4, <1>6, <1>9, <2>1, ProjectedIs
<1>13. EngineProjected = Published(g[Len(q)])
  <2>1. \A k \in 1..Len(q) : g[k] = IF inbox[k].type = "control"
                                      THEN EngineApplied(g[k - 1], inbox[k].command)
                                      ELSE g[k - 1]
    BY <1>2, <1>11 DEF Sees
  <2> QED
    BY <1>2, <1>5, <1>6, <1>11, <2>1, EngineProjectedIs
<1>14. f[d] = Published(g[0])
  <2>1. CASE At("commit")
    <3>1. d = 1 /\ 1 \in 1..Len(s)
      BY <1>3, <1>6, <1>7, <2>1 DEF Begun, Handling
    <3>2. f[1] = Applied(f[0], s[1].command)
      BY ONLY <3>1, <1>9 DEF Folds
    <3> QED
      BY <1>1, <1>4, <1>5, <1>9, <1>11, <2>1, <3>1, <3>2 DEF ControlInv, InStep
  <2>2. CASE ~At("commit")
    <3>1. d = 0
      BY <1>3, <2>2 DEF Begun, Handling
    <3> QED
      BY <1>4, <1>5, <1>9, <1>11, <2>2, <3>1 DEF ControlInv, InStep
  <2> QED
    BY <2>1, <2>2
<1>15. EpochsGrow(s) /\ IdsGrow(q) /\ Announced(q, s, d) /\ Sent(q, s, d)
  BY <1>1, <1>2, <1>3 DEF ControlInv, ControlsInOrder
<1>16. f[Len(s)] = Published(g[Len(q)])
  BY ONLY <1>6, <1>7, <1>9, <1>11, <1>14, <1>15, SameFold, ZenonT(30)
<1> QED
  BY <1>12, <1>13, <1>16

-----------------------------------------------------------------------------
\* Steps that have nothing to do with controls.

\* The worker neither begins nor settles a control.
SameHands ==
    \/ UNCHANGED worker
    \/ /\ worker.pc \notin {"commit", "reject"}
       /\ worker'.pc \notin {"commit", "reject"}

SendsOther == \E m : m.type # "control" /\ Send(m)
TakesOther == inbox # <<>> /\ Head(inbox).type # "control" /\ inbox' = Tail(inbox)

TellsNothing ==
    /\ UNCHANGED <<control, engine>>
    /\ SameHands
    /\ UNCHANGED inbox \/ SendsOther \/ TakesOther

LEMMA TellsNothingPreserves ==
    ASSUME ControlInv, TellsNothing
    PROVE  ControlsInOrder' /\ InStep'
<1>1. /\ control' = control /\ engine' = engine
      /\ At("commit")' <=> At("commit")
      /\ At("reject")' <=> At("reject")
      /\ Handling' <=> Handling
      /\ Handling => worker'.job = worker.job
  BY DEF TellsNothing, SameHands, At, Handling
<1>2. InStep'
  BY <1>1 DEF ControlInv, InStep
<1>3. PICK s : s = control.submitted
  OBVIOUS
<1>4. PICK q : q = inbox
  OBVIOUS
<1>5. PICK d : d = Begun
  OBVIOUS
<1>6. /\ s \in Seq(Submissions) /\ q \in Seq(Messages) /\ d \in Nat
      /\ s = control'.submitted /\ d = Begun'
  BY <1>1, <1>3, <1>4, <1>5 DEF ControlInv, SupervisorInv, Typed, PermissionControls, Begun
<1>7. IdsGrow(q) /\ Announced(q, s, d) /\ Sent(q, s, d)
  BY <1>3, <1>4, <1>5 DEF ControlInv, ControlsInOrder
<1>8. PICK r : r = inbox'
  OBVIOUS
<1>9. IdsGrow(r) /\ Announced(r, s, d) /\ Sent(r, s, d)
  <2>1. CASE inbox' = inbox
    BY <1>4, <1>7, <1>8, <2>1
  <2>2. CASE SendsOther
    <3>1. PICK m : m.type # "control" /\ r = Append(q, m)
      BY <1>4, <1>8, <2>2 DEF SendsOther, Send
    <3> QED
      BY ONLY <1>6, <1>7, <3>1, OtherSent
  <2>3. CASE TakesOther
    <3>1. q # <<>> /\ Head(q).type # "control" /\ r = Tail(q)
      BY <1>4, <1>8, <2>3 DEF TakesOther
    <3> QED
      BY ONLY <1>6, <1>7, <3>1, OtherTaken
  <2> QED
    BY <2>1, <2>2, <2>3 DEF TellsNothing
<1>10. ControlsInOrder'
  BY <1>1, <1>3, <1>6, <1>8, <1>9 DEF ControlInv, ControlsInOrder
<1> QED
  BY <1>2, <1>10

LEMMA SubmitControlInOrder ==
    ASSUME ControlInv, NEW c \in Controls, SubmitControl(c)
    PROVE  ControlsInOrder' /\ InStep'
<1>1. PICK s : s = control.submitted
  OBVIOUS
<1>2. PICK q : q = inbox
  OBVIOUS
<1>3. PICK d : d = Begun
  OBVIOUS
<1>4. PICK e : e = control.nextEpoch + 1
  OBVIOUS
<1>5. /\ s \in Seq(Submissions) /\ q \in Seq(Messages) /\ d \in Nat /\ d <= Len(s)
      /\ d \in {0, 1} /\ Len(s) \in Nat
  <2>1. s \in Seq(Submissions) /\ q \in Seq(Messages)
    BY <1>1, <1>2 DEF ControlInv, SupervisorInv, Typed, PermissionControls
  <2> QED
    BY <1>1, <1>3, <2>1 DEF ControlInv, ControlsInOrder, Begun
<1>6. /\ control.nextEpoch \in Nat /\ e \in 1..MaxControls /\ c \in ControlCommands
      /\ \A k \in 1..Len(s) : s[k] \in Submissions
  BY <1>4, <1>5, Constants, ControlsAssumption
     DEF SubmitControl, ControlInv, SupervisorInv, Typed, PermissionControls
<1>7. \A k \in 1..Len(s) : s[k].epoch \in Int /\ s[k].epoch <= control.nextEpoch
  BY <1>1, <1>6, Constants DEF ControlInv, ControlsInOrder, Submissions
<1>8. \A k \in 1..Len(s) : s[k].epoch < e
  BY <1>4, <1>6, <1>7
<1>9. EpochsGrow(s) /\ IdsGrow(q) /\ Announced(q, s, d) /\ Sent(q, s, d)
  BY <1>1, <1>2, <1>3 DEF ControlInv, ControlsInOrder
<1>10. PICK t : t = Append(s, [epoch |-> e, command |-> c])
  OBVIOUS
<1>11. PICK r : r = Append(q, ControlMessage(c, e))
  OBVIOUS
<1>12. EpochsGrow(t) /\ IdsGrow(r) /\ Announced(r, t, d) /\ Sent(r, t, d)
  BY ONLY <1>5, <1>6, <1>8, <1>9, <1>10, <1>11, ControlSent
<1>13. /\ control'.submitted = t /\ control'.nextEpoch = e /\ control'.applied = control.applied
       /\ inbox' = r
  BY <1>1, <1>2, <1>4, <1>10, <1>11
     DEF SubmitControl, Reserve, Send, ControlInv, SupervisorInv, Typed, PermissionControls
<1>14. worker' = worker /\ engine' = engine /\ d = Begun'
  BY <1>3 DEF SubmitControl, workerLocal, Begun, Handling, At
<1>15. /\ Len(t) = Len(s) + 1 /\ t[Len(s) + 1].epoch = e
       /\ \A k \in 1..Len(s) : t[k] = s[k]
       /\ \A k \in 1..Len(t) : k \in 1..Len(s) \/ k = Len(s) + 1
       /\ t # <<>>
  BY <1>5, <1>10
<1>16. \A k \in 1..Len(t) : t[k].epoch <= e
  BY <1>6, <1>7, <1>8, <1>15
<1>17. Handling => s # <<>> /\ 1 \in 1..Len(s) /\ s[1].epoch = worker.job
  BY <1>1, <1>5 DEF ControlInv, ControlsInOrder
<1>18. Handling => t[1] = s[1]
  BY <1>15, <1>17
<1>19. ControlsInOrder'
  <2>1. Handling' => t # <<>> /\ t[1].epoch = worker'.job
    BY <1>14, <1>15, <1>17, <1>18 DEF Handling, At
  <2> QED
    BY <1>12, <1>13, <1>14, <1>16, <2>1 DEF ControlsInOrder
<1>20. InStep'
  BY <1>1, <1>13, <1>14, <1>18 DEF ControlInv, InStep, Handling, At
<1> QED
  BY <1>19, <1>20

LEMMA TakeControlInOrder ==
    ASSUME ControlInv, TakeControl
    PROVE  ControlsInOrder' /\ InStep'
<1>1. PICK s : s = control.submitted
  OBVIOUS
<1>2. PICK q : q = inbox
  OBVIOUS
<1>3. PICK m : m = Head(q)
  OBVIOUS
<1>4. /\ s \in Seq(Submissions) /\ q \in Seq(Messages) /\ q # <<>> /\ m.type = "control"
      /\ worker.pc = "idle" /\ inbox' = Tail(q) /\ control' = control
  BY <1>1, <1>2, <1>3
     DEF ControlInv, SupervisorInv, Typed, PermissionControls, TakeControl, Take, At
<1>5. EpochsGrow(s) /\ IdsGrow(q) /\ Announced(q, s, 0) /\ Sent(q, s, 0)
  BY <1>1, <1>2, <1>4 DEF ControlInv, ControlsInOrder, Begun, Handling, At
<1>6. PICK r : r = Tail(q)
  OBVIOUS
<1>7. /\ s # <<>> /\ s[1].epoch = m.id /\ s[1].command = m.command
      /\ IdsGrow(r) /\ Announced(r, s, 1) /\ Sent(r, s, 1)
  BY ONLY <1>3, <1>4, <1>5, <1>6, ControlTaken
<1>8. m \in Messages
  BY <1>3, <1>4
<1>9. m.id \in Nat /\ m.command \in ControlCommands
  BY <1>4, <1>8, Constants DEF Messages, JobTypes, NewTypes, ResumeTypes
<1>10. worker'.job = m.id /\ worker'.pc \in {"commit", "reject"}
  BY <1>2, <1>3 DEF TakeControl, Begin, Idle
<1>11. Handling' /\ Begun' = 1
  BY <1>10 DEF Handling, Begun, At
<1>12. ControlsInOrder'
  <2>1. /\ EpochsGrow(control'.submitted)
        /\ \A k \in 1..Len(control'.submitted) : control'.submitted[k].epoch <= control'.nextEpoch
    BY <1>4 DEF ControlInv, ControlsInOrder
  <2> QED
    BY <1>1, <1>4, <1>6, <1>7, <1>10, <1>11, <2>1 DEF ControlsInOrder
<1>13. Published(engine) = control.applied /\ engine \in EngineValues
  BY <1>4 DEF ControlInv, InStep, At, SupervisorInv, Typed
<1>14. \/ engine' = EngineApplied(engine, m.command) /\ worker'.pc = "commit"
       \/ engine' = engine /\ worker'.pc = "reject"
  BY <1>2, <1>3 DEF TakeControl, Begin, Idle
<1>15. PICK e : e = engine
  OBVIOUS
<1>16. Published(EngineApplied(e, m.command)) = Applied(Published(e), m.command)
  BY <1>9, <1>13, <1>15, RulesAgree
<1>17. InStep'
  BY <1>1, <1>4, <1>7, <1>13, <1>14, <1>15, <1>16 DEF InStep, At
<1> QED
  BY <1>12, <1>17

\* A control is settled: the oldest submission goes.
LEMMA SettleInOrder ==
    ASSUME ControlInv, Handling, NEW s, s = control.submitted,
           control'.submitted = Tail(s), control'.nextEpoch = control.nextEpoch,
           worker' = Idle, inbox' = inbox
    PROVE  ControlsInOrder'
<1>1. PICK q : q = inbox
  OBVIOUS
<1>2. /\ s \in Seq(Submissions) /\ q \in Seq(Messages) /\ s # <<>>
      /\ EpochsGrow(s) /\ IdsGrow(q) /\ Announced(q, s, 1) /\ Sent(q, s, 1)
  BY <1>1 DEF ControlInv, SupervisorInv, Typed, PermissionControls, ControlsInOrder, Begun
<1>3. PICK t : t = Tail(s)
  OBVIOUS
<1>4. EpochsGrow(t) /\ Announced(q, t, 0) /\ Sent(q, t, 0)
  BY ONLY <1>2, <1>3, ControlSettled
<1>5. ~Handling' /\ Begun' = 0
  BY Constants DEF Handling, Begun, At
<1>6. \A k \in 1..Len(t) : t[k] = s[k + 1] /\ k + 1 \in 1..Len(s)
  BY <1>2, <1>3
<1>7. \A k \in 1..Len(t) : t[k].epoch <= control.nextEpoch
  BY <1>6 DEF ControlInv, ControlsInOrder
<1> QED
  BY <1>1, <1>2, <1>3, <1>4, <1>5, <1>7 DEF ControlsInOrder

LEMMA CommitControlInOrder ==
    ASSUME ControlInv, CommitControl
    PROVE  ControlsInOrder' /\ InStep'
<1>1. PICK s : s = control.submitted
  OBVIOUS
<1>2. Handling /\ At("commit") /\ s \in Seq(Submissions) /\ s # <<>> /\ s[1].epoch = worker.job
  BY <1>1 DEF CommitControl, ControlInv, SupervisorInv, Typed, PermissionControls,
              ControlsInOrder, Handling
<1>3. Head(s) = s[1]
  BY <1>2
<1>4. Commit
  BY <1>1, <1>2, <1>3 DEF CommitControl, CanCommit
<1>5. /\ control'.submitted = Tail(s) /\ control'.nextEpoch = control.nextEpoch
      /\ control'.applied = Applied(control.applied, s[1].command)
  BY <1>1, <1>3, <1>4 DEF Commit, ControlInv, SupervisorInv, Typed, PermissionControls
<1>6. worker' = Idle /\ inbox' = inbox /\ engine' = engine
  BY DEF CommitControl
<1>7. ControlsInOrder'
  BY <1>1, <1>2, <1>5, <1>6, SettleInOrder
<1>8. InStep'
  BY <1>1, <1>2, <1>5, <1>6, Constants DEF ControlInv, InStep, At
<1> QED
  BY <1>7, <1>8

LEMMA RejectControlInOrder ==
    ASSUME ControlInv, RejectControl
    PROVE  ControlsInOrder' /\ InStep'
<1>1. PICK s : s = control.submitted
  OBVIOUS
<1>2. /\ Handling /\ ~At("commit") /\ s \in Seq(Submissions) /\ s # <<>>
      /\ s[1].epoch = worker.job /\ EpochsGrow(s)
  BY <1>1 DEF RejectControl, ControlInv, SupervisorInv, Typed, PermissionControls,
              ControlsInOrder, Handling, At
<1>3. WithoutEpoch(worker.job) = Tail(s)
  BY <1>1, <1>2, OldestWithdrawn
<1>4. /\ control'.submitted = Tail(s) /\ control'.nextEpoch = control.nextEpoch
      /\ control'.applied = control.applied
  BY <1>3 DEF RejectControl, Reject, ControlInv, SupervisorInv, Typed, PermissionControls
<1>5. worker' = Idle /\ inbox' = inbox /\ engine' = engine
  BY DEF RejectControl
<1>6. ControlsInOrder'
  BY <1>1, <1>2, <1>4, <1>5, SettleInOrder
<1>7. InStep'
  BY <1>2, <1>4, <1>5, Constants DEF ControlInv, InStep, At
<1> QED
  BY <1>6, <1>7

LEMMA ClientTellsNothing ==
    ASSUME ClientRequest
    PROVE  TellsNothing \/ \E c \in Controls : SubmitControl(c)
<1>1. ASSUME NEW o \in Owners, NEW type \in Requests \cap {"input", "retrieve", "mutate"},
             Submit(o, type)
      PROVE  TellsNothing
  <2>1. Message(type, o, nextId').type # "control"
    BY DEF Message
  <2> QED
    BY <1>1, <2>1 DEF Submit, workerLocal, TellsNothing, SendsOther, SameHands
<1>2. ASSUME NEW o \in Owners, QueueFollowUp(o)
      PROVE  TellsNothing
  <2>1. Message("followup", o, 0).type # "control"
    BY DEF Message
  <2> QED
    BY <1>2, <2>1 DEF QueueFollowUp, workerLocal, TellsNothing, SendsOther, SameHands
<1>3. ASSUME NEW a \in AskIds, NEW d \in {"allow", "deny", "edit"}, Respond(a, d)
      PROVE  TellsNothing
  <2>1. \A type \in ResumeTypes : Message(type, asks[a].owner, asks[a].job).type # "control"
    BY DEF Message, ResumeTypes
  <2>2. UNCHANGED inbox \/ \E type \in ResumeTypes :
                              Send(Message(type, asks[a].owner, asks[a].job))
    BY <1>3 DEF Respond, ResumeTypes
  <2> QED
    BY <1>3, <2>1, <2>2 DEF Respond, workerLocal, TellsNothing, SendsOther, SameHands
<1>4. ASSUME NEW o \in Owners, Cancel(o)
      PROVE  TellsNothing
  BY <1>4 DEF Cancel, workerLocal, TellsNothing, SameHands
<1>5. CASE AskSnapshot
  <2>1. Message("snapshot", NoOwner, 0).type # "control"
    BY DEF Message
  <2> QED
    BY <1>5, <2>1 DEF AskSnapshot, workerLocal, TellsNothing, SendsOther, SameHands
<1>6. CASE Drop
  BY <1>6 DEF Drop, workerLocal, TellsNothing, SameHands
<1> QED
  BY <1>1, <1>2, <1>3, <1>4, <1>5, <1>6 DEF ClientRequest

LEMMA ClientStepTellsNothing ==
    ASSUME ClientStep
    PROVE  TellsNothing
<1>1. CASE DropShutdown
  <2>1. Message("shutdown", NoOwner, 0).type # "control"
    BY DEF Message
  <2> QED
    BY <1>1, <2>1 DEF DropShutdown, workerLocal, TellsNothing, SendsOther, SameHands
<1>2. CASE CancelFlag \/ CancelDeny \/ DropList \/ DropDeny \/ DropJoin
  BY <1>2 DEF CancelFlag, CancelDeny, DropList, DropDeny, DropJoin, workerLocal,
              TellsNothing, SameHands
<1> QED
  BY <1>1, <1>2 DEF ClientStep

\* A message that is no control leaves the worker out of a control's way.
LEMMA TakeTellsNothing ==
    ASSUME NEW type, type # "control", Take(type), UNCHANGED <<control, engine>>,
           worker' = worker \/ worker'.pc \notin {"commit", "reject"}
    PROVE  TellsNothing
BY DEF Take, At, TellsNothing, TakesOther, SameHands

\* So does a step of its own.
LEMMA WalkTellsNothing ==
    ASSUME UNCHANGED <<control, engine, inbox>>, worker.pc \notin {"commit", "reject"},
           worker'.pc \notin {"commit", "reject"}
    PROVE  TellsNothing
BY DEF TellsNothing, SameHands

LEMMA PromptPc ==
    ASSUME worker \in Workers, NEW o, NEW j, NEW kind, Prompt(o, j, kind)
    PROVE  worker'.pc \in {"claim", "epoch"}
BY DEF Prompt, Workers

LEMMA WorkerTellsNothing ==
    ASSUME SupervisorInv, SlashControls = {}, WorkerStep
    PROVE  TellsNothing \/ TakeControl \/ CommitControl \/ RejectControl
<1>1. worker \in Workers /\ Idle.pc = "idle"
  BY Constants DEF SupervisorInv, Typed
<1>2. \A pc : Goto(pc) => worker'.pc = pc
  BY <1>1 DEF Goto, Workers
<1>3. \A ok : EndTurn(ok) => worker'.pc = "close"
  BY <1>1 DEF EndTurn, Workers
<1>4. \A pc, o, j, e : Begin(pc, o, j, e) => worker'.pc = pc
  BY DEF Begin, Idle
<1>5. \A o, j, kind : Prompt(o, j, kind) => worker'.pc \in {"claim", "epoch"}
  BY <1>1, PromptPc
<1>6. CASE TakeInput
  <2>1. worker'.pc = "start"
    BY <1>4, <1>6 DEF TakeInput
  <2> QED
    BY <1>6, <2>1, TakeTellsNothing DEF TakeInput
<1>7. CASE TakeFollowUp
  <2>1. worker' = worker \/ worker'.pc = "drain"
    BY <1>4, <1>7 DEF TakeFollowUp
  <2> QED
    BY <1>7, <2>1, TakeTellsNothing DEF TakeFollowUp
<1>8. CASE TakeRetrieve
  <2>1. worker' = worker \/ worker'.pc \in {"claim", "epoch"}
    BY <1>5, <1>8 DEF TakeRetrieve
  <2> QED
    BY <1>8, <2>1, TakeTellsNothing DEF TakeRetrieve
<1>9. CASE TakeMutate
  <2>1. worker' = worker \/ worker'.pc \in {"claim", "epoch"}
    BY <1>5, <1>9 DEF TakeMutate
  <2> QED
    BY <1>9, <2>1, TakeTellsNothing DEF TakeMutate
<1>10. CASE ResumeRetrieval
  BY <1>10, TakeTellsNothing DEF ResumeRetrieval
<1>11. CASE ResumeMutation
  BY <1>11, TakeTellsNothing DEF ResumeMutation
<1>12. CASE AnswerSnapshot
  BY <1>12, TakeTellsNothing DEF AnswerSnapshot
<1>13. CASE Stop
  <2>1. worker'.pc = "stopped"
    BY <1>13 DEF Stop, Idle
  <2> QED
    BY <1>13, <2>1, TakeTellsNothing DEF Stop
<1>14. CASE Drain
  <2>1. worker'.pc \in {"idle", "start"}
    BY <1>1, <1>4, <1>14 DEF Drain
  <2> QED
    BY <1>14, <2>1, WalkTellsNothing DEF Drain, At
<1>15. CASE StartTurn
  <2>1. worker'.pc \in {"idle", "model", "slash"}
    BY <1>1, <1>2, <1>15 DEF StartTurn
  <2> QED
    BY <1>15, <2>1, WalkTellsNothing DEF StartTurn, At
<1>16. CASE SlashCommand
  <2>1. worker'.pc = "close" /\ engine' = engine
    BY <1>3, <1>16 DEF SlashCommand
  <2> QED
    BY <1>16, <2>1, WalkTellsNothing DEF SlashCommand, At
<1>17. CASE ModelRequest
  <2>1. worker'.pc \in {"reply", "close"}
    BY <1>2, <1>3, <1>17 DEF ModelRequest
  <2> QED
    BY <1>17, <2>1, WalkTellsNothing DEF ModelRequest, At
<1>18. CASE Reply
  <2>1. worker'.pc \in {"close", "claim", "epoch"}
    BY <1>3, <1>5, <1>18 DEF Reply
  <2> QED
    BY <1>18, <2>1, WalkTellsNothing DEF Reply, At
<1>19. CASE ReadEpoch
  <2>1. worker'.pc \in {"insert", "claim"}
    BY <1>2, <1>19 DEF ReadEpoch
  <2> QED
    BY <1>19, <2>1, WalkTellsNothing DEF ReadEpoch, At
<1>20. CASE Claim
  <2>1. worker'.pc \in {"insert", "epoch", "idle"}
    BY <1>1, <1>2, <1>20 DEF Claim
  <2> QED
    BY <1>20, <2>1, WalkTellsNothing DEF Claim, At
<1>21. CASE InsertPending
  <2>1. worker'.pc = "announce"
    BY <1>2, <1>21 DEF InsertPending
  <2> QED
    BY <1>21, <2>1, WalkTellsNothing DEF InsertPending, At
<1>22. CASE Announce
  <2>1. worker'.pc \in {"await", "idle"}
    BY <1>1, <1>2, <1>22 DEF Announce
  <2> QED
    BY <1>22, <2>1, WalkTellsNothing DEF Announce, At
<1>23. CASE ReceiveAnswer
  <2>1. worker'.pc \in {"model", "claim", "epoch"}
    BY <1>2, <1>5, <1>23 DEF ReceiveAnswer
  <2> QED
    BY <1>23, <2>1, WalkTellsNothing DEF ReceiveAnswer, At
<1>24. CASE CloseTurn
  <2>1. worker'.pc = "finish"
    BY <1>2, <1>24 DEF CloseTurn
  <2> QED
    BY <1>24, <2>1, WalkTellsNothing DEF CloseTurn, At
<1>25. CASE FinishTurn
  <2>1. worker'.pc \in {"drain", "idle"}
    BY <1>1, <1>4, <1>25 DEF FinishTurn
  <2> QED
    BY <1>25, <2>1, WalkTellsNothing DEF FinishTurn, At
<1> QED
  BY <1>6, <1>7, <1>8, <1>9, <1>10, <1>11, <1>12, <1>13, <1>14, <1>15, <1>16, <1>17, <1>18,
     <1>19, <1>20, <1>21, <1>22, <1>23, <1>24, <1>25 DEF WorkerStep

\* The other threads touch no control either.
LEMMA OthersTellNothing ==
    (\E a \in AskIds : Expire(a)) \/ (\E r \in retrievals : FinishRetrieval(r)) \/ Gone
       \/ UNCHANGED vars
    => TellsNothing
BY DEF Expire, FinishRetrieval, Gone, vars, TellsNothing, SameHands

LEMMA ControlNext == SlashControls = {} /\ ControlInv /\ [Next]_vars => ControlInv'
<1> SUFFICES ASSUME SlashControls = {}, ControlInv, [Next]_vars PROVE ControlInv'
  OBVIOUS
<1>1. SupervisorInv /\ SupervisorInv'
  BY NextInv DEF ControlInv
<1>2. \/ TellsNothing
      \/ \E c \in Controls : SubmitControl(c)
      \/ TakeControl
      \/ CommitControl
      \/ RejectControl
  BY <1>1, ClientTellsNothing, ClientStepTellsNothing, WorkerTellsNothing, OthersTellNothing
     DEF Next
<1>3. ControlsInOrder' /\ InStep'
  BY <1>2, TellsNothingPreserves, SubmitControlInOrder, TakeControlInOrder,
     CommitControlInOrder, RejectControlInOrder
<1> QED
  BY <1>1, <1>3 DEF ControlInv

LEMMA ControlInitInv == Init => ControlInv
<1> SUFFICES ASSUME Init PROVE ControlInv
  OBVIOUS
<1>1. SupervisorInv
  BY InitInv
<1>2. /\ control.submitted = <<>> /\ inbox = <<>> /\ control.applied = InitialValues
      /\ engine = EngineAt(InitialValues) /\ ~At("commit") /\ ~Handling
  BY Constants DEF Init, ControlInit, At, Handling
<1>3. ControlsInOrder
  <2>1. /\ Len(<<>>) = 0
        /\ \A k \in 1..0 : FALSE
        /\ \A k \in (0 + 1)..0 : FALSE
    OBVIOUS
  <2> QED
    BY <1>2, <2>1 DEF ControlsInOrder, EpochsGrow, IdsGrow, Announced, Sent, Begun
<1>4. InStep
  <2>1. /\ InitialValues.mode \in Modes /\ InitialValues.level \in {"ask", "auto_edit", "readonly"}
        /\ InitialValues = [mode |-> InitialValues.mode, level |-> InitialValues.level]
    BY InitialValuesAssumption DEF Values, Levels
  <2>2. Published(EngineAt(InitialValues)) = InitialValues
    BY <2>1 DEF Published, EngineAt, LevelOf, PermissionMode
  <2> QED
    BY <1>2, <2>2 DEF InStep
<1> QED
  BY <1>1, <1>3, <1>4 DEF ControlInv

\* While no slash command changes the engine behind the supervisor's back,
\* the values approvals are judged by are those the engine will have once
\* every control sent so far took effect.
THEOREM ProjectionHolds == SlashControls = {} => (Spec => []ProjectionIsExact)
<1> SUFFICES ASSUME SlashControls = {} PROVE Spec => []ProjectionIsExact
  OBVIOUS
<1>1. Init => ControlInv
  BY ControlInitInv
<1>2. ControlInv /\ [Next]_vars => ControlInv'
  BY ControlNext
<1>3. ControlInv => ProjectionIsExact
  BY InvProjects
<1> QED
  BY <1>1, <1>2, <1>3, PTL DEF Spec

-----------------------------------------------------------------------------
\* The generation of an approval.

Prompts == {"epoch", "claim", "insert"}

\* No approval is of a later generation than the current one; one for which a
\* control was submitted is of an earlier one, and is not prompted for anew.
Dated ==
    /\ \A a \in AskIds : /\ asks[a].epoch <= CurrentEpoch
                         /\ asks[a].stale => asks[a].epoch < CurrentEpoch
    /\ worker.pc \in Prompts => ~asks[worker.ask].stale

DatesKept ==
    /\ \A a \in AskIds' : \/ /\ a \in AskIds
                             /\ asks'[a].epoch = asks[a].epoch
                             /\ asks'[a].stale = asks[a].stale
                          \/ asks'[a].epoch = 0 /\ asks'[a].stale = FALSE
    /\ control'.nextEpoch = control.nextEpoch
    /\ worker'.pc \in Prompts =>
          \/ asks'[worker'.ask].stale = FALSE
          \/ worker.pc \in Prompts /\ worker'.ask = worker.ask

\* No approval is answered but with a denial.
AnswersKept == \A a \in AskIds : asks'[a].answer \in {asks[a].answer, "deny"}

LEMMA DatesKeptPreserves ==
    ASSUME SupervisorInv, SupervisorInv', Dated, DatesKept
    PROVE  Dated'
<1>1. control.nextEpoch \in Nat /\ CurrentEpoch' = CurrentEpoch /\ CurrentEpoch \in Nat
  BY Constants DEF SupervisorInv, Typed, PermissionControls, CurrentEpoch, DatesKept
<1>2. \A a \in AskIds' : /\ asks'[a].epoch <= CurrentEpoch
                         /\ asks'[a].stale => asks'[a].epoch < CurrentEpoch
  BY <1>1 DEF Dated, DatesKept
<1>3. worker'.pc \in Prompts => ~asks'[worker'.ask].stale
  <2> SUFFICES ASSUME worker'.pc \in Prompts PROVE ~asks'[worker'.ask].stale
    OBVIOUS
  <2>1. worker'.ask \in AskIds'
    BY DEF SupervisorInv, Prompting, Prompts
  <2> QED
    BY <2>1 DEF Dated, DatesKept
<1> QED
  BY <1>1, <1>2, <1>3 DEF Dated

\* Where the approvals stay, only the worker can disturb it.
LEMMA AsksUntouched ==
    ASSUME UNCHANGED asks, control'.nextEpoch = control.nextEpoch,
           \/ UNCHANGED worker
           \/ worker'.pc \notin Prompts
           \/ worker.pc \in Prompts /\ worker'.ask = worker.ask
    PROVE  DatesKept /\ AnswersKept
BY DEF DatesKept, AnswersKept, AskIds

\* A prompt adds an approval of no generation.
LEMMA PromptDates ==
    ASSUME SupervisorInv, NEW o \in Owners, NEW j \in Jobs, NEW kind \in Kinds,
           Prompt(o, j, kind), UNCHANGED control
    PROVE  DatesKept /\ AnswersKept
<1>1. /\ Len(asks) \in Nat /\ Len(asks') = Len(asks) + 1
      /\ \A a \in AskIds : a \in AskIds' /\ asks'[a] = asks[a]
      /\ asks'[Len(asks')] = NewAsk(o, j, kind)
      /\ worker'.ask = Len(asks')
  BY Prompted DEF SupervisorInv, Typed
<1>2. \A a \in AskIds' : a \in AskIds \/ a = Len(asks')
  BY <1>1 DEF AskIds
<1>3. NewAsk(o, j, kind).epoch = 0 /\ NewAsk(o, j, kind).stale = FALSE
  BY DEF NewAsk
<1> QED
  BY <1>1, <1>2, <1>3 DEF DatesKept, AnswersKept

\* An approval rewritten keeps its date.
LEMMA RewrittenDates ==
    ASSUME SupervisorInv, NEW a \in AskIds, NEW x \in Approvals,
           x.owner = asks[a].owner, x.job = asks[a].job, x.kind = asks[a].kind,
           x.epoch = asks[a].epoch, x.stale = asks[a].stale,
           asks' = [asks EXCEPT ![a] = x], UNCHANGED control,
           UNCHANGED worker \/ worker'.pc \notin Prompts
    PROVE  DatesKept /\ (x.answer \in {asks[a].answer, "deny"} => AnswersKept)
<1>1. /\ AskIds' = AskIds /\ asks'[a] = x
      /\ \A b \in AskIds : b # a => asks'[b] = asks[b]
  BY Rewriting DEF SupervisorInv, Typed, SameAsks
<1> QED
  BY <1>1 DEF DatesKept, AnswersKept

LEMMA SettledDates ==
    ASSUME SupervisorInv, NEW a \in AskIds, NEW d \in Answers, Settle(a, d),
           UNCHANGED <<control, worker>>
    PROVE  DatesKept /\ (d = "deny" => AnswersKept)
<1>1. /\ AskIds' = AskIds
      /\ \A b \in AskIds : b # a => asks'[b] = asks[b]
      /\ asks'[a].answer = (IF asks[a].answer = "none" THEN d ELSE asks[a].answer)
      /\ asks'[a].epoch = asks[a].epoch /\ asks'[a].stale = asks[a].stale
  BY Settling DEF SupervisorInv, Typed
<1> QED
  BY <1>1 DEF DatesKept, AnswersKept

LEMMA DenialDates ==
    ASSUME SupervisorInv, NEW a, ResolveAsDenied(a), UNCHANGED <<control, worker>>
    PROVE  DatesKept /\ AnswersKept
<1>1. CASE a \in PendingIds
  <2>1. a \in AskIds /\ Settle(a, "deny")
    BY <1>1 DEF ResolveAsDenied, PendingIds
  <2> QED
    BY <2>1, SettledDates DEF Answers
<1>2. CASE a \notin PendingIds
  BY <1>2, AsksUntouched DEF ResolveAsDenied
<1> QED
  BY <1>1, <1>2

\* An answer that lets something run cleared the gates.
LEMMA RespondDates ==
    ASSUME SupervisorInv, NEW a \in AskIds, NEW d \in {"allow", "deny", "edit"}, Respond(a, d)
    PROVE  /\ DatesKept
           /\ AnswersKept \/ PassesGates(a)
           /\ \A b \in AskIds : b # a => asks'[b].answer \in {asks[b].answer, "deny"}
<1> DEFINE runs   == d = "deny" \/ PassesGates(a)
           result == IF runs THEN d ELSE "deny"
<1>1. result \in Answers /\ (result = "deny" \/ PassesGates(a))
  BY DEF Answers
<1>2. UNCHANGED <<control, worker>>
  BY DEF Respond, workerLocal
<1>3. Settle(a, result) \/ asks' = [asks EXCEPT ![a].pending = FALSE]
  BY DEF Respond
<1> HIDE DEF result
<1>4. CASE Settle(a, result)
  <2>1. \A b \in AskIds : b # a => asks'[b] = asks[b]
    BY <1>1, <1>4, Settling DEF SupervisorInv, Typed
  <2> QED
    BY <1>1, <1>2, <1>4, <2>1, SettledDates
<1>5. CASE asks' = [asks EXCEPT ![a].pending = FALSE]
  <2>1. asks[a] \in Approvals /\ asks \in Seq(Approvals)
    BY JobsOfAsks DEF SupervisorInv, Typed
  <2> DEFINE x == [asks[a] EXCEPT !.pending = FALSE]
  <2>2. /\ x \in Approvals
        /\ x.owner = asks[a].owner /\ x.job = asks[a].job /\ x.kind = asks[a].kind
        /\ x.epoch = asks[a].epoch /\ x.stale = asks[a].stale /\ x.answer = asks[a].answer
    BY <2>1 DEF Approvals
  <2>3. asks' = [asks EXCEPT ![a] = x]
    BY <1>5
  <2> HIDE DEF x
  <2>4. DatesKept /\ AnswersKept
    BY <1>2, <2>2, <2>3, RewrittenDates
  <2> QED
    BY <2>4 DEF AnswersKept
<1> QED
  BY <1>3, <1>4, <1>5

\* A control puts every pending approval behind the current generation.
LEMMA SubmitControlDates ==
    ASSUME SupervisorInv, Dated, NEW c \in Controls, SubmitControl(c)
    PROVE  Dated' /\ AnswersKept
<1>1. asks \in Seq(Approvals) /\ Len(asks) \in Nat /\ control.nextEpoch \in Nat
  BY Constants DEF SupervisorInv, Typed, PermissionControls
<1>2. \A a \in AskIds : asks[a] \in Approvals
  BY <1>1 DEF AskIds
<1>3. \A a \in AskIds : asks[a].epoch \in Nat
  BY <1>2, Constants DEF Approvals
<1> DEFINE marked(a) == [asks[a] EXCEPT !.stale = @ \/ asks[a].pending]
<1>4. \A a \in AskIds : /\ marked(a) \in Approvals
                        /\ marked(a).epoch = asks[a].epoch
                        /\ marked(a).answer = asks[a].answer
                        /\ marked(a).stale = (asks[a].stale \/ asks[a].pending)
  BY <1>2 DEF Approvals
<1>5. asks' = [a \in AskIds |-> marked(a)]
  BY DEF SubmitControl
<1> HIDE DEF marked
<1>6. asks' \in [1..Len(asks) -> Approvals]
  BY <1>4, <1>5 DEF AskIds
<1>7. asks' \in Seq(Approvals) /\ Len(asks') = Len(asks)
  BY <1>1, <1>6, SeqDef
<1>8. AskIds' = AskIds
  BY <1>7 DEF AskIds
<1>9. \A a \in AskIds : /\ asks'[a].epoch = asks[a].epoch
                        /\ asks'[a].answer = asks[a].answer
                        /\ asks'[a].stale => asks[a].stale \/ asks[a].pending
  BY <1>4, <1>5
<1>10. CurrentEpoch' = CurrentEpoch + 1 /\ CurrentEpoch \in Nat
  BY <1>1 DEF SubmitControl, Reserve, CurrentEpoch, SupervisorInv, Typed, PermissionControls
<1>11. \A a \in AskIds' : /\ asks'[a].epoch <= CurrentEpoch'
                          /\ asks'[a].stale => asks'[a].epoch < CurrentEpoch'
  BY <1>3, <1>8, <1>9, <1>10 DEF Dated
<1>12. worker'.pc \in Prompts => ~asks'[worker'.ask].stale
  <2> SUFFICES ASSUME worker'.pc \in Prompts PROVE ~asks'[worker'.ask].stale
    OBVIOUS
  <2>1. worker' = worker
    BY DEF SubmitControl, workerLocal
  <2>2. worker.ask \in AskIds /\ ~asks[worker.ask].pending /\ ~asks[worker.ask].stale
    BY <2>1 DEF SupervisorInv, Prompting, Prompts, Dated
  <2> QED
    BY <1>9, <2>1, <2>2
<1>13. AnswersKept
  BY <1>9 DEF AnswersKept
<1> QED
  BY <1>11, <1>12, <1>13 DEF Dated

\* The worker reads the current generation.
LEMMA ReadEpochDates ==
    ASSUME SupervisorInv, Dated, ReadEpoch
    PROVE  Dated' /\ AnswersKept
<1>1. worker.pc = "epoch"
  BY DEF ReadEpoch, At
<1>2. PICK a : a = worker.ask
  OBVIOUS
<1>3. a \in AskIds /\ asks \in Seq(Approvals) /\ asks[a] \in Approvals /\ worker \in Workers
  BY <1>1, <1>2, PromptFacts
<1>4. CurrentEpoch \in 0..MaxControls /\ CurrentEpoch' = CurrentEpoch /\ CurrentEpoch \in Int
  BY Constants DEF CurrentEpoch, SupervisorInv, Typed, PermissionControls, ReadEpoch
<1> DEFINE x == [asks[a] EXCEPT !.epoch = CurrentEpoch]
<1>5. /\ x \in Approvals
      /\ x.owner = asks[a].owner /\ x.job = asks[a].job /\ x.kind = asks[a].kind
      /\ x.epoch = CurrentEpoch /\ x.stale = asks[a].stale /\ x.answer = asks[a].answer
  BY <1>3, <1>4 DEF Approvals
<1>6. asks' = [asks EXCEPT ![a] = x]
  BY <1>2 DEF ReadEpoch
<1> HIDE DEF x
<1>7. /\ AskIds' = AskIds /\ asks'[a] = x
      /\ \A b \in AskIds : b # a => asks'[b] = asks[b]
  BY <1>3, <1>5, <1>6, Rewriting DEF SameAsks
<1>8. ~asks[a].stale
  BY <1>1, <1>2 DEF Dated, Prompts
<1>9. worker'.ask = a
  BY <1>2, <1>3 DEF ReadEpoch, Goto, Workers
<1>10. Dated'
  BY <1>4, <1>5, <1>7, <1>8, <1>9 DEF Dated
<1>11. AnswersKept
  BY <1>5, <1>7 DEF AnswersKept
<1> QED
  BY <1>10, <1>11

LEMMA ClientDates ==
    ASSUME SupervisorInv, ClientRequest \/ ClientStep
    PROVE  \/ DatesKept /\ AnswersKept
           \/ \E c \in Controls : SubmitControl(c)
           \/ \E a \in AskIds, d \in {"allow", "deny", "edit"} : Respond(a, d)
<1>1. ASSUME NEW o \in Owners, NEW type \in Requests \cap {"input", "retrieve", "mutate"},
             Submit(o, type)
      PROVE  DatesKept /\ AnswersKept
  BY <1>1, AsksUntouched DEF Submit, workerLocal
<1>2. ASSUME NEW o \in Owners, QueueFollowUp(o) \/ Cancel(o)
      PROVE  DatesKept /\ AnswersKept
  BY <1>2, AsksUntouched DEF QueueFollowUp, Cancel, workerLocal
<1>3. AskSnapshot \/ Drop => DatesKept /\ AnswersKept
  BY AsksUntouched DEF AskSnapshot, Drop, workerLocal
<1>4. CancelFlag \/ DropList \/ DropShutdown \/ DropJoin => DatesKept /\ AnswersKept
  BY AsksUntouched DEF CancelFlag, DropList, DropShutdown, DropJoin, workerLocal
<1>5. CancelDeny \/ DropDeny => DatesKept /\ AnswersKept
  BY DenialDates DEF CancelDeny, DropDeny, workerLocal
<1> QED
  BY <1>1, <1>2, <1>3, <1>4, <1>5 DEF ClientRequest, ClientStep

LEMMA WorkerDates ==
    ASSUME SupervisorInv, WorkerStep
    PROVE  (DatesKept /\ AnswersKept) \/ ReadEpoch
<1>1. worker \in Workers /\ Idle.pc = "idle" /\ control \in PermissionControls
  BY Constants DEF SupervisorInv, Typed
<1>2. \A pc : Goto(pc) => worker'.pc = pc /\ worker'.ask = worker.ask
  BY <1>1 DEF Goto, Workers
<1>3. \A ok : EndTurn(ok) => worker'.pc = "close"
  BY <1>1 DEF EndTurn, Workers
<1>4. \A pc, o, j, e : Begin(pc, o, j, e) => worker'.pc = pc
  BY DEF Begin, Idle
<1>5. ASSUME NEW type \in {"retrieve", "mutate"}, Take(type), NEW m, m = Head(inbox),
             NEW kind \in Kinds, Prompt(m.owner, m.id, kind), UNCHANGED control
      PROVE  DatesKept /\ AnswersKept
  <2>1. m.owner \in Owners /\ m.id \in Jobs
    <3>1. m \in Messages /\ m.type = type
      BY <1>5, TakenFacts
    <3> QED
      BY <3>1 DEF Messages, JobTypes, NewTypes, ResumeTypes
  <2> QED
    BY <1>5, <2>1, PromptDates
<1>6. TakeInput \/ TakeFollowUp \/ TakeControl => DatesKept /\ AnswersKept
  <2>1. TakeInput \/ TakeFollowUp \/ TakeControl
           => worker' = worker \/ worker'.pc \notin Prompts
    BY <1>4 DEF TakeInput, TakeFollowUp, TakeControl, Prompts
  <2> QED
    BY <2>1, AsksUntouched DEF TakeInput, TakeFollowUp, TakeControl
<1>7. TakeRetrieve => DatesKept /\ AnswersKept
  <2> SUFFICES ASSUME TakeRetrieve PROVE DatesKept /\ AnswersKept
    OBVIOUS
  <2>1. PICK m : m = Head(inbox)
    OBVIOUS
  <2>2. Take("retrieve") /\ control' = control
    BY DEF TakeRetrieve
  <2>3. UNCHANGED <<asks, worker>> \/ Prompt(m.owner, m.id, "retrieval")
    BY <2>1 DEF TakeRetrieve
  <2>4. CASE UNCHANGED <<asks, worker>>
    BY <2>2, <2>4, AsksUntouched
  <2>5. CASE Prompt(m.owner, m.id, "retrieval")
    BY <1>5, <2>1, <2>2, <2>5 DEF Kinds
  <2> QED
    BY <2>3, <2>4, <2>5
<1>8. TakeMutate => DatesKept /\ AnswersKept
  <2> SUFFICES ASSUME TakeMutate PROVE DatesKept /\ AnswersKept
    OBVIOUS
  <2>1. PICK m : m = Head(inbox)
    OBVIOUS
  <2>2. Take("mutate") /\ control' = control
    BY DEF TakeMutate
  <2>3. UNCHANGED <<asks, worker>> \/ Prompt(m.owner, m.id, "mutation")
    BY <2>1 DEF TakeMutate
  <2>4. CASE UNCHANGED <<asks, worker>>
    BY <2>2, <2>4, AsksUntouched
  <2>5. CASE Prompt(m.owner, m.id, "mutation")
    BY <1>5, <2>1, <2>2, <2>5 DEF Kinds
  <2> QED
    BY <2>3, <2>4, <2>5
<1>9. CommitControl \/ RejectControl => DatesKept /\ AnswersKept
  <2>1. CommitControl \/ RejectControl => control'.nextEpoch = control.nextEpoch
    BY <1>1 DEF CommitControl, RejectControl, Commit, Reject, PermissionControls
  <2>2. CommitControl \/ RejectControl => worker'.pc \notin Prompts
    BY <1>1 DEF CommitControl, RejectControl, Prompts
  <2> QED
    BY <2>1, <2>2, AsksUntouched DEF CommitControl, RejectControl
<1>10. ResumeRetrieval \/ ResumeMutation \/ AnswerSnapshot => DatesKept /\ AnswersKept
  BY AsksUntouched DEF ResumeRetrieval, ResumeMutation, AnswerSnapshot
<1>11. Stop \/ Drain \/ StartTurn \/ SlashCommand \/ ModelRequest \/ CloseTurn \/ FinishTurn
          => DatesKept /\ AnswersKept
  <2>1. Stop => worker'.pc = "stopped"
    BY DEF Stop, Idle
  <2>2. Drain => worker'.pc \in {"idle", "start"}
    BY <1>1, <1>4 DEF Drain
  <2>3. StartTurn => worker'.pc \in {"idle", "model", "slash"}
    BY <1>1, <1>2 DEF StartTurn
  <2>4. SlashCommand => worker'.pc = "close"
    BY <1>3 DEF SlashCommand
  <2>5. ModelRequest => worker'.pc \in {"reply", "close"}
    BY <1>2, <1>3 DEF ModelRequest
  <2>6. CloseTurn => worker'.pc = "finish"
    BY <1>2 DEF CloseTurn
  <2>7. FinishTurn => worker'.pc \in {"drain", "idle"}
    BY <1>1, <1>4 DEF FinishTurn
  <2>8. Stop \/ Drain \/ StartTurn \/ SlashCommand \/ ModelRequest \/ CloseTurn \/ FinishTurn
           => worker'.pc \notin Prompts
    BY <2>1, <2>2, <2>3, <2>4, <2>5, <2>6, <2>7 DEF Prompts
  <2>9. Stop \/ Drain \/ StartTurn \/ SlashCommand \/ ModelRequest \/ CloseTurn \/ FinishTurn
           => UNCHANGED <<asks, control>>
    BY DEF Stop, Drain, StartTurn, SlashCommand, ModelRequest, CloseTurn, FinishTurn
  <2> QED
    BY <2>8, <2>9, AsksUntouched
<1>12. ASSUME worker.pc \in {"reply", "await"}, Prompt(worker.owner, worker.job, "turn"),
              UNCHANGED control
       PROVE  DatesKept /\ AnswersKept
  <2>1. worker.owner \in Owners /\ worker.job \in Jobs
    BY <1>12 DEF SupervisorInv, References, Posted, AtHome, WorkerPcs
  <2> QED
    BY <1>12, <2>1, PromptDates DEF Kinds
<1>13. Reply => DatesKept /\ AnswersKept
  <2> SUFFICES ASSUME Reply PROVE DatesKept /\ AnswersKept
    OBVIOUS
  <2>1. CASE Prompt(worker.owner, worker.job, "turn")
    BY <1>12, <2>1 DEF Reply, At
  <2>2. CASE EndTurn(TRUE) /\ UNCHANGED asks
    <3>1. worker'.pc \notin Prompts
      BY <1>3, <2>2 DEF Prompts
    <3> QED
      BY <2>2, <3>1, AsksUntouched DEF Reply
  <2> QED
    BY <2>1, <2>2 DEF Reply
<1>14. ReceiveAnswer => DatesKept /\ AnswersKept
  <2> SUFFICES ASSUME ReceiveAnswer PROVE DatesKept /\ AnswersKept
    OBVIOUS
  <2>1. CASE Prompt(worker.owner, worker.job, "turn")
    BY <1>12, <2>1 DEF ReceiveAnswer, At
  <2>2. CASE Goto("model") /\ UNCHANGED asks
    <3>1. worker'.pc \notin Prompts
      BY <1>2, <2>2 DEF Prompts
    <3> QED
      BY <2>2, <3>1, AsksUntouched DEF ReceiveAnswer
  <2> QED
    BY <2>1, <2>2 DEF ReceiveAnswer
<1>15. Claim => DatesKept /\ AnswersKept
  <2>1. Claim => worker.pc \in Prompts /\ (worker'.ask = worker.ask \/ worker'.pc \notin Prompts)
    BY <1>1, <1>2 DEF Claim, At, Prompts
  <2> QED
    BY <2>1, AsksUntouched DEF Claim
<1>16. InsertPending => DatesKept /\ AnswersKept
  <2> SUFFICES ASSUME InsertPending PROVE DatesKept /\ AnswersKept
    OBVIOUS
  <2>1. PICK a : a = worker.ask
    OBVIOUS
  <2>2. a \in AskIds /\ asks[a] \in Approvals
    BY <2>1, PromptFacts DEF InsertPending, At
  <2> DEFINE x == [asks[a] EXCEPT !.pending = TRUE]
  <2>3. /\ x \in Approvals
        /\ x.owner = asks[a].owner /\ x.job = asks[a].job /\ x.kind = asks[a].kind
        /\ x.epoch = asks[a].epoch /\ x.stale = asks[a].stale /\ x.answer = asks[a].answer
    BY <2>2 DEF Approvals
  <2>4. asks' = [asks EXCEPT ![a] = x]
    BY <2>1 DEF InsertPending
  <2> HIDE DEF x
  <2>5. worker'.pc \notin Prompts /\ control' = control
    BY <1>2 DEF InsertPending, Prompts
  <2> QED
    BY <2>2, <2>3, <2>4, <2>5, RewrittenDates
<1>17. Announce => DatesKept /\ AnswersKept
  <2> SUFFICES ASSUME Announce PROVE DatesKept /\ AnswersKept
    OBVIOUS
  <2>1. PICK a : a = worker.ask
    OBVIOUS
  <2>2. a \in AskIds /\ asks[a] \in Approvals /\ asks \in Seq(Approvals)
    BY <2>1, PromptFacts DEF Announce, At
  <2> DEFINE x == [asks[a] EXCEPT !.shown = TRUE, !.armed = TRUE]
  <2>3. /\ x \in Approvals
        /\ x.owner = asks[a].owner /\ x.job = asks[a].job /\ x.kind = asks[a].kind
        /\ x.epoch = asks[a].epoch /\ x.stale = asks[a].stale /\ x.answer = asks[a].answer
    BY <2>2 DEF Approvals
  <2>4. asks' = [asks EXCEPT ![a] = x]
    BY <2>1, <2>2 DEF Announce, Scheduled, AskIds
  <2> HIDE DEF x
  <2>5. worker'.pc \notin Prompts /\ control' = control
    BY <1>1, <1>2 DEF Announce, Prompts
  <2> QED
    BY <2>2, <2>3, <2>4, <2>5, RewrittenDates
<1> QED
  BY <1>6, <1>7, <1>8, <1>9, <1>10, <1>11, <1>13, <1>14, <1>15, <1>16, <1>17 DEF WorkerStep

LEMMA OtherDates ==
    ASSUME SupervisorInv,
           (\E a \in AskIds : Expire(a)) \/ (\E r \in retrievals : FinishRetrieval(r)) \/ Gone
              \/ UNCHANGED vars
    PROVE  DatesKept /\ AnswersKept
<1>1. ASSUME NEW a \in AskIds, Expire(a)
      PROVE  DatesKept /\ AnswersKept
  BY <1>1, DenialDates DEF Expire
<1>2. ASSUME NEW r \in retrievals, FinishRetrieval(r)
      PROVE  DatesKept /\ AnswersKept
  BY <1>2, AsksUntouched DEF FinishRetrieval
<1>3. Gone \/ UNCHANGED vars => DatesKept /\ AnswersKept
  BY AsksUntouched DEF Gone, vars
<1> QED
  BY <1>1, <1>2, <1>3

\* A step answers an approval with other than a denial behind the gates only.
LEMMA StepDates ==
    ASSUME SupervisorInv, Dated, [Next]_vars
    PROVE  /\ Dated'
           /\ \A a \in AskIds : asks'[a].answer \in {asks[a].answer, "deny"} \/ PassesGates(a)
<1>1. SupervisorInv'
  BY NextInv
<1>2. \/ DatesKept /\ AnswersKept
      \/ \E c \in Controls : SubmitControl(c)
      \/ ReadEpoch
      \/ \E a \in AskIds, d \in {"allow", "deny", "edit"} : Respond(a, d)
  BY ClientDates, WorkerDates, OtherDates DEF Next
<1>3. CASE DatesKept /\ AnswersKept
  BY <1>1, <1>3, DatesKeptPreserves DEF AnswersKept
<1>4. CASE \E c \in Controls : SubmitControl(c)
  BY <1>4, SubmitControlDates DEF AnswersKept
<1>5. CASE ReadEpoch
  BY <1>5, ReadEpochDates DEF AnswersKept
<1>6. ASSUME NEW a \in AskIds, NEW d \in {"allow", "deny", "edit"}, Respond(a, d)
      PROVE  /\ Dated'
             /\ \A b \in AskIds : asks'[b].answer \in {asks[b].answer, "deny"} \/ PassesGates(b)
  <2>1. /\ DatesKept
        /\ AnswersKept \/ PassesGates(a)
        /\ \A b \in AskIds : b # a => asks'[b].answer \in {asks[b].answer, "deny"}
    BY <1>6, RespondDates
  <2> QED
    BY <1>1, <2>1, DatesKeptPreserves DEF AnswersKept
<1> QED
  BY <1>2, <1>3, <1>4, <1>5, <1>6

LEMMA InitDated == Init => Dated
BY Constants DEF Init, Dated, AskIds, Prompts

\* What the gates let through is of the current generation.
LEMMA GatesAreCurrent ==
    ASSUME SupervisorInv, Dated, [Next]_vars, NEW a \in AskIds,
           asks[a].answer = "none", asks'[a].answer \in {"allow", "edit"}
    PROVE  PassesGates(a) /\ ~asks[a].stale
<1>1. PassesGates(a)
  BY StepDates
<1>2. CurrentEpoch \in Nat
  BY Constants DEF SupervisorInv, Typed, PermissionControls, CurrentEpoch
<1> QED
  BY <1>1, <1>2 DEF PassesGates, Dated

\* Whatever slash commands do, an operator's allow releases nothing that was
\* prompted for before a permission control was sent.
OldPromptsStayShut ==
    [][\A a \in AskIds :
          asks[a].answer = "none" /\ asks'[a].answer \in {"allow", "edit"} => ~asks[a].stale]_vars

\* An approval pending when a control was submitted is not allowed any more.
THEOREM OldPromptsAreShut == Spec => OldPromptsStayShut
<1>1. Init => SupervisorInv /\ Dated
  BY InitInv, InitDated
<1>2. SupervisorInv /\ Dated /\ [Next]_vars => (SupervisorInv /\ Dated)'
  BY NextInv, StepDates
<1>3. SupervisorInv /\ Dated /\ [Next]_vars =>
         [\A a \in AskIds : asks[a].answer = "none" /\ asks'[a].answer \in {"allow", "edit"}
                               => ~asks[a].stale]_vars
  BY GatesAreCurrent
<1> QED
  BY <1>1, <1>2, <1>3, PTL DEF Spec, OldPromptsStayShut

\* While no slash command changes the engine behind the supervisor's back, an
\* operator's allow also releases no mutation that the controls sent so far
\* forbid.
THEOREM AllowsAreCurrent == SlashControls = {} => (Spec => AllowIsCurrent)
<1> SUFFICES ASSUME SlashControls = {} PROVE Spec => AllowIsCurrent
  OBVIOUS
<1>1. Init => ControlInv /\ Dated
  BY ControlInitInv, InitDated
<1>2. ControlInv /\ Dated /\ [Next]_vars => (ControlInv /\ Dated)'
  BY ControlNext, StepDates DEF ControlInv
<1>3. ASSUME ControlInv, Dated, [Next]_vars, NEW a \in AskIds,
             asks[a].answer = "none", asks'[a].answer \in {"allow", "edit"}
      PROVE  /\ ~asks[a].stale
             /\ \/ asks[a].kind = "retrieval"
                \/ At("reject")
                \/ ~BlocksMutation(EngineProjected)
  <2>1. PassesGates(a) /\ ~asks[a].stale
    BY <1>3, GatesAreCurrent DEF ControlInv
  <2>2. ProjectionIsExact
    BY <1>3, InvProjects
  <2> QED
    BY <2>1, <2>2 DEF PassesGates, ProjectionIsExact
<1>4. ControlInv /\ Dated /\ [Next]_vars =>
         [\A a \in AskIds :
             asks[a].answer = "none" /\ asks'[a].answer \in {"allow", "edit"} =>
                /\ ~asks[a].stale
                /\ \/ asks[a].kind = "retrieval"
                   \/ At("reject")
                   \/ ~BlocksMutation(EngineProjected)]_vars
  BY <1>3
<1> QED
  BY <1>1, <1>2, <1>4, PTL DEF Spec, AllowIsCurrent
=============================================================================

--------------------------- MODULE LiveStatusProofs ---------------------------
(***************************************************************************)
(* What holds of AtmLiveStatus for any events, any number of attempts and  *)
(* any number of heartbeats: first of the compare on RowVersion, where the *)
(* columns of the row stay opaque but for the event that they show, then   *)
(* of the columns.  Those are folds of the community modules, recursive    *)
(* functions of a set; what is said of them is proved from least elements, *)
(* for the induction theorems of the library take an operator.             *)
(***************************************************************************)
EXTENDS LiveStatus, FiniteSetTheorems, WellFoundedInduction, TLAPS

\* Every set of natural numbers has a least element: induction over Nat for a
\* predicate that is given as a set.
LEMMA LeastNumber ==
    ASSUME NEW T, T \subseteq Nat, T # {}
    PROVE  \E n \in T : \A m \in T : n <= m
<1> DEFINE R == OpToRel(<, Nat)
<1>1. IsWellFoundedOn(R, Nat)
    BY NatLessThanWellFounded
<1>2. \A x, y \in Nat : x < y => <<x, y>> \in R
    BY DEF OpToRel
<1> HIDE DEF R
<1>3. PICK n \in T : \A m \in T : <<m, n>> \notin R
    BY <1>1, WFMin
<1>4. ASSUME NEW m \in T PROVE n <= m
  <2>1. m \in Nat /\ n \in Nat
      OBVIOUS
  <2>2. ~(m < n)
      BY <1>2, <1>3, <2>1
  <2> QED
      BY <2>1, <2>2
<1> QED
    BY <1>4

\* What holds of 0, and of every number above 0 whose predecessor it holds of,
\* holds of all.
LEMMA NatInduct ==
    ASSUME NEW T, 0 \in T, \A n \in Nat \ {0} : n - 1 \in T => n \in T
    PROVE  Nat \subseteq T
<1> SUFFICES ASSUME Nat \ T # {} PROVE FALSE
    OBVIOUS
<1>1. PICK n \in Nat \ T : \A m \in Nat \ T : n <= m
    BY LeastNumber
<1>2. n # 0 /\ n - 1 \in Nat /\ ~(n <= n - 1)
    BY <1>1
<1> QED
    BY <1>1, <1>2

-----------------------------------------------------------------------------
(* Sums: the recursive function behind SumFunctionOnSet. *)

Picked(s) == CHOOSE x \in s : TRUE

SumBody(iter, f, s) == IF s = {} THEN 0 ELSE f[Picked(s)] + iter[s \ {Picked(s)}]

IsSum(iter, f, S) == iter = [s \in SUBSET S |-> SumBody(iter, f, s)]

\* The community operator unfolds to the recursive function that IsSum describes.
LEMMA SumDefined ==
    ASSUME NEW f, NEW S
    PROVE  SumFunctionOnSet(f, S) = (CHOOSE iter : IsSum(iter, f, S))[S]
BY DEF SumFunctionOnSet, FoldFunctionOnSet, MapThenFoldSet, IsSum, SumBody, Picked

\* What is picked of a set that is not empty is in it.
LEMMA PickedIn == ASSUME NEW s, s # {} PROVE Picked(s) \in s
BY DEF Picked

UpTo(S, n) == {s \in SUBSET S : Cardinality(s) <= n}

\* Without the element that is picked, a set is smaller.
LEMMA SmallerRest ==
    ASSUME NEW S, IsFiniteSet(S), NEW n \in Nat \ {0}, NEW s \in UpTo(S, n), s # {}
    PROVE  s \ {Picked(s)} \in UpTo(S, n - 1)
<1>1. IsFiniteSet(s) /\ Picked(s) \in s
    BY FS_Subset, PickedIn DEF UpTo
<1>2. Cardinality(s \ {Picked(s)}) = Cardinality(s) - 1 /\ Cardinality(s) \in Nat
    BY <1>1, FS_RemoveElement, FS_CardinalityType
<1> QED
    BY <1>2 DEF UpTo

\* Only the empty set has no elements.
LEMMA NoneUpTo == ASSUME NEW S, IsFiniteSet(S) PROVE UpTo(S, 0) = {{}}
<1>1. ASSUME NEW s \in SUBSET S PROVE Cardinality(s) <= 0 <=> s = {}
  <2>1. IsFiniteSet(s) /\ Cardinality(s) \in Nat
      BY FS_Subset, FS_CardinalityType
  <2>2. Cardinality(s) = 0 <=> s = {}
      BY <2>1, FS_EmptySet
  <2> QED
      BY <2>1, <2>2
<1> QED
    BY <1>1 DEF UpTo

\* There is such a function: each size of subsets extends the one before.
LEMMA SumExists ==
    ASSUME NEW S, IsFiniteSet(S), NEW f
    PROVE  \E iter : IsSum(iter, f, S)
<1> DEFINE Part(g, n) == g = [s \in UpTo(S, n) |-> SumBody(g, f, s)]
           T == {n \in Nat : \E g : Part(g, n)}
<1>1. 0 \in T
  <2> DEFINE g == [s \in UpTo(S, 0) |-> 0]
  <2>1. \A s \in UpTo(S, 0) : SumBody(g, f, s) = 0
      BY NoneUpTo DEF SumBody
  <2>2. Part(g, 0)
      BY <2>1
  <2> QED
      BY <2>2
<1>2. ASSUME NEW n \in Nat \ {0}, n - 1 \in T PROVE n \in T
  <2>1. PICK g : Part(g, n - 1)
      BY <1>2
  <2> DEFINE h == [s \in UpTo(S, n) |-> SumBody(g, f, s)]
  <2>2. ASSUME NEW s \in UpTo(S, n - 1) PROVE h[s] = g[s]
    <3>1. s \in SUBSET S /\ Cardinality(s) \in Nat
        BY FS_Subset, FS_CardinalityType DEF UpTo
    <3>2. s \in UpTo(S, n)
        BY <3>1 DEF UpTo
    <3>3. g[s] = SumBody(g, f, s)
        BY <2>1
    <3> QED
        BY <3>2, <3>3
  <2>3. ASSUME NEW s \in UpTo(S, n) PROVE SumBody(g, f, s) = SumBody(h, f, s)
    <3>1. CASE s = {}
        BY <3>1 DEF SumBody
    <3>2. CASE s # {}
      <4>1. h[s \ {Picked(s)}] = g[s \ {Picked(s)}]
          BY <3>2, <2>2, SmallerRest
      <4> HIDE DEF h
      <4> QED
          BY <3>2, <4>1 DEF SumBody
    <3> QED
        BY <3>1, <3>2
  <2>4. h = [s \in UpTo(S, n) |-> SumBody(h, f, s)]
    <3>1. h = [s \in UpTo(S, n) |-> h[s]] /\ \A s \in UpTo(S, n) : h[s] = SumBody(g, f, s)
        OBVIOUS
    <3> HIDE DEF h
    <3> QED
        BY <2>3, <3>1
  <2> HIDE DEF h
  <2> QED
      BY <2>4
<1>3. Nat \subseteq T
  <2> HIDE DEF T
  <2> QED
      BY <1>1, <1>2, NatInduct
<1>4. Cardinality(S) \in Nat /\ UpTo(S, Cardinality(S)) = SUBSET S
    BY FS_CardinalityType, FS_Subset DEF UpTo
<1>5. PICK g : Part(g, Cardinality(S))
    BY <1>3, <1>4
<1> QED
    BY <1>4, <1>5 DEF IsSum

\* A sum of natural numbers is a natural number.
LEMMA SumNatural ==
    ASSUME NEW S, IsFiniteSet(S), NEW f, \A x \in S : f[x] \in Nat
    PROVE  SumFunctionOnSet(f, S) \in Nat
<1> DEFINE iter == CHOOSE g : IsSum(g, f, S)
<1>1. IsSum(iter, f, S)
    BY SumExists
<1> HIDE DEF iter
<1>2. \A s \in SUBSET S : iter[s] = SumBody(iter, f, s)
    BY <1>1 DEF IsSum
<1> DEFINE T == {n \in Nat : \A s \in UpTo(S, n) : iter[s] \in Nat}
<1>3. 0 \in T
    BY <1>2, NoneUpTo DEF SumBody
<1>4. ASSUME NEW n \in Nat \ {0}, n - 1 \in T PROVE n \in T
  <2>1. \A r \in UpTo(S, n - 1) : iter[r] \in Nat
      BY <1>4
  <2>2. ASSUME NEW s \in UpTo(S, n) PROVE iter[s] \in Nat
    <3>1. s \in SUBSET S /\ iter[s] = SumBody(iter, f, s)
        BY <1>2 DEF UpTo
    <3>2. CASE s = {}
        BY <3>1, <3>2 DEF SumBody
    <3>3. CASE s # {}
      <4>1. f[Picked(s)] \in Nat
          BY <3>1, <3>3, PickedIn
      <4>2. iter[s \ {Picked(s)}] \in Nat
          BY <2>1, <3>3, SmallerRest
      <4> QED
          BY <3>1, <3>3, <4>1, <4>2 DEF SumBody
    <3> QED
        BY <3>2, <3>3
  <2> QED
      BY <2>2
<1>5. Nat \subseteq T
  <2> HIDE DEF T
  <2> QED
      BY <1>3, <1>4, NatInduct
<1>6. Cardinality(S) \in Nat /\ S \in UpTo(S, Cardinality(S))
    BY FS_CardinalityType DEF UpTo
<1>7. iter[S] \in Nat
    BY <1>5, <1>6
<1> QED
    BY <1>7, SumDefined DEF iter

-----------------------------------------------------------------------------
(* Replays: the recursive function behind FoldLeft. *)

Replay(s) == SX!FoldLeft(Apply, FreshContent, s)

ReplayBody(iter, s, p) ==
    IF p = {} THEN FreshContent ELSE Apply(iter[p \ {SX!Max(p)}], s[SX!Max(p)])

\* By the set of positions up to which the events have been applied.
IsReplay(iter, s, n) == iter = [p \in SUBSET (1..n) |-> ReplayBody(iter, s, p)]

\* The same of FoldLeft: it unfolds to the function that IsReplay describes.
LEMMA ReplayDefined ==
    ASSUME NEW s, NEW n, DOMAIN s = 1..n
    PROVE  Replay(s) = (CHOOSE iter : IsReplay(iter, s, n))[1..n]
BY DEF SX!FoldLeft, SX!MapThenFoldSet, Replay, IsReplay, ReplayBody

\* The community operator Max gives the greatest position.
LEMMA MaxOf ==
    ASSUME NEW n \in Nat, NEW p \in SUBSET (1..n), p # {}
    PROVE  SX!Max(p) \in p /\ \A x \in p : SX!Max(p) >= x
<1> DEFINE U == {m \in Nat : \A x \in p : m >= x}
<1>1. n \in U
    OBVIOUS
<1>2. PICK m \in U : \A u \in U : m <= u
    BY <1>1, LeastNumber
<1>3. m \in p
  <2> SUFFICES ASSUME m \notin p PROVE FALSE
      OBVIOUS
  <2>1. \A x \in p : x \in Nat /\ m >= x /\ m # x /\ x # 0
      BY <1>2
  <2>2. m \in Nat /\ m # 0
    <3>1. PICK x \in p : TRUE
        OBVIOUS
    <3>2. x \in Nat /\ m >= x /\ x # 0 /\ m \in Nat
        BY <1>2, <2>1
    <3> QED
        BY <3>2
  <2>3. \A x \in p : m - 1 >= x
      BY <2>1, <2>2
  <2>4. m - 1 \in U /\ ~(m <= m - 1)
      BY <2>2, <2>3
  <2> QED
      BY <1>2, <2>4
<1> QED
    BY <1>2, <1>3 DEF SX!Max

\* There is such a function: each position extends the ones before.
LEMMA ReplayExists ==
    ASSUME NEW s, NEW n \in Nat
    PROVE  \E iter : IsReplay(iter, s, n)
<1> DEFINE T == {k \in Nat : \E iter : IsReplay(iter, s, k)}
<1>1. 0 \in T
  <2> DEFINE g == [p \in SUBSET (1..0) |-> FreshContent]
  <2>1. \A p \in SUBSET (1..0) : p = {}
      OBVIOUS
  <2>2. \A p \in SUBSET (1..0) : ReplayBody(g, s, p) = FreshContent
      BY <2>1 DEF ReplayBody
  <2>3. IsReplay(g, s, 0)
      BY <2>2 DEF IsReplay
  <2> QED
      BY <2>3
<1>2. ASSUME NEW k \in Nat \ {0}, k - 1 \in T PROVE k \in T
  <2>1. PICK g : IsReplay(g, s, k - 1)
      BY <1>2
  <2> DEFINE h == [p \in SUBSET (1..k) |-> ReplayBody(g, s, p)]
  <2>2. ASSUME NEW p \in SUBSET (1..(k - 1)) PROVE h[p] = g[p]
    <3>1. p \in SUBSET (1..k)
        OBVIOUS
    <3>2. g[p] = ReplayBody(g, s, p)
        BY <2>1 DEF IsReplay
    <3> QED
        BY <3>1, <3>2
  <2>3. ASSUME NEW p \in SUBSET (1..k) PROVE ReplayBody(g, s, p) = ReplayBody(h, s, p)
    <3>1. CASE p = {}
        BY <3>1 DEF ReplayBody
    <3>2. CASE p # {}
      <4>1. SX!Max(p) \in p /\ \A x \in p : SX!Max(p) >= x
          BY <3>2, MaxOf
      <4> DEFINE r == p \ {SX!Max(p)}
      <4>2. r \in SUBSET (1..(k - 1))
        <5> SUFFICES ASSUME NEW x \in r PROVE x \in 1..(k - 1)
            OBVIOUS
        <5>1. x \in 1..k /\ SX!Max(p) \in 1..k /\ SX!Max(p) >= x /\ x # SX!Max(p)
            BY <4>1
        <5> QED
            BY <5>1
      <4>3. h[r] = g[r]
          BY <2>2, <4>2
      <4> HIDE DEF h
      <4> QED
          BY <3>2, <4>3 DEF ReplayBody
    <3> QED
        BY <3>1, <3>2
  <2>4. IsReplay(h, s, k)
    <3>1. h = [p \in SUBSET (1..k) |-> h[p]] /\ \A p \in SUBSET (1..k) : h[p] = ReplayBody(g, s, p)
        OBVIOUS
    <3> HIDE DEF h
    <3> QED
        BY <2>3, <3>1 DEF IsReplay
  <2> HIDE DEF h
  <2> QED
      BY <2>4
<1> HIDE DEF T
<1>3. Nat \subseteq T
    BY <1>1, <1>2, NatInduct
<1> QED
    BY <1>3 DEF T

\* The event in the last position is applied last.
LEMMA ReplayStep ==
    ASSUME NEW s, NEW n \in Nat, NEW i, IsReplay(i, s, n), NEW k \in Nat \ {0}, k <= n
    PROVE  i[1..k] = Apply(i[1..(k - 1)], s[k])
<1> DEFINE p == 1..k
<1>1. p \in SUBSET (1..k) /\ p \in SUBSET (1..n) /\ k \in p /\ p \ {k} = 1..(k - 1)
    OBVIOUS
<1> HIDE DEF p
<1>2. SX!Max(p) \in p /\ SX!Max(p) >= k
    BY <1>1, MaxOf
<1>3. SX!Max(p) = k
    BY <1>1, <1>2
<1>4. i[p] = ReplayBody(i, s, p)
    BY <1>1 DEF IsReplay
<1> QED
    BY <1>1, <1>3, <1>4 DEF ReplayBody, p

\* What has been applied up to a position depends on no event after it.
LEMMA ReplayUpTo ==
    ASSUME NEW s, NEW t, NEW m \in Nat, NEW n \in Nat, NEW i, NEW j,
           IsReplay(i, s, m), IsReplay(j, t, n),
           m <= n, \A l \in 1..m : s[l] = t[l]
    PROVE  i[1..m] = j[1..m]
<1> DEFINE T == {k \in Nat : k <= m => i[1..k] = j[1..k]}
<1>1. 0 \in T
  <2>1. 1..0 = {}
      OBVIOUS
  <2>2. {} \in SUBSET (1..m) /\ {} \in SUBSET (1..n)
      OBVIOUS
  <2>3. i[{}] = FreshContent /\ j[{}] = FreshContent
      BY <2>2 DEF IsReplay, ReplayBody
  <2> QED
      BY <2>1, <2>3
<1>2. ASSUME NEW k \in Nat \ {0}, k - 1 \in T PROVE k \in T
  <2> SUFFICES ASSUME k <= m PROVE i[1..k] = j[1..k]
      OBVIOUS
  <2>1. k - 1 <= m /\ k \in 1..m /\ k - 1 \in Nat /\ k <= n
      OBVIOUS
  <2>2. i[1..(k - 1)] = j[1..(k - 1)]
      BY <1>2, <2>1
  <2>3. i[1..k] = Apply(i[1..(k - 1)], s[k]) /\ j[1..k] = Apply(j[1..(k - 1)], t[k])
      BY <2>1, ReplayStep
  <2> QED
      BY <2>1, <2>2, <2>3
<1> HIDE DEF T
<1>3. Nat \subseteq T
    BY <1>1, <1>2, NatInduct
<1> QED
    BY <1>3 DEF T

\* Replaying one event more is applying it to what the others make of the row.
LEMMA ReplayAppend ==
    ASSUME NEW s \in Seq(Events), NEW e \in Events
    PROVE  Replay(Append(s, e)) = Apply(Replay(s), e)
<1> DEFINE t == Append(s, e)
<1>1. PICK n \in Nat : /\ DOMAIN s = 1..n /\ DOMAIN t = 1..(n + 1) /\ t[n + 1] = e
                       /\ \A l \in 1..n : s[l] = t[l]
    <2> WITNESS Len(s) \in Nat
    <2> QED
        OBVIOUS
<1> HIDE DEF t
<1> DEFINE i == CHOOSE iter : IsReplay(iter, s, n)
           j == CHOOSE iter : IsReplay(iter, t, n + 1)
<1>2. n + 1 \in Nat /\ n <= n + 1
    OBVIOUS
<1>3. IsReplay(i, s, n) /\ IsReplay(j, t, n + 1)
    BY <1>2, ReplayExists
<1>4. Replay(s) = i[1..n] /\ Replay(t) = j[1..(n + 1)]
    BY <1>1, ReplayDefined
<1> HIDE DEF i, j
<1>5. i[1..n] = j[1..n]
    BY <1>1, <1>2, <1>3, ReplayUpTo
<1>6. n + 1 \in Nat \ {0} /\ n + 1 <= n + 1 /\ (n + 1) - 1 = n
    OBVIOUS
<1>7. j[1..(n + 1)] = Apply(j[1..n], t[n + 1])
    BY <1>3, <1>6, ReplayStep
<1> QED
    BY <1>1, <1>4, <1>5, <1>7 DEF t

\* No event at all leaves a fresh row.
LEMMA ReplayNone == Replay(<<>>) = FreshContent
<1> DEFINE i == CHOOSE iter : IsReplay(iter, <<>>, 0)
<1>1. DOMAIN <<>> = 1..0 /\ 1..0 = {}
    OBVIOUS
<1>2. Replay(<<>>) = i[1..0] /\ IsReplay(i, <<>>, 0)
    BY <1>1, ReplayDefined, ReplayExists
<1> HIDE DEF i
<1> QED
    BY <1>1, <1>2 DEF IsReplay, ReplayBody

-----------------------------------------------------------------------------
\* Records by their fields, the numbers in them natural.
Shape(r) ==
    /\ r = [content |-> r.content, beat |-> r.beat, version |-> r.version]
    /\ r.beat \in Nat /\ r.version \in Nat

ShapeInv ==
    /\ Shape(row) /\ Shape(tx.copy) /\ Shape(hb.seen)
    /\ tx = [pc |-> tx.pc, event |-> tx.event, attempt |-> tx.attempt,
             copy |-> tx.copy, beats |-> tx.beats]
    /\ hb = [pc |-> hb.pc, seen |-> hb.seen, beat |-> hb.beat]
    /\ tx.attempt \in Nat /\ tx.beats \in Nat /\ hb.beat \in Nat /\ clock \in Nat

\* Nobody has a version, or a time, that is still to come.
PastInv ==
    /\ tx.copy.version <= row.version /\ hb.seen.version <= row.version
    /\ row.beat <= clock /\ hb.beat <= clock /\ tx.copy.beat <= clock

\* An update under way: computed from the row on display, or overtaken.
UpdateInv ==
    /\ stored \subseteq Events /\ tx.pc \in {"idle", "read", "update"}
    /\ tx.pc # "idle" => tx.event \in Events /\ tx.event \notin stored
    /\ tx.attempt > 0 => tx.beats > 0
    /\ tx.pc = "update" =>
        /\ Present /\ ~NewerShown
        /\ tx.copy.content.last = tx.event
        /\ SameVersion => row.beat <= tx.copy.beat
        /\ ~SameVersion => tx.beats > 0

StatusInv ==
    /\ ShapeInv /\ PastInv /\ UpdateInv
    /\ ~Present => row = NoRow
    /\ ConflictHasCause

-----------------------------------------------------------------------------
\* The row names the event that was applied last.
LEMMA ApplyLast ==
    ASSUME NEW content, NEW e
    PROVE  Apply(content, e).last = e
BY DEF Apply

\* At first there is no row and nothing is under way.
LEMMA InitStatus == Init => StatusInv
BY DEF Init, StatusInv, ShapeInv, Shape, PastInv, UpdateInv, NoTx, NoBeat, NoRow,
       Present, ConflictHasCause

\* Every step of the processor and of the heartbeat keeps what is known of copies
\* and versions.
LEMMA StepStatus == StatusInv /\ [Next]_vars => StatusInv'
<1> SUFFICES ASSUME StatusInv, [Next]_vars PROVE StatusInv'
    OBVIOUS
<1> USE DEF StatusInv
<1>1. ASSUME NEW e \in Events, BeginEvent(e) PROVE StatusInv'
  <2>1. tx' = [pc |-> "read", event |-> e, attempt |-> 0, copy |-> NoRow, beats |-> 0]
      BY <1>1 DEF BeginEvent, NoTx
  <2>2. e \notin stored /\ UNCHANGED <<row, stored, hb, clock, failed>>
      BY <1>1 DEF BeginEvent
  <2> QED
    BY <2>1, <2>2 DEF NoRow, ShapeInv, Shape, PastInv, UpdateInv, Present, NewerShown,
       SameVersion, ConflictHasCause
<1>2. CASE ReadStatus
  <2> DEFINE copy == [content |-> Apply(row.content, tx.event), beat |-> clock + 1,
                      version |-> LoadedVersion]
  <2>1. /\ tx' = [pc |-> "update", event |-> tx.event, attempt |-> tx.attempt,
                  copy |-> copy, beats |-> tx.beats]
        /\ tx.pc = "read" /\ Present /\ ~NewerShown /\ clock' = clock + 1
        /\ UNCHANGED <<row, stored, hb, failed>>
      BY <1>2 DEF ReadStatus, ShapeInv
  <2>2. /\ Shape(copy) /\ copy.content.last = tx.event
        /\ copy.beat = clock + 1 /\ copy.version = LoadedVersion
      BY ApplyLast DEF LoadedVersion, ShapeInv, Shape
  <2> HIDE DEF copy
  <2> QED
    BY <2>1, <2>2 DEF LoadedVersion, ShapeInv, Shape, PastInv, UpdateInv, Present, NewerShown,
       SameVersion, ConflictHasCause
<1>3. CASE KeepNewerStatus
    BY <1>3 DEF KeepNewerStatus, Commit, Failure, ShapeInv, Shape, PastInv, UpdateInv, NoTx,
                NoRow, Present, NewerShown, SameVersion, ConflictHasCause
<1>4. CASE CreateStatus
    BY <1>4 DEF CreateStatus, Commit, Failure, ShapeInv, Shape, PastInv, UpdateInv, NoTx,
                NoRow, Present, NewerShown, SameVersion, ConflictHasCause
<1>5. CASE UpdateStatus
  <2>1. /\ row' = [content |-> tx.copy.content, beat |-> tx.copy.beat,
                   version |-> row.version + 1]
        /\ tx.pc = "update" /\ tx' = NoTx /\ stored' = stored \cup {tx.event}
        /\ UNCHANGED <<hb, clock>> /\ ConflictHasCause'
      BY <1>5 DEF UpdateStatus, Commit, Failure, ConflictHasCause, ShapeInv, Shape
  <2>2. tx.copy.beat <= clock
      BY <2>1 DEF PastInv
  <2> QED
    BY <2>1, <2>2 DEF NoTx, NoRow, ShapeInv, Shape, PastInv, UpdateInv, Present, NewerShown,
       SameVersion
<1>6. CASE TryAgain
  <2>1. /\ tx' = [pc |-> "read", event |-> tx.event, attempt |-> tx.attempt + 1,
                  copy |-> tx.copy, beats |-> tx.beats]
        /\ tx.pc = "update" /\ ~SameVersion
        /\ UNCHANGED <<row, stored, hb, clock, failed>>
      BY <1>6 DEF TryAgain, ShapeInv
  <2> QED
    BY <2>1 DEF ShapeInv, Shape, PastInv, UpdateInv, Present, NewerShown,
       SameVersion, ConflictHasCause
<1>7. CASE LoseEvent
    BY <1>7 DEF LoseEvent, RollBack, Failure, ShapeInv, Shape, PastInv, UpdateInv, NoTx,
                NoRow, Present, NewerShown, SameVersion, ConflictHasCause
<1>8. CASE DatabaseError
    BY <1>8 DEF DatabaseError, RollBack, Failure, ShapeInv, Shape, PastInv, UpdateInv, NoTx,
                NoRow, Present, NewerShown, SameVersion, ConflictHasCause
<1>9. CASE BeginBeat
    BY <1>9 DEF BeginBeat, ShapeInv, Shape, PastInv, UpdateInv,
                Present, NewerShown, SameVersion, ConflictHasCause
<1>10. CASE CommitBeat
  <2>1. CASE hb.seen.version = 0
    BY <1>10, <2>1 DEF CommitBeat, NoBeat, NoRow, ShapeInv, Shape, PastInv,
       UpdateInv, Present, NewerShown, SameVersion, ConflictHasCause
  <2>2. CASE hb.seen.version # 0
    <3>1. /\ row' = [content |-> row.content, beat |-> hb.beat, version |-> row.version + 1]
          /\ hb' = NoBeat
          /\ UNCHANGED <<stored, clock, failed>>
        BY <1>10, <2>2 DEF CommitBeat, WriteBeat, ShapeInv, Shape
    <3>2. tx' = [pc |-> tx.pc, event |-> tx.event, attempt |-> tx.attempt, copy |-> tx.copy,
                 beats |-> IF tx.pc = "update" \/ tx.attempt > 0
                           THEN tx.beats + 1 ELSE tx.beats]
        BY <1>10, <2>2 DEF CommitBeat, ShapeInv
    <3>3. ShapeInv' /\ PastInv'
        BY <3>1, <3>2 DEF ShapeInv, Shape, PastInv, NoBeat, NoRow
    <3>4. UpdateInv'
        BY <3>1, <3>2 DEF ShapeInv, Shape, PastInv, UpdateInv, Present, NewerShown, SameVersion
    <3>5. Present' /\ ConflictHasCause'
        BY <3>1 DEF ShapeInv, Shape, Present, ConflictHasCause
    <3> QED
        BY <3>3, <3>4, <3>5
  <2> QED
    BY <2>1, <2>2
<1>11. CASE BeatFails
    BY <1>11 DEF BeatFails, NoBeat, NoRow, ShapeInv, Shape, PastInv, UpdateInv,
                 Present, NewerShown, SameVersion, ConflictHasCause
<1>12. CASE UNCHANGED vars
    BY <1>12 DEF vars, ShapeInv, Shape, PastInv, UpdateInv,
                 Present, NewerShown, SameVersion, ConflictHasCause
<1> QED
    BY <1>1, <1>2, <1>3, <1>4, <1>5, <1>6, <1>7, <1>8, <1>9, <1>10, <1>11, <1>12
    DEF Next, Attempt, Heartbeat

-----------------------------------------------------------------------------
\* The status of an event is lost only when a heartbeat was committed between
\* the processor's read of the row and its last attempt to update it.
THEOREM ConflictsHaveCause == Spec => []ConflictHasCause
<1>1. StatusInv => ConflictHasCause
    BY DEF StatusInv
<1> QED
    BY InitStatus, StepStatus, <1>1, PTL DEF Spec

\* No step of the event processor puts LastAgentHeartbeat back: the compare on
\* RowVersion keeps it from overwriting a heartbeat that it has not seen.
THEOREM HeartbeatsSurvive == Spec => BeatsNotLost
<1>1. StatusInv /\ [Next]_vars
      => [row'.beat < row.beat => hb.pc = "loaded" /\ hb'.pc = "idle"]_vars
  <2> SUFFICES ASSUME StatusInv, Next, row'.beat < row.beat
               PROVE  CommitBeat
      BY DEF CommitBeat, NoBeat, vars
  <2>1. row' = row => FALSE
      BY DEF StatusInv, ShapeInv, Shape
  <2>2. CASE CreateStatus
      BY <2>2 DEF CreateStatus, StatusInv, ShapeInv, Shape, PastInv
  <2>3. CASE UpdateStatus
      BY <2>3 DEF UpdateStatus, StatusInv, ShapeInv, Shape, UpdateInv
  <2> QED
      BY <2>1, <2>2, <2>3 DEF Next, Attempt, Heartbeat, BeginEvent, ReadStatus,
         KeepNewerStatus, TryAgain, LoseEvent, DatabaseError, RollBack, BeginBeat, BeatFails
<1> QED
    BY InitStatus, StepStatus, <1>1, PTL DEF Spec, BeatsNotLost

\* The two writers together keep what EventStore promises: an event's row and
\* its status become visible at once, never twice, and the status never goes
\* back to an older event.
THEOREM StatusRefinement == Spec => PromiseKept
<1>1. Init => Promise!StoreInit
    BY DEF Init, Promise!StoreInit, NoRow, FreshContent
<1>2. StatusInv /\ [Next]_vars => [Promise!StoreNext]_(Promise!storeVars)
  <2> SUFFICES ASSUME StatusInv, [Next]_vars
               PROVE  [Promise!StoreNext]_(Promise!storeVars)
      OBVIOUS
  <2> DEFINE e == tx.event
  <2>1. ASSUME stored' = stored, row'.content.last = row.content.last
        PROVE  [Promise!StoreNext]_(Promise!storeVars)
      BY <2>1 DEF Promise!storeVars
  <2>2. ASSUME tx.pc # "idle"
        PROVE  e \in Events /\ ~Promise!SeqStored(e)
    <3>1. e \in Events /\ e \notin stored /\ stored \subseteq Events
        BY <2>2 DEF StatusInv, UpdateInv
    <3> HIDE DEF e
    <3> QED
        BY <3>1 DEF Promise!SeqStored
  <2>3. CASE KeepNewerStatus
    <3>1. Promise!Store(e)
        BY <2>2, <2>3 DEF KeepNewerStatus, Commit, NewerShown, Promise!Store, Promise!Stale
    <3> QED
        BY <2>2, <2>3, <3>1 DEF KeepNewerStatus, Promise!StoreNext
  <2>4. CASE CreateStatus
    <3>1. row.content.last = NoValue /\ row'.content.last = e
        BY <2>4, ApplyLast DEF CreateStatus, StatusInv, NoRow, FreshContent
    <3>2. Promise!Store(e)
        BY <2>2, <2>4, <3>1 DEF CreateStatus, Commit, Promise!Store, Promise!Stale
    <3> QED
        BY <2>2, <2>4, <3>2 DEF CreateStatus, Promise!StoreNext
  <2>5. CASE UpdateStatus
    <3>1. row'.content.last = e /\ ~NewerShown
        BY <2>5 DEF UpdateStatus, StatusInv, ShapeInv, Shape, UpdateInv
    <3>2. Promise!Store(e)
        BY <2>2, <2>5, <3>1 DEF UpdateStatus, Commit, NewerShown, Promise!Store, Promise!Stale
    <3> QED
        BY <2>2, <2>5, <3>2 DEF UpdateStatus, Promise!StoreNext
  <2>6. CASE CommitBeat
      BY <2>1, <2>6 DEF CommitBeat, WriteBeat, StatusInv, ShapeInv, Shape
  <2> QED
      BY <2>1, <2>3, <2>4, <2>5, <2>6 DEF Next, Attempt, Heartbeat, BeginEvent, ReadStatus,
         TryAgain, LoseEvent, DatabaseError, RollBack, BeginBeat, BeatFails, vars
<1> QED
    BY InitStatus, StepStatus, <1>1, <1>2, PTL DEF Spec, PromiseKept, Promise!StoreSpec

-----------------------------------------------------------------------------
(* The row as the fold of the committed events. *)

\* What one event makes of a row is a row, whose totals are those of its cassettes.
LEMMA ApplyType ==
    ASSUME NEW content \in Contents, NEW e \in Events
    PROVE  Apply(content, e) \in Contents
<1> DEFINE notes == [c \in Cassettes |-> OrElse(NotesOf[e][c], content.notes[c])]
           counted == Counted(e, notes)
           values == [c \in counted |-> notes[c] * Denomination(e, c)]
           said == [a \in Attributes |-> OrElse(Says[e][a], content.said[a])]
<1>1. notes \in [Cassettes -> Nat \cup {NoValue}]
    BY LiveStatusAssumption DEF OrElse, Contents
<1>2. /\ counted \subseteq Cassettes /\ IsFiniteSet(counted)
      /\ \A c \in counted : notes[c] \in Nat
    BY <1>1, LiveStatusAssumption, FS_Subset DEF Counted
<1>3. \A c \in counted : values[c] \in Nat
  <2> SUFFICES ASSUME NEW c \in counted PROVE values[c] \in Nat
      OBVIOUS
  <2>1. Denomination(e, c) \in Nat
      BY <1>2, LiveStatusAssumption DEF Denomination, OrElse
  <2>2. notes[c] \in Nat /\ values[c] = notes[c] * Denomination(e, c)
      BY <1>2
  <2> HIDE DEF notes, counted, values
  <2> QED
      BY <2>1, <2>2
<1>4. said \in [Attributes -> {NoValue} \cup {Says[d][a] : d \in Events, a \in Attributes}]
    BY DEF OrElse, Contents
<1>5. /\ SumFunctionOnSet(notes, counted) \in Nat
      /\ SumFunctionOnSet(values, counted) \in Nat
  <2> HIDE DEF notes, counted, values
  <2> QED
      BY <1>2, <1>3, SumNatural
<1>6. content.total \in Nat \cup {NoValue} /\ content.cash \in Nat \cup {NoValue}
      /\ content.available \in BOOLEAN
    BY DEF Contents
<1> DEFINE total == IF counted = {} THEN content.total ELSE SumFunctionOnSet(notes, counted)
           cash == IF counted = {} THEN content.cash ELSE SumFunctionOnSet(values, counted)
           available == IF counted = {} THEN content.available
                        ELSE SumFunctionOnSet(notes, counted) > 0
<1>7. Apply(content, e) = [said |-> said, last |-> e, notes |-> notes, total |-> total,
                           cash |-> cash, available |-> available]
    BY DEF Apply
<1>8. /\ total \in Nat \cup {NoValue} /\ cash \in Nat \cup {NoValue}
      /\ available \in BOOLEAN /\ e \in Events \cup {NoValue}
  <2> HIDE DEF notes, counted, values
  <2>1. CASE counted = {}
    <3>1. total = content.total /\ cash = content.cash /\ available = content.available
        BY <2>1, Zenon
    <3> QED
        BY <1>6, <3>1, Zenon
  <2>2. CASE counted # {}
    <3>1. total \in Nat /\ cash \in Nat
        BY <1>5, <2>2
    <3>2. available = (SumFunctionOnSet(notes, counted) > 0)
        BY <2>2, Zenon
    <3>3. (SumFunctionOnSet(notes, counted) > 0) \in BOOLEAN
        OBVIOUS
    <3> QED
        BY <3>1, <3>2, <3>3, Zenon
  <2> QED
      BY <2>1, <2>2
<1> HIDE DEF said, notes, total, cash, available
<1> QED
    BY <1>1, <1>4, <1>7, <1>8 DEF Contents

Agree(content) ==
    LET known == {c \in Cassettes : content.notes[c] # NoValue}
    IN  known # {} => /\ content.total = SumFunctionOnSet(content.notes, known)
                      /\ content.available = (content.total > 0)

\* An event computes the totals from all cassettes, those it does not report
\* included.
LEMMA ApplyAgrees ==
    ASSUME NEW content, NEW e
    PROVE  Agree(Apply(content, e))
<1> DEFINE notes == [c \in Cassettes |-> OrElse(NotesOf[e][c], content.notes[c])]
           counted == Counted(e, notes)
<1>1. Apply(content, e).notes = notes
    BY DEF Apply
<1>2. {c \in Cassettes : Apply(content, e).notes[c] # NoValue} = counted
    BY <1>1 DEF Counted
<1>3. counted # {} =>
        /\ Apply(content, e).total = SumFunctionOnSet(notes, counted)
        /\ Apply(content, e).available = (SumFunctionOnSet(notes, counted) > 0)
    BY DEF Apply
<1> HIDE DEF notes, counted
<1> QED
    BY <1>1, <1>2, <1>3 DEF Agree

\* What is under way is the row with one event more.
ReplayInv ==
    /\ tx.pc = "update" => tx.copy.content = Apply(row.content, tx.event)
    /\ applied \in Seq(Events)
    /\ RowIsReplay
    /\ Agree(row.content)

\* The types, and that an event is applied to a row of the type it yields.
TypeInv ==
    /\ TypeOK
    /\ tx.pc # "idle" => tx.event \in Events
\* At first nothing has been applied.
LEMMA InitReplay == Init => ReplayInv
<1> SUFFICES ASSUME Init PROVE ReplayInv
    OBVIOUS
<1>1. /\ tx.pc = "idle" /\ applied = <<>> /\ failed = {} /\ stored = {}
      /\ row.content = FreshContent /\ ~Present
    BY DEF Init, NoTx, NoRow, Present
<1>2. applied \in Seq(Events) /\ Range(applied) = {} /\ IsInjective(applied)
    BY <1>1 DEF Range, IsInjective
<1>3. Agree(row.content)
    BY <1>1 DEF Agree, FreshContent
<1>4. row.content = SX!FoldLeft(Apply, FreshContent, applied)
    BY <1>1, ReplayNone DEF Replay
<1> QED
    BY <1>1, <1>2, <1>3, <1>4 DEF ReplayInv, RowIsReplay

\* A commit adds the event of the transaction at the end of what was applied.
LEMMA CommitReplay ==
    ASSUME StatusInv, ReplayInv, tx.pc # "idle",
           applied' = Append(applied, tx.event), stored' = stored \cup {tx.event},
           row'.content = Apply(row.content, tx.event), Present',
           tx' = NoTx
    PROVE  ReplayInv'
<1> DEFINE e == tx.event
<1>1. e \in Events /\ e \notin stored
    BY DEF StatusInv, UpdateInv
<1>2. applied \in Seq(Events) /\ Range(applied) \subseteq stored /\ IsInjective(applied)
    BY DEF ReplayInv, RowIsReplay
<1> HIDE DEF e
<1> DEFINE s == Append(applied, e)
<1>3. /\ s \in Seq(Events) /\ s # <<>> /\ DOMAIN s = 1..(Len(applied) + 1)
      /\ DOMAIN applied = 1..Len(applied) /\ Len(applied) \in Nat
      /\ s[Len(applied) + 1] = e /\ \A l \in DOMAIN applied : s[l] = applied[l]
    BY <1>1, <1>2
<1> HIDE DEF s
<1>4. \A l \in DOMAIN applied : applied[l] \in stored /\ applied[l] # e
    BY <1>1, <1>2 DEF Range
<1>5. \A l \in DOMAIN s : l \in DOMAIN applied \/ l = Len(applied) + 1
    BY <1>3
<1>6. Range(s) \subseteq stored \cup {e} /\ IsInjective(s)
    BY <1>2, <1>3, <1>4, <1>5 DEF Range, IsInjective
<1>7. row'.content = SX!FoldLeft(Apply, FreshContent, s)
  <2>1. row.content = Replay(applied)
      BY DEF ReplayInv, RowIsReplay, Replay
  <2>2. Replay(s) = Apply(Replay(applied), e)
      BY <1>1, <1>2, ReplayAppend DEF s
  <2>3. row'.content = Apply(row.content, e)
      BY DEF e
  <2> QED
      BY <2>1, <2>2, <2>3 DEF Replay
<1>8. Agree(row'.content)
    BY ApplyAgrees
<1>9. applied' = s /\ stored' = stored \cup {e} /\ tx'.pc = "idle" /\ Present'
    BY DEF NoTx, s, e
<1>10. RowIsReplay'
    BY <1>3, <1>6, <1>7, <1>9 DEF RowIsReplay
<1> QED
    BY <1>3, <1>8, <1>9, <1>10 DEF ReplayInv, Agree

\* Every step keeps the row a replay, and what is under way one event more.
LEMMA StepReplay == StatusInv /\ ReplayInv /\ [Next]_vars => ReplayInv'
<1> SUFFICES ASSUME StatusInv, ReplayInv, [Next]_vars PROVE ReplayInv'
    OBVIOUS
<1> DEFINE Same == /\ UNCHANGED <<stored, applied>>
                   /\ row'.content = row.content /\ (Present' <=> Present)
<1>1. ASSUME Same PROVE RowIsReplay' /\ Agree(row.content)'
      /\ applied' \in Seq(Events)
    BY <1>1 DEF ReplayInv, RowIsReplay, Agree
<1>2. ASSUME NEW e \in Events, BeginEvent(e) PROVE ReplayInv'
  <2>1. tx' = [pc |-> "read", event |-> e, attempt |-> 0, copy |-> NoRow, beats |-> 0]
      BY <1>2 DEF BeginEvent, NoTx
  <2>2. Same
      BY <1>2 DEF BeginEvent, Present
  <2> QED
      BY <1>1, <2>1, <2>2 DEF ReplayInv
<1>3. CASE ReadStatus
  <2>1. /\ tx'.pc = "update" /\ tx'.event = tx.event /\ tx.pc # "idle"
        /\ tx'.copy.content = Apply(row.content, tx.event)
      BY <1>3 DEF ReadStatus, StatusInv, ShapeInv
  <2>2. Same /\ row' = row
      BY <1>3 DEF ReadStatus, Present
  <2> QED
      BY <1>1, <2>1, <2>2 DEF ReplayInv
<1>4. CASE KeepNewerStatus
  <2>1. /\ tx'.pc = "idle" /\ stored' = stored \cup {tx.event} /\ tx.pc # "idle"
        /\ UNCHANGED <<row, applied>>
      BY <1>4 DEF KeepNewerStatus, Commit, NoTx
  <2>2. RowIsReplay'
      BY <2>1 DEF ReplayInv, RowIsReplay, Present
  <2> QED
      BY <2>1, <2>2 DEF ReplayInv, Agree
<1>5. CASE CreateStatus
  <2>1. row.content = FreshContent
      BY <1>5 DEF CreateStatus, StatusInv, NoRow
  <2>2. row'.content = Apply(row.content, tx.event) /\ Present'
      BY <1>5, <2>1 DEF CreateStatus, Present
  <2> QED
      BY <1>5, <2>2, CommitReplay DEF CreateStatus, Commit
<1>6. CASE UpdateStatus
  <2>1. row' = [content |-> tx.copy.content, beat |-> tx.copy.beat,
                version |-> row.version + 1]
      BY <1>6 DEF UpdateStatus, StatusInv, ShapeInv, Shape
  <2>2. row'.content = Apply(row.content, tx.event) /\ Present'
      BY <1>6, <2>1 DEF UpdateStatus, ReplayInv, Present, StatusInv, ShapeInv, Shape
  <2> QED
      BY <1>6, <2>2, CommitReplay DEF UpdateStatus, Commit
<1>7. CASE TryAgain
  <2>1. tx'.pc = "read" /\ tx'.event = tx.event /\ tx.pc # "idle"
      BY <1>7 DEF TryAgain, StatusInv, ShapeInv
  <2>2. Same
      BY <1>7 DEF TryAgain, Present
  <2> QED
      BY <1>1, <2>1, <2>2 DEF ReplayInv
<1>8. CASE LoseEvent \/ DatabaseError
  <2>1. tx'.pc = "idle" /\ Same
      BY <1>8 DEF LoseEvent, DatabaseError, RollBack, NoTx, Present
  <2> QED
      BY <1>1, <2>1 DEF ReplayInv
<1>9. CASE BeginBeat \/ BeatFails
  <2>1. Same /\ UNCHANGED <<tx, row>>
      BY <1>9 DEF BeginBeat, BeatFails, Present
  <2> QED
      BY <1>1, <2>1 DEF ReplayInv
<1>10. CASE CommitBeat
  <2>1. /\ row'.content = row.content /\ (Present' <=> Present)
        /\ UNCHANGED <<stored, applied>>
      BY <1>10 DEF CommitBeat, WriteBeat, Present, StatusInv, ShapeInv, Shape, PastInv
  <2>2. tx'.pc = tx.pc /\ tx'.event = tx.event /\ tx'.copy = tx.copy
      BY <1>10 DEF CommitBeat, StatusInv, ShapeInv
  <2> QED
      BY <1>1, <2>1, <2>2 DEF ReplayInv
<1>11. CASE UNCHANGED vars
  <2>1. Same /\ UNCHANGED <<tx, row>>
      BY <1>11 DEF vars, Present
  <2> QED
      BY <1>1, <2>1 DEF ReplayInv
<1> QED
    BY <1>2, <1>3, <1>4, <1>5, <1>6, <1>7, <1>8, <1>9, <1>10, <1>11
    DEF Next, Attempt, Heartbeat

\* Whatever the heartbeats overtake and however often an update is repeated, the
\* row is what the committed events make of a fresh one, in the order of their
\* commits, each of them once (process_result and _send_heartbeat).
THEOREM StatusIsReplay == Spec => []RowIsReplay
<1>1. ReplayInv => RowIsReplay
    BY DEF ReplayInv
<1> QED
    BY InitStatus, StepStatus, InitReplay, StepReplay, <1>1, PTL DEF Spec

\* Total and availability on display are those of the cassettes on display, for
\* any cassettes and whichever of them an event reports (_apply_status_updates).
THEOREM TotalsFollowCassettes == Spec => []TotalsAgree
<1>1. ReplayInv => TotalsAgree
    BY DEF ReplayInv, Agree, TotalsAgree
<1> QED
    BY InitStatus, StepStatus, InitReplay, StepReplay, <1>1, PTL DEF Spec

-----------------------------------------------------------------------------

(* The types. *)

Txs == [pc : {"idle", "read", "update"}, event : Events \cup {NoValue},
        attempt : 0..(Attempts - 1), copy : StatusRows, beats : Nat]
Beats == [pc : {"idle", "loaded"}, seen : StatusRows, beat : Nat]
Failures == [event : Events, cause : {"conflict", "database", "commit"}, beats : Nat]

\* What stands for nothing at all has its type.
LEMMA RestType == FreshContent \in Contents /\ NoRow \in StatusRows /\ NoTx \in Txs /\ NoBeat \in Beats
<1>1. FreshContent \in Contents
    BY DEF FreshContent, Contents
<1>2. NoRow \in StatusRows
    BY <1>1 DEF NoRow, StatusRows
<1>3. 0 \in 0..(Attempts - 1)
    BY LiveStatusAssumption
<1> QED
    BY <1>1, <1>2, <1>3 DEF NoTx, NoBeat, Txs, Beats

\* The types hold at first,
LEMMA InitType == Init => TypeInv
BY RestType, LiveStatusAssumption DEF Init, TypeInv, TypeOK, Txs, Beats, NoTx

\* and every step keeps them.
LEMMA StepType == TypeInv /\ [Next]_vars => TypeInv'
<1> SUFFICES ASSUME TypeInv, [Next]_vars PROVE TypeInv'
    OBVIOUS
<1>0. /\ row \in StatusRows /\ tx \in Txs /\ hb \in Beats /\ clock \in Nat
      /\ stored \subseteq Events /\ applied \in Seq(Events) /\ beats \in 0..MaxBeats
      /\ failed \subseteq Failures /\ (tx.pc # "idle" => tx.event \in Events)
    BY DEF TypeInv, TypeOK, Txs, Beats, Failures
<1> SUFFICES /\ row' \in StatusRows /\ tx' \in Txs /\ hb' \in Beats /\ clock' \in Nat
             /\ stored' \subseteq Events /\ applied' \in Seq(Events) /\ beats' \in 0..MaxBeats
             /\ failed' \subseteq Failures /\ (tx'.pc # "idle" => tx'.event \in Events)
    BY DEF TypeInv, TypeOK, Txs, Beats, Failures
<1>1. /\ tx.attempt \in 0..(Attempts - 1) /\ tx.copy \in StatusRows /\ tx.beats \in Nat
      /\ row.content \in Contents /\ row.beat \in Nat /\ row.version \in Nat
      /\ tx.copy.content \in Contents /\ tx.copy.beat \in Nat /\ tx.copy.version \in Nat
      /\ hb.beat \in Nat /\ hb.seen \in StatusRows
    BY <1>0 DEF Txs, Beats, StatusRows
<1>2. 0 \in 0..(Attempts - 1) /\ NoTx.pc = "idle"
    BY LiveStatusAssumption DEF NoTx
<1>3. ASSUME NEW e \in Events, BeginEvent(e)
      PROVE  /\ tx' \in Txs /\ tx'.event \in Events
             /\ UNCHANGED <<row, stored, hb, clock, applied, failed, beats>>
  <2>1. tx' = [pc |-> "read", event |-> e, attempt |-> 0, copy |-> NoRow, beats |-> 0]
      BY <1>3 DEF BeginEvent, NoTx
  <2> QED
      BY <1>2, <1>3, <2>1, RestType DEF BeginEvent, Txs
<1>4. CASE ReadStatus
  <2> DEFINE copy == [content |-> Apply(row.content, tx.event), beat |-> clock + 1,
                      version |-> LoadedVersion]
  <2>1. tx.event \in Events
      BY <1>0, <1>4 DEF ReadStatus
  <2>2. copy \in StatusRows
      BY <1>0, <1>1, <2>1, ApplyType DEF StatusRows, LoadedVersion
  <2>3. tx' = [tx EXCEPT !.pc = "update", !.copy = copy] /\ clock' = clock + 1
        /\ UNCHANGED <<row, stored, hb, applied, failed, beats>>
      BY <1>4 DEF ReadStatus
  <2> HIDE DEF copy
  <2>4. tx' \in Txs /\ tx'.event = tx.event
      BY <1>0, <2>2, <2>3 DEF Txs
  <2> QED
      BY <1>0, <2>1, <2>3, <2>4
<1>4a. tx.pc # "idle" /\ Commit => failed' \subseteq Failures
    BY <1>0, <1>1 DEF Commit, Failure, Failures
<1>5. CASE KeepNewerStatus
    BY <1>0, <1>2, <1>5, <1>4a, RestType DEF KeepNewerStatus, Commit
<1>6. CASE CreateStatus
  <2> DEFINE content == Apply(FreshContent, tx.event)
  <2>1. tx.event \in Events /\ content \in Contents
      BY <1>0, <1>6, RestType, ApplyType DEF CreateStatus
  <2>2. /\ row' = [content |-> content, beat |-> clock + 1, version |-> 2]
        /\ clock' = clock + 1
        /\ applied' = Append(applied, tx.event) /\ stored' = stored \cup {tx.event}
        /\ tx' = NoTx /\ UNCHANGED <<hb, beats>> /\ failed' \subseteq Failures
      BY <1>6, <1>4a DEF CreateStatus, Commit
  <2> HIDE DEF content
  <2> QED
      BY <1>0, <1>2, <2>1, <2>2, RestType DEF StatusRows
<1>7. CASE UpdateStatus
  <2>1. tx.event \in Events
      BY <1>0, <1>7 DEF UpdateStatus
  <2>2. /\ row' = [content |-> tx.copy.content, beat |-> tx.copy.beat,
                   version |-> row.version + 1]
        /\ applied' = Append(applied, tx.event) /\ stored' = stored \cup {tx.event}
        /\ tx' = NoTx /\ UNCHANGED <<hb, clock, beats>> /\ failed' \subseteq Failures
      BY <1>1, <1>7, <1>4a DEF UpdateStatus, Commit, StatusRows
  <2>3. row' \in StatusRows
      BY <1>1, <2>2 DEF StatusRows
  <2> QED
      BY <1>0, <1>2, <2>1, <2>2, <2>3, RestType
<1>8. CASE TryAgain
  <2>1. /\ tx.attempt + 1 < Attempts /\ tx.event \in Events
        /\ tx' = [tx EXCEPT !.pc = "read", !.attempt = tx.attempt + 1]
        /\ UNCHANGED <<row, stored, hb, clock, applied, failed, beats>>
      BY <1>0, <1>8 DEF TryAgain
  <2>2. tx.attempt + 1 \in 0..(Attempts - 1)
      BY <1>1, <2>1, LiveStatusAssumption
  <2>3. tx' \in Txs /\ tx'.event = tx.event
      BY <1>0, <2>1, <2>2 DEF Txs
  <2> QED
      BY <1>0, <2>1, <2>3
<1>9. ASSUME NEW cause \in {"conflict", "database"}, tx.pc # "idle", RollBack(cause)
      PROVE  /\ tx' = NoTx /\ failed' \subseteq Failures
             /\ UNCHANGED <<row, stored, hb, clock, applied, beats>>
    BY <1>0, <1>1, <1>9 DEF RollBack, Failure, Failures
<1>10. CASE LoseEvent \/ DatabaseError
    BY <1>0, <1>2, <1>9, <1>10, RestType DEF LoseEvent, DatabaseError
<1>11. CASE BeginBeat
    BY <1>0, <1>11, LiveStatusAssumption DEF BeginBeat, Beats
<1>12. CASE CommitBeat
  <2>1. row' = row
        \/ row' = [content |-> row.content, beat |-> hb.beat, version |-> row.version + 1]
      BY <1>0, <1>12 DEF CommitBeat, WriteBeat, StatusRows
  <2>2. row' \in StatusRows
      BY <1>0, <1>1, <2>1 DEF StatusRows
  <2>3. tx' \in Txs /\ tx'.event = tx.event /\ tx'.pc = tx.pc
      BY <1>0, <1>1, <1>12 DEF CommitBeat, Txs
  <2> QED
      BY <1>0, <1>12, <2>2, <2>3, RestType DEF CommitBeat
<1>13. CASE BeatFails
    BY <1>0, <1>13, RestType DEF BeatFails
<1>14. CASE UNCHANGED vars
    BY <1>0, <1>14 DEF vars
<1> QED
    BY <1>0, <1>3, <1>4, <1>5, <1>6, <1>7, <1>8, <1>10, <1>11, <1>12, <1>13, <1>14
    DEF Next, Attempt, Heartbeat

\* Every variable has its type: no update is attempted more than
\* concurrency_attempts times, and no event makes a total negative.
THEOREM StatusTypes == Init /\ [][Next]_vars => []TypeOK
<1>1. TypeInv => TypeOK
    BY DEF TypeInv
<1> QED
    BY InitType, StepType, <1>1, PTL
=============================================================================

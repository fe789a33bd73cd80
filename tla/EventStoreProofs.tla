-------------------------- MODULE EventStoreProofs --------------------------
(***************************************************************************)
(* Proofs about EventStore for every set of events and every limit: what is *)
(* acknowledged is on the disk, what is gone stays gone, and the store      *)
(* implements HistoryLog.                                                  *)
(***************************************************************************)
EXTENDS EventStore, FiniteSetTheorems, SequenceTheorems, WellFoundedInduction, TLAPS

(***************************************************************************)
(* The operators of the store.                                             *)
(***************************************************************************)

\* Pruning invents no record.
LEMMA PrunedSubset == \A S : Pruned(S) \subseteq S
  BY DEF Pruned, From, Unexpired

\* A set of numbers that has 0, and the next of each it has, has them all.
LEMMA NatInductive ==
  ASSUME NEW B \in SUBSET Nat, 0 \in B, \A n \in B : n + 1 \in B
  PROVE  B = Nat
<1> SUFFICES ASSUME Nat \ B # {} PROVE FALSE
  OBVIOUS
<1> DEFINE R == OpToRel(<, Nat)
           C == Nat \ B
<1>1. C \subseteq Nat /\ C # {}
  OBVIOUS
<1>2. PICK m \in C : \A n \in C : <<n, m>> \notin R
  <2> HIDE DEF C
  <2> QED
    BY <1>1, WFMin, NatLessThanWellFounded, Zenon
<1>3. \A n \in C : ~(n < m)
  BY <1>1, <1>2 DEF OpToRel
<1>4. m \in Nat /\ m # 0 /\ m \notin B
  OBVIOUS
<1>5. m - 1 \in Nat /\ m - 1 < m /\ (m - 1) + 1 = m
  BY <1>4
<1>6. m - 1 \in B
  BY <1>3, <1>5
<1> QED
  BY <1>4, <1>5, <1>6

\* The sum that MapThenSumSet takes, element by element.
Picked(S) == CHOOSE r \in S : TRUE
Added(f, S) == IF S = {} THEN 0 ELSE BytesOf(Picked(S)) + f[S \ {Picked(S)}]
Sums(S) == CHOOSE f : f = [T \in SUBSET S |-> Added(f, T)]

LEMMA BytesUnfolds == \A S : Bytes(S) = Sums(S)[S]
<1> SUFFICES ASSUME NEW S PROVE Bytes(S) = Sums(S)[S]
  OBVIOUS
<1> QED
  BY DEF Bytes, MapThenSumSet, MapThenFoldSet, Sums, Added, Picked

\* The line of a record has a size.
LEMMA SizeOfRecord == \A r \in Records : BytesOf(r) \in Nat
  BY StoreAssumption DEF BytesOf, Records

\* What is left when the element to add first is taken out.
LEMMA PickedOut ==
  ASSUME NEW S, IsFiniteSet(S), S # {}
  PROVE  /\ Picked(S) \in S
         /\ IsFiniteSet(S \ {Picked(S)})
         /\ Cardinality(S) \in Nat /\ Cardinality(S \ {Picked(S)}) = Cardinality(S) - 1
         /\ Cardinality(S) # 0
  BY FS_RemoveElement, FS_CardinalityType, FS_EmptySet DEF Picked

\* Two functions that add up the subsets of a finite set in this way are the same.
LEMMA SumsAgree ==
  ASSUME NEW S, IsFiniteSet(S), NEW f, NEW g,
         \A T \in SUBSET S : f[T] = Added(f, T) /\ g[T] = Added(g, T)
  PROVE  \A T \in SUBSET S : f[T] = g[T]
<1> DEFINE B == {n \in Nat : \A T \in SUBSET S : Cardinality(T) <= n => f[T] = g[T]}
<1>1. \A T \in SUBSET S : IsFiniteSet(T) /\ Cardinality(T) \in Nat /\ Cardinality(T) <= Cardinality(S)
  BY FS_Subset, FS_CardinalityType
<1>2. 0 \in B
  <2> SUFFICES ASSUME NEW T \in SUBSET S, Cardinality(T) <= 0  PROVE f[T] = g[T]
    OBVIOUS
  <2>1. T = {}
    BY <1>1, FS_EmptySet
  <2> QED  BY <2>1 DEF Added
<1>3. ASSUME NEW n \in B  PROVE n + 1 \in B
  <2> SUFFICES ASSUME NEW T \in SUBSET S, Cardinality(T) <= n + 1  PROVE f[T] = g[T]
    OBVIOUS
  <2>1. CASE T = {}
    BY <2>1 DEF Added
  <2>2. CASE T # {}
    <3> DEFINE U == T \ {Picked(T)}
    <3>1. U \in SUBSET S /\ Cardinality(U) <= n
      BY <1>1, <2>2, PickedOut
    <3>2. f[U] = g[U]
      BY <3>1
    <3> QED  BY <2>2, <3>2 DEF Added
  <2> QED  BY <2>1, <2>2
<1>4. B = Nat
  <2> HIDE DEF B
  <2>1. B \in SUBSET Nat
    BY DEF B
  <2> QED  BY <1>2, <1>3, <2>1, NatInductive
<1>5. Cardinality(S) \in B
  BY <1>4, FS_CardinalityType
<1> QED  BY <1>1, <1>5

\* There is a function that adds up every subset of a finite set.
LEMMA SumsExist ==
  ASSUME NEW S \in SUBSET Records, IsFiniteSet(S)
  PROVE  /\ Sums(S) \in [SUBSET S -> Nat]
         /\ \A T \in SUBSET S : Sums(S)[T] = Added(Sums(S), T)
<1> DEFINE Upto(f, n) == \A T \in SUBSET S : Cardinality(T) <= n => f[T] = Added(f, T)
           B == {n \in Nat : \E f \in [SUBSET S -> Nat] : Upto(f, n)}
           More(f) == [T \in SUBSET S |-> Added(f, T)]
<1>1. \A T \in SUBSET S : IsFiniteSet(T) /\ Cardinality(T) \in Nat /\ Cardinality(T) <= Cardinality(S)
  BY FS_Subset, FS_CardinalityType
<1>2. \A f \in [SUBSET S -> Nat] : More(f) \in [SUBSET S -> Nat]
  <2>1. ASSUME NEW f \in [SUBSET S -> Nat], NEW T \in SUBSET S
        PROVE  Added(f, T) \in Nat
    <3>1. CASE T = {}
      BY <3>1 DEF Added
    <3>2. CASE T # {}
      <4>1. Picked(T) \in T /\ T \ {Picked(T)} \in SUBSET S
        BY <1>1, <3>2, PickedOut
      <4>2. BytesOf(Picked(T)) \in Nat /\ f[T \ {Picked(T)}] \in Nat
        BY <4>1, SizeOfRecord
      <4> QED  BY <3>2, <4>2 DEF Added
    <3> QED  BY <3>1, <3>2
  <2> QED  BY <2>1
<1>3. \A n \in Nat, f \in [SUBSET S -> Nat] :
        Upto(f, n) => Upto(More(f), n + 1)
  <2> SUFFICES ASSUME NEW n \in Nat, NEW f \in [SUBSET S -> Nat], Upto(f, n),
                      NEW T \in SUBSET S, Cardinality(T) <= n + 1
               PROVE  More(f)[T] = Added(More(f), T)
    OBVIOUS
  <2>1. More(f)[T] = Added(f, T)
    OBVIOUS
  <2>2. CASE T = {}
    BY <2>1, <2>2 DEF Added
  <2>3. CASE T # {}
    <3> DEFINE U == T \ {Picked(T)}
    <3>1. U \in SUBSET S /\ Cardinality(U) <= n
      BY <1>1, <2>3, PickedOut
    <3>2. More(f)[U] = f[U]
      BY <3>1
    <3> QED  BY <2>1, <2>3, <3>2 DEF Added
  <2> QED  BY <2>2, <2>3
<1>4. 0 \in B
  <2> DEFINE f == [T \in SUBSET S |-> 0]
  <2>1. f \in [SUBSET S -> Nat]
    OBVIOUS
  <2>2. ASSUME NEW T \in SUBSET S, Cardinality(T) <= 0  PROVE f[T] = Added(f, T)
    <3>1. T = {}
      BY <1>1, <2>2, FS_EmptySet
    <3> QED  BY <3>1 DEF Added
  <2>3. Upto(f, 0)
    BY <2>2
  <2> QED  BY <2>1, <2>3
<1>5. ASSUME NEW n \in B  PROVE n + 1 \in B
  <2>1. PICK f \in [SUBSET S -> Nat] : Upto(f, n)
    BY <1>5
  <2>2. n \in Nat /\ n + 1 \in Nat
    OBVIOUS
  <2>3. More(f) \in [SUBSET S -> Nat]
    BY <1>2, <2>1
  <2>4. Upto(More(f), n + 1)
    <3> HIDE DEF Upto, More
    <3> QED  BY <1>3, <2>1, <2>2
  <2> HIDE DEF Upto, More
  <2> QED  BY <2>2, <2>3, <2>4
<1>6. B = Nat
  <2> HIDE DEF B
  <2>1. B \in SUBSET Nat
    BY DEF B
  <2> QED  BY <1>4, <1>5, <2>1, NatInductive
<1>7. PICK f \in [SUBSET S -> Nat] : Upto(f, Cardinality(S))
  <2>1. Cardinality(S) \in B
    BY <1>6, FS_CardinalityType
  <2> QED  BY <2>1
<1>8. \A T \in SUBSET S : f[T] = Added(f, T)
  BY <1>1, <1>7
<1>9. f = [T \in SUBSET S |-> Added(f, T)]
  BY <1>8
<1>10. Sums(S) = [T \in SUBSET S |-> Added(Sums(S), T)]
  BY <1>9 DEF Sums
<1>11. \A T \in SUBSET S : Sums(S)[T] = Added(Sums(S), T)
  BY <1>10
<1>12. \A T \in SUBSET S : f[T] = Sums(S)[T]
  BY <1>8, <1>11, SumsAgree
<1>13. Sums(S) \in [SUBSET S -> Nat]
  BY <1>10, <1>12
<1> QED  BY <1>11, <1>13

\* The bytes of a set of records: none of nothing, one line more for one record more.
LEMMA BytesOfSubset ==
  ASSUME NEW S \in SUBSET Records, IsFiniteSet(S), NEW T \in SUBSET S
  PROVE  Bytes(T) = Sums(S)[T] /\ Bytes(T) \in Nat
<1>1. IsFiniteSet(T) /\ T \in SUBSET Records
  BY FS_Subset
<1>2. \A U \in SUBSET T : Sums(T)[U] = Added(Sums(T), U)
  BY <1>1, SumsExist
<1>3. Sums(S) \in [SUBSET S -> Nat] /\ \A U \in SUBSET S : Sums(S)[U] = Added(Sums(S), U)
  BY SumsExist
<1>4. \A U \in SUBSET T : Sums(S)[U] = Added(Sums(S), U)
  BY <1>3
<1>5. \A U \in SUBSET T : Sums(T)[U] = Sums(S)[U]
  BY <1>1, <1>2, <1>4, SumsAgree
<1> QED  BY <1>3, <1>5, BytesUnfolds

LEMMA BytesRecursion ==
  ASSUME NEW S \in SUBSET Records, IsFiniteSet(S), S # {}
  PROVE  Bytes(S) = BytesOf(Picked(S)) + Bytes(S \ {Picked(S)})
<1>1. Sums(S)[S] = Added(Sums(S), S)
  BY SumsExist
<1>2. Bytes(S) = Sums(S)[S] /\ Bytes(S \ {Picked(S)}) = Sums(S)[S \ {Picked(S)}]
  BY BytesOfSubset
<1> QED  BY <1>1, <1>2 DEF Added

\* Whichever record is taken out, its line is what the rest is smaller by.
LEMMA BytesWithout ==
  ASSUME NEW S \in SUBSET Records, IsFiniteSet(S)
  PROVE  \A r \in S : Bytes(S) = BytesOf(r) + Bytes(S \ {r})
<1> DEFINE Same(T) == \A r \in T : Bytes(T) = BytesOf(r) + Bytes(T \ {r})
           B == {n \in Nat : \A T \in SUBSET S : Cardinality(T) <= n => Same(T)}
<1>1. \A T \in SUBSET S : IsFiniteSet(T) /\ Cardinality(T) \in Nat /\ Bytes(T) \in Nat
  BY FS_Subset, FS_CardinalityType, BytesOfSubset
<1>2. 0 \in B
  <2> SUFFICES ASSUME NEW T \in SUBSET S, Cardinality(T) <= 0  PROVE Same(T)
    OBVIOUS
  <2>1. T = {}
    BY <1>1, FS_EmptySet
  <2> QED  BY <2>1
<1>3. ASSUME NEW n \in B  PROVE n + 1 \in B
  <2> SUFFICES ASSUME NEW T \in SUBSET S, Cardinality(T) <= n + 1, NEW r \in T
               PROVE  Bytes(T) = BytesOf(r) + Bytes(T \ {r})
    OBVIOUS
  <2> DEFINE p == Picked(T)
             V == (T \ {p}) \ {r}
  <2>1. T # {} /\ p \in T /\ Bytes(T) = BytesOf(p) + Bytes(T \ {p})
    BY <1>1, PickedOut, BytesRecursion
  <2>2. CASE r = p
    BY <2>1, <2>2
  <2>3. CASE r # p
    <3>1. \A q \in T : T \ {q} \in SUBSET S /\ Cardinality(T \ {q}) <= n
      BY <1>1, FS_RemoveElement
    <3>2. \A q \in T : Same(T \ {q})
      BY <3>1
    <3>3. Bytes(T \ {p}) = BytesOf(r) + Bytes(V)
      BY <2>1, <2>3, <3>2
    <3>4. (T \ {r}) \ {p} = V
      OBVIOUS
    <3>5. Bytes(T \ {r}) = BytesOf(p) + Bytes(V)
      BY <2>1, <2>3, <3>2, <3>4
    <3>6. BytesOf(p) \in Nat /\ BytesOf(r) \in Nat /\ Bytes(V) \in Nat
      BY <1>1, <2>1, SizeOfRecord
    <3> HIDE DEF p, V
    <3> QED  BY <2>1, <3>3, <3>5, <3>6
  <2> QED  BY <2>2, <2>3
<1>4. B = Nat
  <2> HIDE DEF B
  <2>1. B \in SUBSET Nat
    BY DEF B
  <2> QED  BY <1>2, <1>3, <2>1, NatInductive
<1>5. Cardinality(S) \in B
  BY <1>4, FS_CardinalityType
<1>6. Same(S)
  BY <1>1, <1>5
<1> QED  BY <1>6

\* Fewer records have fewer bytes.
LEMMA BytesMonotone ==
  ASSUME NEW S \in SUBSET Records, IsFiniteSet(S), NEW T \in SUBSET S
  PROVE  Bytes(T) <= Bytes(S)
<1> DEFINE B == {n \in Nat : \A U \in SUBSET S :
                   T \subseteq U /\ Cardinality(U) <= n => Bytes(T) <= Bytes(U)}
<1>1. \A U \in SUBSET S : IsFiniteSet(U) /\ Cardinality(U) \in Nat /\ Bytes(U) \in Nat
  BY FS_Subset, FS_CardinalityType, BytesOfSubset
<1>2. 0 \in B
  <2> SUFFICES ASSUME NEW U \in SUBSET S, T \subseteq U, Cardinality(U) <= 0
               PROVE  Bytes(T) <= Bytes(U)
    OBVIOUS
  <2>1. U = {} /\ T = U
    BY <1>1, FS_EmptySet
  <2> QED  BY <1>1, <2>1
<1>3. ASSUME NEW n \in B  PROVE n + 1 \in B
  <2> SUFFICES ASSUME NEW U \in SUBSET S, T \subseteq U, Cardinality(U) <= n + 1
               PROVE  Bytes(T) <= Bytes(U)
    OBVIOUS
  <2>1. CASE T = U
    BY <1>1, <2>1
  <2>2. ASSUME NEW r \in U, r \notin T  PROVE Bytes(T) <= Bytes(U)
    <3>1. U \ {r} \in SUBSET S /\ Cardinality(U \ {r}) <= n /\ T \subseteq U \ {r}
      BY <1>1, <2>2, FS_RemoveElement
    <3>2. Bytes(T) <= Bytes(U \ {r})
      BY <3>1
    <3>3. Bytes(U) = BytesOf(r) + Bytes(U \ {r})
      BY <1>1, <2>2, BytesWithout
    <3>4. BytesOf(r) \in Nat /\ Bytes(U \ {r}) \in Nat /\ Bytes(T) \in Nat
      BY <1>1, <3>1, <2>2, SizeOfRecord
    <3> QED  BY <3>2, <3>3, <3>4
  <2> QED  BY <2>1, <2>2
<1>4. B = Nat
  <2> HIDE DEF B
  <2>1. B \in SUBSET Nat
    BY DEF B
  <2> QED  BY <1>2, <1>3, <2>1, NatInductive
<1>5. Cardinality(S) \in B
  BY <1>4, FS_CardinalityType
<1> QED  BY <1>1, <1>5

\* A set of numbers with an upper bound has a greatest element.
LEMMA BoundedMax ==
  ASSUME NEW S \in SUBSET Nat, S # {}, NEW b \in Nat, \A n \in S : n <= b
  PROVE  Max(S) \in S /\ \A n \in S : n <= Max(S)
<1> DEFINE R == OpToRel(<, Nat)
           D == {b - n : n \in S}
<1>1. D \subseteq Nat /\ D # {}
  <2>1. \A n \in S : b - n \in Nat
    OBVIOUS
  <2>2. QED
    BY <2>1, Zenon
<1>2. PICK d \in D : \A e \in D : <<e, d>> \notin R
  <2> HIDE DEF D
  <2> QED
    BY <1>1, WFMin, NatLessThanWellFounded, Zenon
<1>3. \A e \in D : ~(e < d)
  BY <1>1, <1>2 DEF OpToRel
<1>4. PICK m \in S : d = b - m
  BY <1>2
<1>5. \A n \in S : m >= n
  <2> SUFFICES ASSUME NEW n \in S PROVE m >= n
    OBVIOUS
  <2>1. ~(b - n < d)
    BY <1>3
  <2>2. b \in Nat /\ m \in Nat /\ n \in Nat
    OBVIOUS
  <2> HIDE DEF D
  <2>3. QED
    BY <1>4, <2>1, <2>2
<1>6. QED
  BY <1>5 DEF Max

\* The number ready() continues with is above every number it found.
LEMMA NextAfterAbove ==
  ASSUME NEW S \in SUBSET Records, NEW b \in Nat, \A r \in S : r.sequence <= b
  PROVE  /\ NextAfter(S) \in Nat \ {0}
         /\ NextAfter(S) <= b + 1
         /\ \A r \in S : r.sequence < NextAfter(S)
<1> DEFINE N == {0} \cup {r.sequence : r \in S}
<1>1. N \in SUBSET Nat /\ N # {} /\ \A n \in N : n <= b
  BY DEF Records
<1>2. Max(N) \in N /\ \A n \in N : n <= Max(N)
  <2> HIDE DEF N
  <2> QED
    BY <1>1, BoundedMax
<1>3. NextAfter(S) = Max(N) + 1
  BY DEF NextAfter
<1>4. \A r \in S : r.sequence \in N
  OBVIOUS
<1> HIDE DEF N
<1>5. Max(N) \in Nat /\ Max(N) <= b
  BY <1>1, <1>2
<1>6. \A r \in S : r.sequence \in Nat /\ r.sequence <= Max(N)
  BY <1>1, <1>2, <1>4
<1>7. QED
  BY <1>3, <1>5, <1>6

\* Whatever part of a line was written, the lines before it are kept, and the
\* file's types with them.
LEMMA PrefixesType ==
  ASSUME TypeOK, NEW r \in Records, NEW f \in Prefixes(r)
  PROVE  f \in Files
<1>1. WithPart \in Files
  BY DEF WithPart, TypeOK, Files
<1>2. WithUnended(r) \in Files
  BY <1>1 DEF WithUnended, TypeOK, Files
<1>3. WithLine(r) \in Files
  BY DEF WithLine, TypeOK, Files
<1>4. QED
  BY <1>1, <1>2, <1>3 DEF Prefixes, TypeOK

\* A rewrite of the file keeps its types.
LEMMA CompactType ==
  ASSUME NEW S \in SUBSET Records, Compact(S)
  PROVE  /\ file' \in Files
         /\ dirty' \in BOOLEAN /\ maintenanceError' \in BOOLEAN
         /\ faults' = faults
  BY DEF Compact, CleanFile, Files

(***************************************************************************)
(* Type correctness.                                                       *)
(***************************************************************************)

\* The job at the head of the chain settles: the chain keeps its type.
LEMMA FinishType ==
  ASSUME TypeOK, queue # <<>>, Finish
  PROVE  queue' \in Seq(Jobs)
  BY HeadTailProperties DEF Finish, TypeOK

\* The repair before an append keeps the types.
LEMMA RecoverType ==
  ASSUME TypeOK, Recover
  PROVE  file' \in Files /\ dirty' \in BOOLEAN /\ maintenanceError' \in BOOLEAN /\ faults' \in Nat
<1>1. CASE maintenanceError
  BY <1>1, CompactType DEF Recover, TypeOK
<1>2. CASE ~maintenanceError
  BY <1>2 DEF Recover, TypeOK
<1>3. QED
  BY <1>1, <1>2

\* Every job keeps the types.
LEMMA JobTypes ==
  ASSUME TypeOK, IInv, Job
  PROVE  TypeOK'
<1> USE DEF TypeOK
<1>1. LiveReceipts \in SUBSET Receipts
  BY DEF LiveReceipts
<1>2. CASE AnswerKnown
  <2>1. queue' \in Seq(Jobs)
    BY <1>2, FinishType DEF AnswerKnown, StartAppend, Running
  <2>2. QED
    BY <1>1, <1>2, <2>1 DEF AnswerKnown, StartAppend, ghosts
<1>3. CASE RefuseUnhealthy
  <2>1. queue' \in Seq(Jobs)
    BY <1>3, FinishType DEF RefuseUnhealthy, StartAppend, Running
  <2>2. QED
    BY <1>1, <1>3, <2>1 DEF RefuseUnhealthy, StartAppend, DiskFails, ghosts
<1>4. CASE RefuseOversize
  <2>1. queue' \in Seq(Jobs)
    BY <1>4, FinishType DEF RefuseOversize, StartAppend, Running
  <2>2. QED
    BY <1>1, <1>4, <2>1, RecoverType DEF RefuseOversize, StartAppend, ghosts
<1>5. CASE BeginWrite
  <2>1. PICK event \in Events :
           StartAppend(event) /\ Recover /\ built' = built + 1 /\ writing' = {Stored(event)} /\ UNCHANGED queue
    BY <1>5 DEF BeginWrite
  <2>2. Stored(event) \in Records
    BY DEF Stored, Records, Events
  <2>3. QED
    BY <1>1, <2>1, <2>2, RecoverType DEF StartAppend, ghosts
<1>6. CASE EndWrite
  <2>1. PICK r \in writing : /\ up /\ writing' = {} /\ Finish
                             /\ CommitWrite(r)
                             /\ UNCHANGED <<up, clock, built, jobs, crashes>>
    BY <1>6 DEF EndWrite
  <2>2. queue' \in Seq(Jobs)
    BY <2>1, FinishType DEF IInv, Running
  <2>3. events' \in SUBSET Records
    <3>1. events' = Pruned(events \cup {r})
      BY <2>1 DEF CommitWrite
    <3>2. QED
      BY <3>1, PrunedSubset
  <2>4. receipts' \in SUBSET Receipts
    BY <2>1 DEF CommitWrite, WithReceipt, Records, Receipts
  <2>5. file' \in Files /\ dirty' \in BOOLEAN /\ maintenanceError' \in BOOLEAN /\ faults' \in Nat
    <3>1. WithLine(r) \in Files
      BY PrefixesType DEF Prefixes
    <3>2. CASE Compact(events')
      BY <2>3, <3>2, CompactType
    <3>3. CASE CompactFails(fileBytes + BytesOf(r)) /\ file' = WithLine(r)
      BY <3>1, <3>3 DEF CompactFails, DiskFails
    <3>4. CASE /\ file' = WithLine(r)
               /\ dirty' = (dirty \/ events' # events \cup {r})
               /\ UNCHANGED <<maintenanceError, faults>>
      BY <3>1, <3>4
    <3>5. QED
      BY <2>1, <3>2, <3>3, <3>4 DEF CommitWrite
  <2>6. nextSequence' \in Nat \ {0} /\ acked' \in SUBSET Records /\ gone' \in SUBSET Records
    BY <2>1 DEF CommitWrite
  <2>7. QED
    BY <2>1, <2>2, <2>3, <2>4, <2>5, <2>6
<1>7. CASE FailWrite
  <2>1. PICK r \in writing : file' \in Prefixes(r)
    BY <1>7 DEF FailWrite
  <2>2. queue' \in Seq(Jobs)
    BY <1>7, FinishType DEF FailWrite, IInv, Running
  <2>3. QED
    BY <1>7, <2>1, <2>2, PrefixesType DEF FailWrite, MarkFailed, DiskFails, ghosts
<1>8. CASE ClearNow
  <2>1. queue' \in Seq(Jobs)
    BY <1>8, FinishType DEF ClearNow, Running
  <2>2. QED
    BY <1>8, <2>1, CompactType DEF ClearNow
<1>9. CASE ClearFails
  <2>1. queue' \in Seq(Jobs)
    BY <1>9, FinishType DEF ClearFails, Running
  <2>2. QED
    BY <1>9, <2>1 DEF ClearFails, DiskFails, memory, ghosts
<1>10. CASE Maintain
  <2>1. queue' \in Seq(Jobs)
    BY <1>10, FinishType DEF Maintain, Running
  <2>2. events' \in SUBSET Records
    BY <1>10, PrunedSubset DEF Maintain
  <2>3. file' \in Files /\ dirty' \in BOOLEAN /\ maintenanceError' \in BOOLEAN /\ faults' \in Nat
    <3>1. CASE Compact(events')
      BY <2>2, <3>1, CompactType
    <3>2. CASE CompactFails(fileBytes) /\ UNCHANGED file
      BY <3>2 DEF CompactFails, DiskFails
    <3>3. CASE UNCHANGED <<file, fileBytes, dirty, maintenanceError, faults>>
      BY <3>3
    <3>4. QED
      BY <1>10, <3>1, <3>2, <3>3 DEF Maintain
  <2>4. QED
    BY <1>10, <2>1, <2>2, <2>3 DEF Maintain
<1>11. QED
  BY <1>2, <1>3, <1>4, <1>5, <1>6, <1>7, <1>8, <1>9, <1>10 DEF Job

\* Every step keeps the types; IInv bounds what ready() reads from the file.
LEMMA TypeStep ==
  ASSUME TypeOK, IInv, [Next]_vars
  PROVE  TypeOK'
<1> USE DEF TypeOK
<1>1. CASE Ready
  <2>1. Parsed \in SUBSET Records /\ \A r \in Parsed : r.sequence <= built
    BY DEF Parsed, Files, IInv
  <2>2. events' \in SUBSET Records
    BY <1>1, <2>1, PrunedSubset DEF Ready
  <2>3. nextSequence' \in Nat \ {0}
    BY <1>1, <2>1, NextAfterAbove DEF Ready
  <2>4. file' \in Files /\ dirty' \in BOOLEAN /\ maintenanceError' \in BOOLEAN /\ faults' \in Nat
    BY <1>1, <2>2, CompactType DEF Ready
  <2>5. gone' \in SUBSET Records
    BY <1>1, <2>1 DEF Ready
  <2>6. QED
    BY <1>1, <2>2, <2>3, <2>4, <2>5 DEF Ready
<1>2. CASE ReadyFails
  BY <1>2 DEF ReadyFails, DiskFails, memory, ghosts
<1>3. CASE Crash
  <2>1. file' \in Files
    <3>1. CASE writing = {}
      BY <1>3, <3>1 DEF Crash
    <3>2. CASE writing # {}
      <4>1. PICK r \in writing : file' \in Prefixes(r)
        BY <1>3, <3>2 DEF Crash
      <4>2. QED
        BY <4>1, PrefixesType
    <3>3. QED
      BY <3>1, <3>2
  <2>2. queue' \in Seq(Jobs) /\ crashes' \in Nat
    BY <1>3, EmptySeq DEF Crash
  <2>3. /\ ~up' /\ events' = {} /\ receipts' = {} /\ nextSequence' = 1
        /\ ~dirty' /\ ~maintenanceError' /\ writing' = {}
        /\ UNCHANGED <<clock, built, jobs, faults, acked, gone>>
    BY <1>3 DEF Crash, Forget, ghosts
  <2>4. up' \in BOOLEAN /\ dirty' \in BOOLEAN /\ maintenanceError' \in BOOLEAN
    BY <1>3 DEF Crash, Forget
  <2>5. QED
    BY <2>1, <2>2, <2>3, <2>4
<1>4. CASE Tick
  BY <1>4 DEF Tick, memory, counters, ghosts
<1>5. ASSUME NEW event \in Events, RequestAppend(event)
      PROVE  TypeOK'
  <2>1. [op |-> "append", event |-> event] \in Jobs
    BY DEF Jobs
  <2>2. QED
    BY <1>5, <2>1 DEF RequestAppend, Enqueue, memory, ghosts
<1>6. CASE RequestClear
  <2>1. [op |-> "clear"] \in Jobs
    BY DEF Jobs
  <2>2. QED
    BY <1>6, <2>1 DEF RequestClear, Enqueue, memory, ghosts
<1>7. CASE RequestMaintain
  <2>1. [op |-> "maintain"] \in Jobs
    BY DEF Jobs
  <2>2. QED
    BY <1>7, <2>1 DEF RequestMaintain, Enqueue, memory, ghosts
<1>8. CASE Job
  BY <1>8, JobTypes
<1>9. CASE UNCHANGED vars
  BY <1>9 DEF vars, memory, counters, ghosts
<1>10. QED
  BY <1>1, <1>2, <1>3, <1>4, <1>5, <1>6, <1>7, <1>8, <1>9 DEF Next

(***************************************************************************)
(* The inductive invariant.                                                *)
(***************************************************************************)

\* The invariant holds before the first start.
LEMMA InitIInv == ASSUME Init PROVE TypeOK /\ IInv
<1>1. file = [lines |-> {}, tail |-> {}, torn |-> FALSE, broken |-> FALSE]
  BY DEF Init, CleanFile
<1>2. /\ ~up /\ events = {} /\ writing = {} /\ queue = <<>> /\ acked = {} /\ gone = {}
      /\ receipts = {} /\ nextSequence = 1 /\ ~dirty /\ ~maintenanceError
      /\ clock = 0 /\ built = 0 /\ jobs = 0 /\ faults = 0 /\ crashes = 0
      /\ up \in BOOLEAN /\ dirty \in BOOLEAN /\ maintenanceError \in BOOLEAN
  BY DEF Init
<1>3. file \in Files /\ Parsed = {}
  BY <1>1 DEF Files, Parsed
<1>4. queue \in Seq(Jobs)
  BY <1>2, EmptySeq
<1>5. TypeOK
  BY <1>2, <1>3, <1>4 DEF TypeOK
<1>6. IInv
  BY <1>1, <1>2, <1>3 DEF IInv, AckedSurvives
<1>7. QED
  BY <1>5, <1>6

\* After a compaction the file is trusted and holds exactly S.
LEMMA CompactFacts ==
  ASSUME NEW S, Compact(S)
  PROVE  /\ file'.lines = S /\ file'.tail = {} /\ ~file'.torn /\ ~file'.broken
         /\ ~maintenanceError' /\ ~dirty'
  BY DEF Compact, CleanFile

\* A line added to a file that ends with a newline adds its record only; a part
\* of it adds nothing but a tail; either way no line is lost.
LEMMA PrefixesFacts ==
  ASSUME TypeOK, ~Glued, ~file.broken, NEW r \in Records, NEW f \in Prefixes(r)
  PROVE  /\ file.lines \subseteq f.lines
         /\ f.lines \cup f.tail \subseteq file.lines \cup {r}
         /\ ~f.broken
<1>1. file.tail = {} /\ ~file.torn
  BY DEF Glued
<1>2. CASE f = file
  BY <1>1, <1>2
<1>3. CASE f = WithPart
  BY <1>1, <1>3 DEF WithPart, TypeOK, Files
<1>4. CASE f = WithUnended(r)
  BY <1>1, <1>4 DEF WithUnended, Glued, TypeOK, Files
<1>5. CASE f = WithLine(r)
  BY <1>1, <1>5 DEF WithLine, Glued, TypeOK, Files
<1>6. QED
  BY <1>2, <1>3, <1>4, <1>5 DEF Prefixes

\* A whole line at the end of a file adds one record and damages none.
LEMMA WithLineFacts ==
  ASSUME TypeOK, ~Glued, NEW r \in Records
  PROVE  /\ WithLine(r).lines = file.lines \cup {r} /\ WithLine(r).tail = {}
         /\ ~WithLine(r).torn /\ WithLine(r).broken = file.broken
  BY DEF WithLine, Glued, TypeOK, Files

\* The parts of the invariant that speak of a running store whose memory and
\* file are the same after a step as before it.
LEMMA IInvUnchanged ==
  ASSUME TypeOK, IInv,
         UNCHANGED <<up, events, nextSequence, dirty, maintenanceError, file, writing, built, acked, gone>>,
         writing # {} => queue' # <<>> /\ Head(queue').op = "append"
  PROVE  IInv'
  BY DEF IInv, AckedSurvives, Parsed, Glued, Committed, Running

\* What Recover leaves: a store whose last failure is repaired, or that had none.
LEMMA RecoverFacts ==
  ASSUME TypeOK, IInv, up, Recover, UNCHANGED <<up, events, nextSequence, acked, gone>>,
         built' \in Nat, built' >= built
  PROVE  /\ ~file'.broken /\ ~maintenanceError'
         /\ \A r, s \in Parsed' : r.sequence = s.sequence => r = s
         /\ \A r \in Parsed' : r.sequence <= built'
         /\ events \subseteq file'.lines
         /\ ~Glued' /\ Committed(file.lines)'
         /\ AckedSurvives'
<1>1. CASE maintenanceError
  <2>1. /\ file'.lines = events /\ file'.tail = {} /\ ~file'.torn /\ ~file'.broken /\ ~maintenanceError'
    BY <1>1, CompactFacts DEF Recover
  <2>2. events \subseteq Parsed
    BY DEF IInv, Parsed
  <2>3. QED
    BY <2>1, <2>2 DEF IInv, Parsed, Glued, Committed, AckedSurvives, TypeOK, Records
<1>2. CASE ~maintenanceError
  BY <1>2 DEF Recover, IInv, Parsed, Glued, Committed, AckedSurvives, TypeOK, Files, Records
<1>3. QED
  BY <1>1, <1>2

\* The steps of the process itself.
LEMMA ReadyIInv ==
  ASSUME TypeOK, IInv, Ready
  PROVE  IInv'
<1>1. Parsed \in SUBSET Records /\ built \in Nat /\ \A r \in Parsed : r.sequence <= built
  BY DEF Parsed, Files, TypeOK, IInv
<1>2. /\ nextSequence' \in Nat \ {0} /\ nextSequence' <= built + 1
      /\ \A r \in Parsed : r.sequence < nextSequence'
  BY <1>1, NextAfterAbove DEF Ready
<1>3. events' \subseteq Parsed
  BY PrunedSubset DEF Ready
<1>4. /\ ~maintenanceError' /\ ~dirty'
      /\ file'.tail = {} /\ ~file'.torn /\ ~file'.broken
      /\ events' \subseteq file'.lines /\ file'.lines \subseteq Parsed
  <2>1. CASE MustRewrite(events')
    BY <1>3, <2>1, CompactFacts DEF Ready
  <2>2. CASE ~MustRewrite(events')
    <3>1. UNCHANGED <<file, dirty, maintenanceError>> /\ events' = Parsed
      BY <2>2 DEF Ready, MustRewrite
    <3>2. QED
      BY <2>2, <3>1 DEF IInv, MustRewrite, Parsed, Ready
  <2>3. QED
    BY <2>1, <2>2
<1>5. Parsed' \subseteq Parsed
  BY <1>4 DEF Parsed
<1>6. AckedSurvives'
  BY DEF Ready, AckedSurvives, IInv
<1>7. writing' = {} /\ up' /\ built' = built
  BY DEF Ready, IInv, Running
<1>8. QED
  BY <1>1, <1>2, <1>3, <1>4, <1>5, <1>6, <1>7 DEF IInv, Glued, Committed

\* A crash leaves a file from which every acknowledged record can be read.
LEMMA CrashIInv ==
  ASSUME TypeOK, IInv, Crash
  PROVE  IInv'
<1>1. /\ ~file'.broken /\ file.lines \subseteq file'.lines
      /\ \A r, s \in Parsed' : r.sequence = s.sequence => r = s
      /\ \A r \in Parsed' : r.sequence <= built
  <2>1. CASE writing = {}
    <3>1. file' = file
      BY <2>1 DEF Crash
    <3>2. QED
      BY <3>1 DEF IInv, Parsed
  <2>2. CASE writing # {}
    <3>1. PICK w \in writing : file' \in Prefixes(w)
      BY <2>2 DEF Crash
    <3>2. /\ ~Glued /\ Committed(file.lines) /\ w.sequence = nextSequence /\ nextSequence <= built
          /\ ~file.broken
      BY <2>2, <3>1 DEF IInv, Running
    <3>3. /\ file.lines \subseteq file'.lines /\ Parsed' \subseteq file.lines \cup {w} /\ ~file'.broken
      BY <3>1, <3>2, PrefixesFacts DEF TypeOK, Parsed
    <3>4. w \in Records /\ file.lines \subseteq Records
      BY <3>1 DEF TypeOK, Files
    <3>5. \A r, s \in file.lines \cup {w} : r.sequence = s.sequence => r = s
      BY <3>2, <3>4 DEF IInv, Parsed, Committed, Records
    <3>6. \A r \in file.lines \cup {w} : r.sequence <= built
      BY <3>2 DEF IInv, Parsed
    <3>7. QED
      BY <3>3, <3>5, <3>6
  <2>3. QED
    BY <2>1, <2>2
<1>2. AckedSurvives'
  BY <1>1 DEF Crash, AckedSurvives, IInv, Parsed, ghosts
<1>3. ~up' /\ ~dirty' /\ ~maintenanceError' /\ writing' = {} /\ nextSequence' = 1 /\ built' = built
  BY DEF Crash, Forget
<1>4. QED
  BY <1>1, <1>2, <1>3 DEF IInv, TypeOK

\* The steps of a job.
LEMMA BeginWriteIInv ==
  ASSUME TypeOK, IInv, BeginWrite
  PROVE  IInv'
<1>1. PICK event \in Events :
         StartAppend(event) /\ Recover /\ built' = built + 1 /\ writing' = {Stored(event)} /\ UNCHANGED queue
  BY DEF BeginWrite
<1>2. /\ up /\ queue # <<>>
      /\ UNCHANGED <<up, events, nextSequence, acked, gone>>
      /\ built' \in Nat /\ built' >= built
  BY <1>1 DEF StartAppend, Running, ghosts, TypeOK
<1>3. /\ ~file'.broken /\ ~maintenanceError'
      /\ \A r, s \in Parsed' : r.sequence = s.sequence => r = s
      /\ \A r \in Parsed' : r.sequence <= built'
      /\ events \subseteq file'.lines
      /\ ~Glued' /\ Committed(file.lines)'
      /\ AckedSurvives'
  BY <1>1, <1>2, RecoverFacts
<1>4. Stored(event).sequence = nextSequence
  BY DEF Stored
<1>5. Committed(events)' /\ nextSequence' <= built'
  BY <1>1, <1>2 DEF IInv, Committed, TypeOK
<1>6. Running("append")'
  BY <1>1, <1>2 DEF StartAppend, Running
<1>7. QED
  BY <1>1, <1>2, <1>3, <1>4, <1>5, <1>6 DEF IInv, TypeOK

\* An append refused for its size changes nothing but what its repair did.
LEMMA RefuseOversizeIInv ==
  ASSUME TypeOK, IInv, RefuseOversize
  PROVE  IInv'
<1>1. /\ Recover /\ up /\ writing = {} /\ writing' = {}
      /\ UNCHANGED <<up, events, nextSequence, acked, gone, built>>
      /\ built' \in Nat /\ built' >= built
  BY DEF RefuseOversize, StartAppend, Running, ghosts, TypeOK
<1>2. /\ ~file'.broken /\ ~maintenanceError'
      /\ \A r, s \in Parsed' : r.sequence = s.sequence => r = s
      /\ \A r \in Parsed' : r.sequence <= built'
      /\ events \subseteq file'.lines
      /\ ~Glued' /\ Committed(file.lines)'
      /\ AckedSurvives'
  BY <1>1, RecoverFacts
<1>3. QED
  BY <1>1, <1>2 DEF IInv, Committed

\* A finished append: the line is in the file before the memory has the record.
LEMMA EndWriteIInv ==
  ASSUME TypeOK, IInv, EndWrite
  PROVE  IInv'
<1>1. PICK r \in writing : CommitWrite(r) /\ up' = up /\ writing' = {} /\ built' = built
  BY DEF EndWrite
<1>2. /\ up /\ up' /\ ~maintenanceError /\ nextSequence <= built /\ r.sequence = nextSequence
      /\ ~Glued /\ Committed(file.lines) /\ ~file.broken /\ events \subseteq file.lines
  BY <1>1 DEF IInv, Running
<1>3. r \in Records /\ file.lines \subseteq Records /\ file.lines \subseteq Parsed
  BY <1>1 DEF TypeOK, Files, Parsed
<1> DEFINE Next_ == file.lines \cup {r}
<1>4. /\ \A s, t \in Next_ : s.sequence = t.sequence => s = t
      /\ \A s \in Next_ : s.sequence <= built /\ s.sequence < nextSequence + 1
  BY <1>2, <1>3 DEF IInv, Committed, Records, TypeOK
<1>5. events' = Pruned(events \cup {r}) /\ nextSequence' = nextSequence + 1
  BY <1>1 DEF CommitWrite
<1>6. events' \subseteq Next_
  BY <1>2, <1>5, PrunedSubset
<1>7. /\ events' \subseteq file'.lines /\ file'.lines \subseteq Next_
      /\ file'.tail = {} /\ ~file'.torn /\ ~file'.broken
      /\ maintenanceError' => dirty'
  <2>1. CASE Compact(events')
    BY <1>6, <2>1, CompactFacts
  <2>2. CASE CompactFails(fileBytes + BytesOf(r)) /\ file' = WithLine(r)
    BY <1>2, <1>3, <1>6, <2>2, WithLineFacts DEF CompactFails
  <2>3. CASE file' = WithLine(r) /\ UNCHANGED maintenanceError
    BY <1>2, <1>3, <1>6, <2>3, WithLineFacts
  <2>4. QED
    BY <1>1, <2>1, <2>2, <2>3 DEF CommitWrite
<1>8. AckedSurvives'
  <2>1. acked' = acked \cup {r} /\ gone' = gone \cup ((events \cup {r}) \ events')
    BY <1>1 DEF CommitWrite
  <2>2. QED
    BY <1>2, <2>1 DEF AckedSurvives, IInv
<1>9. Parsed' \subseteq Next_
  BY <1>7 DEF Parsed
<1> HIDE DEF Next_
<1>10. /\ \A s, t \in Parsed' : s.sequence = t.sequence => s = t
       /\ \A s \in Parsed' : s.sequence <= built'
       /\ nextSequence' <= built' + 1
  BY <1>1, <1>2, <1>4, <1>5, <1>9 DEF TypeOK
<1>11. Committed(events)' /\ Committed(file.lines)' /\ ~Glued'
  BY <1>4, <1>5, <1>6, <1>7 DEF Committed, Glued
<1>12. QED
  BY <1>1, <1>2, <1>7, <1>8, <1>10, <1>11 DEF IInv

\* A failed append marks the file before anything is added to it again.
LEMMA FailWriteIInv ==
  ASSUME TypeOK, IInv, FailWrite
  PROVE  IInv'
<1>1. PICK r \in writing : /\ file' \in Prefixes(r) /\ up /\ writing' = {} /\ MarkFailed
                           /\ UNCHANGED <<up, events, nextSequence, built, acked, gone>>
  BY DEF FailWrite, ghosts
<1>2. /\ ~maintenanceError /\ nextSequence <= built /\ r.sequence = nextSequence
      /\ ~Glued /\ Committed(file.lines) /\ ~file.broken /\ events \subseteq file.lines
  BY <1>1 DEF IInv, Running
<1>3. r \in Records /\ file.lines \subseteq Records /\ file.lines \subseteq Parsed
  BY <1>1 DEF TypeOK, Files, Parsed
<1>4. /\ \A s, t \in file.lines \cup {r} : s.sequence = t.sequence => s = t
      /\ \A s \in file.lines \cup {r} : s.sequence <= built
  BY <1>2, <1>3 DEF IInv, Committed, Records, TypeOK
<1>5. file.lines \subseteq file'.lines /\ Parsed' \subseteq file.lines \cup {r} /\ ~file'.broken
  BY <1>1, <1>2, <1>3, PrefixesFacts DEF Parsed
<1>6. AckedSurvives' /\ Committed(events)'
  BY <1>1 DEF AckedSurvives, IInv, Committed
<1>7. QED
  BY <1>1, <1>2, <1>4, <1>5, <1>6 DEF IInv, MarkFailed

\* A clear empties memory and file together, or neither.
LEMMA ClearNowIInv ==
  ASSUME TypeOK, IInv, ClearNow
  PROVE  IInv'
<1>1. /\ up /\ up' /\ events' = {} /\ Compact({}) /\ gone' = gone \cup events
      /\ UNCHANGED <<nextSequence, writing, built, acked>> /\ queue # <<>> /\ Head(queue).op = "clear"
  BY DEF ClearNow, Running
<1>2. /\ file'.lines = {} /\ file'.tail = {} /\ ~file'.torn /\ ~file'.broken
      /\ ~maintenanceError' /\ ~dirty'
  BY <1>1, CompactFacts
<1>3. AckedSurvives'
  BY <1>1 DEF AckedSurvives, IInv
<1>4. writing' = {}
  BY <1>1 DEF IInv, Running
<1>5. QED
  BY <1>1, <1>2, <1>3, <1>4 DEF IInv, Parsed, Glued, Committed

\* Maintenance writes to the file what the memory holds.
LEMMA MaintainIInv ==
  ASSUME TypeOK, IInv, Maintain
  PROVE  IInv'
<1>1. /\ up /\ up' /\ gone' = gone \cup (events \ events')
      /\ UNCHANGED <<nextSequence, writing, built, acked>> /\ queue # <<>> /\ Head(queue).op = "maintain"
  BY DEF Maintain, Running
<1>2. events' \subseteq events /\ events \subseteq file.lines /\ file.lines \subseteq Parsed
  BY PrunedSubset DEF Maintain, IInv, Running, Parsed
<1>3. writing' = {}
  BY <1>1 DEF IInv, Running
<1>4. AckedSurvives'
  BY <1>1 DEF AckedSurvives, IInv
<1>5. CASE Compact(events')
  <2>1. /\ file'.lines = events' /\ file'.tail = {} /\ ~file'.torn /\ ~file'.broken
        /\ ~maintenanceError' /\ ~dirty'
    BY <1>5, CompactFacts
  <2>2. QED
    BY <1>1, <1>2, <1>3, <1>4, <2>1 DEF IInv, Parsed, Glued, Committed
<1>6. CASE CompactFails(fileBytes) /\ UNCHANGED file
  BY <1>1, <1>2, <1>3, <1>4, <1>6 DEF IInv, Parsed, Glued, Committed, CompactFails
<1>7. CASE UNCHANGED <<file, fileBytes, dirty, maintenanceError, faults>>
  BY <1>1, <1>2, <1>3, <1>4, <1>7 DEF IInv, Parsed, Glued, Committed
<1>8. QED
  BY <1>5, <1>6, <1>7 DEF Maintain

\* Callers only add to the end of the chain: the running job stays the first.
LEMMA EnqueueIInv ==
  ASSUME TypeOK, IInv, NEW job \in Jobs, Enqueue(job)
  PROVE  IInv'
<1>1. UNCHANGED <<up, events, nextSequence, dirty, maintenanceError, file, writing, built, acked, gone>>
  BY DEF Enqueue, memory, ghosts
<1>2. writing # {} => queue' # <<>> /\ Head(queue').op = "append"
  <2> SUFFICES ASSUME writing # {} PROVE queue' # <<>> /\ Head(queue').op = "append"
    OBVIOUS
  <2>1. queue \in Seq(Jobs) /\ queue # <<>> /\ Head(queue).op = "append" /\ queue' = Append(queue, job)
    BY DEF IInv, Running, TypeOK, Enqueue
  <2>2. Len(queue') = Len(queue) + 1 /\ Len(queue) > 0 /\ queue'[1] = queue[1]
    BY <2>1, AppendProperties, EmptySeq
  <2>3. QED
    BY <2>1, <2>2
<1>3. QED
  BY <1>1, <1>2, IInvUnchanged

\* Every step keeps the invariant.
LEMMA IInvStep ==
  ASSUME TypeOK, IInv, [Next]_vars
  PROVE  IInv'
<1>1. CASE Ready
  BY <1>1, ReadyIInv
<1>2. CASE Crash
  BY <1>2, CrashIInv
<1>3. CASE ReadyFails \/ Tick \/ UNCHANGED vars
  <2>1. /\ UNCHANGED <<up, events, nextSequence, dirty, maintenanceError, file, writing, built, acked, gone>>
        /\ UNCHANGED queue
    BY <1>3 DEF ReadyFails, Tick, vars, memory, ghosts, counters
  <2>2. writing # {} => queue' # <<>> /\ Head(queue').op = "append"
    BY <2>1 DEF IInv, Running
  <2>3. QED
    BY <2>1, <2>2, IInvUnchanged
<1>4. ASSUME NEW event \in Events, RequestAppend(event)
      PROVE  IInv'
  BY <1>4, EnqueueIInv DEF RequestAppend, Jobs
<1>5. CASE RequestClear
  BY <1>5, EnqueueIInv DEF RequestClear, Jobs
<1>6. CASE RequestMaintain
  BY <1>6, EnqueueIInv DEF RequestMaintain, Jobs
<1>7. CASE AnswerKnown \/ RefuseUnhealthy \/ ClearFails
  <2>1. UNCHANGED <<up, events, nextSequence, dirty, maintenanceError, file, writing, built, acked, gone>>
    BY <1>7 DEF AnswerKnown, RefuseUnhealthy, ClearFails, StartAppend, memory, ghosts
  <2>2. writing = {}
    BY <1>7 DEF AnswerKnown, RefuseUnhealthy, ClearFails, StartAppend, IInv, Running
  <2>3. QED
    BY <2>1, <2>2, IInvUnchanged
<1>8. QED
  BY <1>1, <1>2, <1>3, <1>4, <1>5, <1>6, <1>7, RefuseOversizeIInv, BeginWriteIInv, EndWriteIInv,
     FailWriteIInv, ClearNowIInv, MaintainIInv DEF Next, Job

(***************************************************************************)
(* The theorems.                                                           *)
(***************************************************************************)

\* The store is always typed and its inductive invariant always holds.
THEOREM StoreInvariant == Spec => [](TypeOK /\ IInv)
<1>1. Init => TypeOK /\ IInv
  BY InitIInv
<1>2. TypeOK /\ IInv /\ [Next]_vars => (TypeOK /\ IInv)'
  BY TypeStep, IInvStep
<1>3. QED
  BY <1>1, <1>2, PTL DEF Spec

\* Every variable keeps its type, over any number of crashes and faults.
THEOREM TypeCorrect == Spec => []TypeOK
  BY StoreInvariant, PTL

\* What append() acknowledged and what readers see is on the disk, and the file
\* is only ever damaged at its end, where the store repairs it before it adds.
THEOREM StoreSafe == Spec => [](Durable /\ AckedSurvives /\ FileSound)
<1>1. TypeOK /\ IInv => Durable /\ AckedSurvives /\ FileSound
  BY DEF IInv, Durable, FileSound, NeverGlued, TrustedFile, Committed, Parsed
<1>2. QED
  BY <1>1, StoreInvariant, PTL

\* What append() acknowledged stays in the history.
THEOREM AcknowledgedStays == Spec => []AckedSurvives
  BY StoreSafe, PTL

\* The file is only ever damaged at its end.
THEOREM FileStaysSound == Spec => []FileSound
  BY StoreSafe, PTL

\* Storage in error is always marked dirty, so the maintenance timer retries it.
THEOREM FailureIsRetried == Spec => [](maintenanceError => dirty)
<1>1. TypeOK /\ IInv => (maintenanceError => dirty)
  BY DEF IInv, TypeOK
<1>2. QED
  BY <1>1, StoreInvariant, PTL

(***************************************************************************)
(* The window a reader sees: what never comes back, and the log.           *)
(***************************************************************************)

\* Records that were built later carry later times.
AgeOrdered(S) == \A r, s \in S : r.sequence <= s.sequence => r.createdAt <= s.createdAt

Sane(S) == S \in SUBSET Records /\ IsFiniteSet(S) /\ AgeOrdered(S)

Young(t, r) == t - r.createdAt <= MaxAge

\* What pruning leaves of S at time t, and what it does not.
PrunedAt(t, S) ==
    LET live == {r \in S : Young(t, r)}
    IN  UNION {T \in {From(live, r.sequence) : r \in live} : Fits(T)}

Out(t, r, S) == ~Young(t, r) \/ ~Fits(From(S, r.sequence))

Kept(t, S) == {r \in S : ~Out(t, r, S)}

LEMMA PrunedNow ==
  /\ \A S : Pruned(S) = PrunedAt(clock, S)
  /\ \A S : Pruned(S)' = PrunedAt(clock', S')
BY DEF Pruned, PrunedAt, Unexpired, Young

\* What fits, fits without some of it.
LEMMA FitsWithout ==
  ASSUME NEW S \in SUBSET Records, IsFiniteSet(S), NEW T \in SUBSET S, Fits(S)
  PROVE  Fits(T)
<1>1. IsFiniteSet(T) /\ Cardinality(T) <= Cardinality(S) /\ Bytes(T) <= Bytes(S)
  BY FS_Subset, BytesMonotone
<1>2. /\ Cardinality(T) \in Nat /\ Cardinality(S) \in Nat /\ Bytes(T) \in Nat /\ Bytes(S) \in Nat
      /\ MaxEntries \in Nat /\ MaxBytes \in Nat
  BY <1>1, FS_CardinalityType, BytesOfSubset, StoreAssumption
<1> QED  BY <1>1, <1>2 DEF Fits

\* A record stays just when it is young and it fits with all the newer ones.
LEMMA PrunedIsKept ==
  ASSUME NEW S, Sane(S), NEW t \in Nat
  PROVE  PrunedAt(t, S) = Kept(t, S)
<1> DEFINE live == {r \in S : Young(t, r)}
<1>0. S \in SUBSET Records /\ IsFiniteSet(S) /\ AgeOrdered(S)
  BY DEF Sane
<1>1. ASSUME NEW r \in PrunedAt(t, S)  PROVE r \in Kept(t, S)
  <2>1. PICK q \in live : r \in From(live, q.sequence) /\ Fits(From(live, q.sequence))
    BY <1>1 DEF PrunedAt
  <2>2. r \in S /\ Young(t, r) /\ r.sequence >= q.sequence
    BY <2>1 DEF From
  <2>3. From(S, r.sequence) \subseteq From(live, q.sequence)
    <3> SUFFICES ASSUME NEW s \in S, s.sequence >= r.sequence
                 PROVE  s \in From(live, q.sequence)
      BY DEF From
    <3>1. /\ s.sequence \in Nat /\ r.sequence \in Nat /\ q.sequence \in Nat
          /\ s.createdAt \in Nat /\ r.createdAt \in Nat /\ MaxAge \in Nat
      BY <1>0, <2>2, StoreAssumption DEF Records
    <3>2. r.createdAt <= s.createdAt
      BY <1>0, <2>2, <3>1 DEF AgeOrdered
    <3>3. Young(t, s)
      BY <2>2, <3>1, <3>2 DEF Young
    <3> QED  BY <2>2, <3>1, <3>3 DEF From
  <2>4. From(live, q.sequence) \in SUBSET Records /\ IsFiniteSet(From(live, q.sequence))
    BY <1>0, FS_Subset DEF From
  <2>5. Fits(From(S, r.sequence))
    BY <2>1, <2>3, <2>4, FitsWithout
  <2> QED  BY <2>2, <2>5 DEF Kept, Out
<1>2. ASSUME NEW r \in Kept(t, S)  PROVE r \in PrunedAt(t, S)
  <2>1. r \in live /\ Fits(From(S, r.sequence)) /\ r.sequence \in Nat
    BY <1>0, <1>2 DEF Kept, Out, Records
  <2>2. From(live, r.sequence) \subseteq From(S, r.sequence)
    BY DEF From
  <2>3. From(S, r.sequence) \in SUBSET Records /\ IsFiniteSet(From(S, r.sequence))
    BY <1>0, FS_Subset DEF From
  <2>4. Fits(From(live, r.sequence)) /\ r \in From(live, r.sequence)
    BY <2>1, <2>2, <2>3, FitsWithout DEF From
  <2> QED  BY <2>1, <2>4 DEF PrunedAt
<1> QED  BY <1>1, <1>2

\* What is out of a set is out of every greater one.
LEMMA OutOfMore ==
  ASSUME NEW P \in SUBSET Records, IsFiniteSet(P), NEW S \in SUBSET P, NEW r \in S, NEW t,
         Out(t, r, S)
  PROVE  Out(t, r, P)
<1>1. From(S, r.sequence) \subseteq From(P, r.sequence)
  BY DEF From
<1>2. From(P, r.sequence) \in SUBSET Records /\ IsFiniteSet(From(P, r.sequence))
  BY FS_Subset DEF From
<1> QED  BY <1>1, <1>2, FitsWithout DEF Out

\* What is out is out at every later time.
LEMMA OutLater ==
  ASSUME NEW r \in Records, NEW S, NEW t \in Nat, NEW u \in Nat, t <= u, Out(t, r, S)
  PROVE  Out(u, r, S)
<1>1. r.createdAt \in Nat /\ MaxAge \in Nat
  BY StoreAssumption DEF Records
<1>2. Young(u, r) => Young(t, r)
  BY <1>1 DEF Young
<1> QED  BY <1>2 DEF Out

\* With a record, every newer one is kept.
LEMMA NewerAreKept ==
  ASSUME NEW S, Sane(S), NEW t \in Nat, NEW r \in Kept(t, S), NEW s \in S,
         r.sequence <= s.sequence
  PROVE  s \in Kept(t, S)
<1>0. S \in SUBSET Records /\ IsFiniteSet(S) /\ AgeOrdered(S)
  BY DEF Sane
<1>1. r \in S /\ Young(t, r) /\ Fits(From(S, r.sequence))
  BY DEF Kept, Out
<1>2. /\ s.sequence \in Nat /\ r.sequence \in Nat /\ s.createdAt \in Nat /\ r.createdAt \in Nat
      /\ MaxAge \in Nat
  BY <1>0, <1>1, StoreAssumption DEF Records
<1>3. r.createdAt <= s.createdAt
  BY <1>0, <1>1 DEF AgeOrdered
<1>4. Young(t, s)
  BY <1>1, <1>2, <1>3 DEF Young
<1>5. From(S, s.sequence) \subseteq From(S, r.sequence)
  <2> SUFFICES ASSUME NEW q \in S, q.sequence >= s.sequence  PROVE q.sequence >= r.sequence
    BY DEF From
  <2>1. q.sequence \in Nat
    BY <1>0 DEF Records
  <2> QED  BY <1>2, <2>1
<1>6. From(S, r.sequence) \in SUBSET Records /\ IsFiniteSet(From(S, r.sequence))
  BY <1>0, FS_Subset DEF From
<1>7. Fits(From(S, s.sequence))
  BY <1>1, <1>5, <1>6, FitsWithout
<1> QED  BY <1>4, <1>7 DEF Kept, Out

(***************************************************************************)
(* The window of the store.                                                *)
(***************************************************************************)

\* Two submissions that are not told to be the same.
Distinct(h, r) == h.identity = NoIdentity \/ h.identity # r.identity

\* While the hub runs: a line that is neither shown nor gone is the rest of one failed
\* write, the next in order and of a submission that is not shown.
MemoryWindow ==
    /\ events \cap gone = {}
    /\ \A r \in Parsed :
        /\ r.sequence <= nextSequence
        /\ r.sequence < nextSequence => r \in events \cup gone
        /\ r.sequence = nextSequence => \A h \in events : Distinct(h, r)

\* Lines in the file are in the order of their times, and one that is gone would be
\* pruned again at any start.
FileWindow ==
    /\ IsFiniteSet(Parsed) /\ AgeOrdered(Parsed)
    /\ \A r \in Parsed \cup gone : r.id <= built
    /\ \A r \in Parsed : r.createdAt <= clock
    /\ \A r \in Parsed \cap gone : Out(clock, r, Parsed)
    /\ up => MemoryWindow

\* The record being written is newer than all others, and is of a new submission.
WritingWindow ==
    \A w \in writing :
        /\ w.id <= built /\ w.createdAt <= clock /\ w \notin gone
        /\ \A r \in Parsed : r.createdAt <= w.createdAt
        /\ \A h \in events : Distinct(h, w)

WindowInv == FileWindow /\ WritingWindow

\* What memory holds is in the file, and both are in order.
LEMMA SaneWindow ==
  ASSUME TypeOK, IInv, WindowInv
  PROVE  /\ Sane(Parsed) /\ clock \in Nat /\ built \in Nat
         /\ up => events \subseteq Parsed /\ Sane(events)
         /\ up => \A r \in writing : Sane(events \cup {r})
         /\ \A r \in writing : Parsed = file.lines /\ r \in Records
<1>1. Parsed \in SUBSET Records /\ clock \in Nat /\ built \in Nat
  BY DEF TypeOK, Files, Parsed
<1>2. Sane(Parsed)
  BY <1>1 DEF Sane, WindowInv, FileWindow
<1>3. ASSUME up  PROVE events \subseteq Parsed /\ Sane(events)
  <2>1. events \subseteq Parsed
    BY <1>3 DEF IInv, Parsed
  <2>2. IsFiniteSet(events)
    BY <1>2, <2>1, FS_Subset DEF Sane
  <2> QED  BY <1>2, <2>1, <2>2 DEF Sane, AgeOrdered
<1>4. ASSUME NEW r \in writing  PROVE r \in Records /\ Parsed = file.lines
  BY <1>4 DEF TypeOK, IInv, Glued, Parsed, Running
<1>5. ASSUME up, NEW r \in writing  PROVE Sane(events \cup {r})
  <2>1. IsFiniteSet(events \cup {r})
    BY <1>3, <1>5, FS_AddElement DEF Sane
  <2>2. r.sequence = nextSequence /\ \A s \in events : s.sequence < nextSequence
    BY <1>5 DEF IInv, Committed
  <2>3. \A s \in events : s.createdAt <= r.createdAt
    BY <1>3, <1>5 DEF WindowInv, WritingWindow
  <2>4. \A s \in events \cup {r} : s.sequence \in Nat /\ s.createdAt \in Nat
    BY <1>4, <1>5 DEF TypeOK, Records
  <2>5. nextSequence \in Nat
    BY DEF TypeOK
  <2>6. AgeOrdered(events \cup {r})
    <3> SUFFICES ASSUME NEW p \in events \cup {r}, NEW s \in events \cup {r},
                        p.sequence <= s.sequence
                 PROVE  p.createdAt <= s.createdAt
      BY DEF AgeOrdered
    <3>1. CASE p \in events /\ s \in events
      BY <1>3, <1>5, <3>1 DEF Sane, AgeOrdered
    <3>2. CASE s = r
      BY <2>3, <2>4, <3>2
    <3>3. CASE p = r /\ s \in events
      BY <2>2, <2>4, <2>5, <3>3
    <3> QED  BY <3>1, <3>2, <3>3
  <2> QED  BY <1>3, <1>4, <1>5, <2>1, <2>6 DEF Sane
<1> QED  BY <1>1, <1>2, <1>3, <1>4, <1>5

\* Only the clock and the number of records built go on.
LEMMA WindowStays ==
  ASSUME TypeOK, FileWindow, UNCHANGED <<up, events, gone, nextSequence, file>>,
         built' \in Nat, built <= built', clock' \in Nat, clock <= clock'
  PROVE  FileWindow'
<1>1. Parsed' = Parsed /\ Parsed \in SUBSET Records /\ gone \in SUBSET Records
  BY DEF Parsed, TypeOK, Files
<1>2. \A r \in Parsed \cup gone : r.id \in Nat /\ r.createdAt \in Nat
  BY <1>1 DEF Records
<1>3. built \in Nat /\ clock \in Nat
  BY DEF TypeOK
<1>4. \A r \in Parsed' \cup gone' : r.id <= built'
  BY <1>1, <1>2, <1>3 DEF FileWindow
<1>5. \A r \in Parsed' : r.createdAt <= clock'
  BY <1>1, <1>2, <1>3 DEF FileWindow
<1>6. \A r \in Parsed' \cap gone' : Out(clock', r, Parsed')
  BY <1>1, <1>3, OutLater DEF FileWindow
<1>7. up' => MemoryWindow'
  BY <1>1 DEF FileWindow, MemoryWindow
<1>8. IsFiniteSet(Parsed') /\ AgeOrdered(Parsed')
  BY <1>1 DEF FileWindow
<1> QED  BY <1>4, <1>5, <1>6, <1>7, <1>8 DEF FileWindow

\* The file is rewritten with what is left of E, which is neither gone nor written.
LEMMA CompactWindow ==
  ASSUME TypeOK, NEW E, Sane(E), NEW S \in SUBSET E, Compact(S), events' = S,
         gone' = gone \cup (E \ S), E \cap gone = {},
         built' \in Nat, built <= built', clock' = clock,
         nextSequence' \in Nat, \A r \in E : r.sequence < nextSequence',
         \A r \in E \cup gone : r.id <= built, \A r \in E : r.createdAt <= clock
  PROVE  FileWindow' /\ Parsed' = S
<1>1. Parsed' = S
  BY DEF Compact, CleanFile, Parsed
<1>2. E \in SUBSET Records /\ IsFiniteSet(E) /\ AgeOrdered(E)
  BY DEF Sane
<1>3. IsFiniteSet(S) /\ AgeOrdered(S)
  BY <1>2, FS_Subset DEF AgeOrdered
<1>4. \A r \in E \cup gone : r.id \in Nat
  BY <1>2 DEF TypeOK, Records
<1>5. \A r \in E : r.sequence \in Nat
  BY <1>2 DEF Records
<1>6. built \in Nat
  BY DEF TypeOK
<1>7. \A r \in S \cup gone' : r.id <= built'
  BY <1>4, <1>6
<1>8. S \cap gone' = {}
  OBVIOUS
<1>9. MemoryWindow'
  BY <1>1, <1>5, <1>8 DEF MemoryWindow
<1> QED  BY <1>1, <1>3, <1>7, <1>8, <1>9 DEF FileWindow

\* Some part of the line being written is added: nothing that is gone is shown by it.
LEMMA GrownWindow ==
  ASSUME TypeOK, IInv, WindowInv, NEW w \in writing,
         file.lines \subseteq Parsed', Parsed' \subseteq file.lines \cup {w},
         built' = built, clock' = clock
  PROVE  /\ IsFiniteSet(Parsed') /\ AgeOrdered(Parsed') /\ Parsed' \in SUBSET Records
         /\ \A r \in Parsed' : r.id <= built' /\ r.createdAt <= clock'
         /\ \A r \in Parsed' \cap gone : Out(clock', r, Parsed')
         /\ \A r \in Parsed' : r = w \/ (r \in file.lines /\ r.sequence < nextSequence)
<1>1. /\ w \in Records /\ Parsed = file.lines /\ Sane(Parsed) /\ w.sequence = nextSequence
      /\ nextSequence \in Nat
  <2>1. w.sequence = nextSequence
    BY DEF IInv
  <2> QED  BY <2>1, SaneWindow DEF TypeOK
<1>2. Parsed \in SUBSET Records /\ IsFiniteSet(Parsed) /\ AgeOrdered(Parsed)
  BY <1>1 DEF Sane
<1>3. /\ w.id <= built /\ w.createdAt <= clock /\ w \notin gone
      /\ \A r \in Parsed : r.createdAt <= w.createdAt
  BY DEF WindowInv, WritingWindow
<1>4. \A r \in Parsed : r.sequence < nextSequence
  BY <1>1 DEF IInv, Running, Committed
<1>5. IsFiniteSet(Parsed') /\ Parsed' \in SUBSET Records
  <2>1. IsFiniteSet(Parsed \cup {w})
    BY <1>2, FS_AddElement
  <2> QED  BY <1>1, <1>2, <2>1, FS_Subset
<1>6. AgeOrdered(Parsed')
  <2> SUFFICES ASSUME NEW p \in Parsed', NEW s \in Parsed', p.sequence <= s.sequence
               PROVE  p.createdAt <= s.createdAt
    BY DEF AgeOrdered
  <2>1. p.sequence \in Nat /\ s.sequence \in Nat /\ p.createdAt \in Nat /\ s.createdAt \in Nat
    BY <1>5 DEF Records
  <2>2. CASE p \in Parsed /\ s \in Parsed
    BY <1>2, <2>2 DEF AgeOrdered
  <2>3. CASE s = w
    BY <1>1, <1>3, <2>1, <2>3
  <2>4. CASE p = w /\ s \in Parsed
    BY <1>1, <1>4, <2>1, <2>4
  <2> QED  BY <1>1, <2>2, <2>3, <2>4
<1>7. \A r \in Parsed' : r.id <= built' /\ r.createdAt <= clock'
  BY <1>1, <1>3 DEF WindowInv, FileWindow
<1>8. \A r \in Parsed' \cap gone : Out(clock', r, Parsed')
  <2> SUFFICES ASSUME NEW r \in Parsed', r \in gone  PROVE Out(clock', r, Parsed')
    OBVIOUS
  <2>1. r \in Parsed /\ Out(clock, r, Parsed)
    BY <1>1, <1>3 DEF WindowInv, FileWindow
  <2> QED  BY <1>1, <1>5, <2>1, OutOfMore
<1>9. \A r \in Parsed' : r = w \/ (r \in file.lines /\ r.sequence < nextSequence)
  <2>1. \A r \in file.lines : r.sequence < nextSequence
    BY <1>1, <1>4
  <2>2. \A r \in Parsed' : r \in file.lines \/ r = w
    OBVIOUS
  <2> QED  BY <2>1, <2>2
<1> QED  BY <1>5, <1>6, <1>7, <1>8, <1>9

\* A start shows of the file what was shown of it before, and nothing that is gone.
LEMMA ReadyWindow ==
  ASSUME TypeOK, IInv, WindowInv, Ready
  PROVE  WindowInv' /\ events' = Kept(clock, Parsed)
<1>1. Sane(Parsed) /\ clock \in Nat /\ built \in Nat
  BY SaneWindow
<1>2. Parsed \in SUBSET Records /\ IsFiniteSet(Parsed) /\ AgeOrdered(Parsed)
  BY <1>1 DEF Sane
<1>3. events' = Kept(clock, Parsed)
  BY <1>1, PrunedNow, PrunedIsKept DEF Ready
<1>4. /\ gone' = gone \cup (Parsed \ events') /\ clock' = clock /\ built' = built
      /\ writing' = {} /\ events' \subseteq Parsed
  BY <1>3 DEF Ready, IInv, Running, Kept
<1>5. events' \cap gone = {}
  BY <1>3 DEF WindowInv, FileWindow, Kept
<1>6. nextSequence' \in Nat /\ \A r \in Parsed : r.sequence < nextSequence'
  <2>1. \A r \in Parsed : r.sequence <= built
    BY DEF IInv
  <2> QED  BY <1>1, <1>2, <2>1, NextAfterAbove DEF Ready
<1>7. Parsed' \in {Parsed, events'}
  <2>1. CASE MustRewrite(events')
    BY <2>1 DEF Ready, Compact, CleanFile, Parsed
  <2>2. CASE ~MustRewrite(events')
    BY <2>2 DEF Ready, Parsed
  <2> QED  BY <2>1, <2>2
<1>8. Parsed' \subseteq Parsed /\ IsFiniteSet(Parsed') /\ AgeOrdered(Parsed')
  BY <1>2, <1>4, <1>7, FS_Subset DEF AgeOrdered
<1>9. \A r \in Parsed' \cup gone' : r.id <= built'
  BY <1>4, <1>8 DEF WindowInv, FileWindow
<1>10. \A r \in Parsed' : r.createdAt <= clock'
  BY <1>4, <1>8 DEF WindowInv, FileWindow
<1>11. \A r \in Parsed' \cap gone' : Out(clock', r, Parsed')
  <2>1. \A r \in gone' \cap Parsed : Out(clock, r, Parsed)
    BY <1>3, <1>4 DEF WindowInv, FileWindow, Kept
  <2>2. CASE Parsed' = Parsed
    BY <1>4, <2>1, <2>2
  <2>3. CASE Parsed' = events'
    BY <1>4, <1>5, <2>3
  <2> QED  BY <1>7, <2>2, <2>3
<1>12. MemoryWindow'
  <2>1. \A r \in Parsed' : r.sequence < nextSequence' /\ r.sequence \in Nat
    BY <1>2, <1>6, <1>8 DEF Records
  <2>2. \A r \in Parsed' : r \in events' \cup gone'
    BY <1>4, <1>8
  <2>3. events' \cap gone' = {}
    BY <1>4, <1>5
  <2> QED  BY <1>6, <2>1, <2>2, <2>3 DEF MemoryWindow
<1>13. WritingWindow'
  BY <1>4 DEF WritingWindow
<1> QED  BY <1>3, <1>8, <1>9, <1>10, <1>11, <1>12, <1>13 DEF WindowInv, FileWindow

\* A line that is written in part when the process dies was not gone.
LEMMA CrashWindow ==
  ASSUME TypeOK, IInv, WindowInv, Crash
  PROVE  WindowInv'
<1>1. ~up' /\ writing' = {} /\ gone' = gone /\ clock' = clock /\ built' = built
  BY DEF Crash, ghosts
<1>2. FileWindow'
  <2>1. CASE writing = {}
    BY <1>1, <2>1 DEF Crash, WindowInv, FileWindow, Parsed
  <2>2. CASE writing # {}
    <3>1. PICK w \in writing : file' \in Prefixes(w)
      BY <2>2 DEF Crash
    <3>2. ~Glued /\ ~file.broken /\ w \in Records
      BY <3>1 DEF IInv, Running, TypeOK
    <3>3. file.lines \subseteq Parsed' /\ Parsed' \subseteq file.lines \cup {w}
      BY <3>1, <3>2, PrefixesFacts DEF Parsed
    <3> QED  BY <1>1, <3>1, <3>3, GrownWindow DEF WindowInv, FileWindow
  <2> QED  BY <2>1, <2>2
<1> QED  BY <1>1, <1>2 DEF WindowInv, WritingWindow

\* A line that is left of a failed write is the only one of its kind.
LEMMA FailWriteWindow ==
  ASSUME TypeOK, IInv, WindowInv, FailWrite
  PROVE  WindowInv'
<1>1. PICK w \in writing : /\ file' \in Prefixes(w) /\ up /\ writing' = {}
                           /\ UNCHANGED <<up, events, nextSequence, built, clock, acked, gone>>
  BY DEF FailWrite, ghosts
<1>2. ~Glued /\ ~file.broken /\ w \in Records /\ w.sequence = nextSequence
  BY <1>1 DEF IInv, Running, TypeOK
<1>3. file.lines \subseteq Parsed' /\ Parsed' \subseteq file.lines \cup {w}
  BY <1>1, <1>2, PrefixesFacts DEF Parsed
<1>4. /\ IsFiniteSet(Parsed') /\ AgeOrdered(Parsed') /\ Parsed' \in SUBSET Records
      /\ \A r \in Parsed' : r.id <= built' /\ r.createdAt <= clock'
      /\ \A r \in Parsed' \cap gone : Out(clock', r, Parsed')
      /\ \A r \in Parsed' : r = w \/ (r \in file.lines /\ r.sequence < nextSequence)
  BY <1>1, <1>3, GrownWindow
<1>5. MemoryWindow'
  <2>1. events' \cap gone' = {}
    BY <1>1 DEF WindowInv, FileWindow, MemoryWindow
  <2>2. ASSUME NEW r \in Parsed'
        PROVE  /\ r.sequence <= nextSequence'
               /\ r.sequence < nextSequence' => r \in events' \cup gone'
               /\ r.sequence = nextSequence' => \A h \in events' : Distinct(h, r)
    <3>0. nextSequence \in Nat /\ r.sequence \in Nat
      BY <1>4 DEF TypeOK, Records
    <3>1. CASE r = w
      BY <1>1, <1>2, <3>0, <3>1 DEF WindowInv, WritingWindow
    <3>2. CASE r \in file.lines /\ r.sequence < nextSequence
      BY <1>1, <3>0, <3>2 DEF WindowInv, FileWindow, MemoryWindow, Parsed
    <3> QED  BY <1>4, <3>1, <3>2
  <2> QED  BY <2>1, <2>2 DEF MemoryWindow
<1> QED  BY <1>1, <1>4, <1>5 DEF WindowInv, FileWindow, WritingWindow

\* What a compaction can be about: the records shown, and the one just written.
LEMMA ShownWindow ==
  ASSUME TypeOK, IInv, WindowInv, up, NEW w, w \in writing \/ w \in events
  PROVE  /\ Sane(events \cup {w}) /\ (events \cup {w}) \cap gone = {}
         /\ \A r \in (events \cup {w}) \cup gone : r.id <= built
         /\ \A r \in events \cup {w} : r.createdAt <= clock
         /\ nextSequence \in Nat
         /\ \A r \in events : r.sequence < nextSequence
         /\ w \in writing => w.sequence = nextSequence
<1>1. events \subseteq Parsed /\ Sane(events) /\ \A r \in writing : Sane(events \cup {r})
  BY SaneWindow
<1>2. Sane(events \cup {w})
  <2>1. CASE w \in events
    <3>1. events \cup {w} = events
      BY <2>1
    <3> QED  BY <1>1, <3>1
  <2> QED  BY <1>1, <2>1
<1>3. (events \cup {w}) \cap gone = {}
  BY DEF WindowInv, FileWindow, MemoryWindow, WritingWindow
<1>4. \A r \in (events \cup {w}) \cup gone : r.id <= built
  BY <1>1 DEF WindowInv, FileWindow, WritingWindow
<1>5. \A r \in events \cup {w} : r.createdAt <= clock
  BY <1>1 DEF WindowInv, FileWindow, WritingWindow
<1>6. nextSequence \in Nat /\ \A r \in events : r.sequence < nextSequence
  BY DEF TypeOK, IInv, Committed
<1>7. w \in writing => w.sequence = nextSequence
  BY DEF IInv
<1> QED  BY <1>2, <1>3, <1>4, <1>5, <1>6, <1>7

\* Memory is rewritten to the file, or what is left of memory.
LEMMA RewriteWindow ==
  ASSUME TypeOK, IInv, WindowInv, up, NEW S \in SUBSET events, Compact(S), events' = S,
         gone' = gone \cup (events \ S), built' \in Nat, built <= built', clock' = clock,
         nextSequence' = nextSequence
  PROVE  FileWindow' /\ Parsed' = S
<1>1. Sane(events) /\ events \subseteq Parsed /\ built \in Nat
  BY SaneWindow
<1>2. \A r \in events : r.sequence < nextSequence /\ nextSequence \in Nat
  BY DEF TypeOK, IInv, Committed
<1>3. events \cap gone = {} /\ \A r \in events \cup gone : r.id <= built
  BY <1>1 DEF WindowInv, FileWindow, MemoryWindow
<1>4. \A r \in events : r.createdAt <= clock
  BY <1>1 DEF WindowInv, FileWindow
<1>5. nextSequence' \in Nat
  BY DEF TypeOK
<1> QED  BY <1>1, <1>2, <1>3, <1>4, <1>5, CompactWindow

\* The repair before an append: the rest of the failed write is not there any more.
LEMMA RecoverWindow ==
  ASSUME TypeOK, IInv, WindowInv, up, Recover,
         UNCHANGED <<up, events, nextSequence, clock, gone>>, built' \in Nat, built <= built'
  PROVE  FileWindow'
<1>1. CASE maintenanceError
  <2>1. gone' = gone \cup (events \ events)
    OBVIOUS
  <2> QED  BY <1>1, <2>1, RewriteWindow DEF Recover
<1>2. CASE ~maintenanceError
  <2>1. clock' \in Nat /\ clock <= clock'
    BY DEF TypeOK
  <2> QED  BY <1>2, <2>1, WindowStays DEF Recover, WindowInv
<1> QED  BY <1>1, <1>2

\* A record begins its way to the file: of a submission that is not shown.
LEMMA BeginWriteWindow ==
  ASSUME TypeOK, IInv, WindowInv, BeginWrite
  PROVE  WindowInv'
<1>1. PICK event \in Events : /\ StartAppend(event) /\ Recover /\ Previous(event) = {}
                              /\ built' = built + 1 /\ writing' = {Stored(event)}
  BY DEF BeginWrite
<1>2. up /\ UNCHANGED <<up, events, nextSequence, clock, gone>>
  BY <1>1 DEF StartAppend, Running, ghosts
<1>3. built' \in Nat /\ built <= built' /\ built \in Nat /\ clock \in Nat
  BY <1>1 DEF TypeOK
<1>4. FileWindow'
  BY <1>1, <1>2, <1>3, RecoverWindow
<1>5. ASSUME NEW w \in writing'
      PROVE  /\ w.id <= built' /\ w.createdAt <= clock' /\ w \notin gone'
             /\ \A r \in Parsed' : r.createdAt <= w.createdAt
             /\ \A h \in events' : Distinct(h, w)
  <2>1. w.id = built + 1 /\ w.createdAt = clock /\ w.identity = event.identity
    BY <1>1, <1>5 DEF Stored
  <2>2. w \notin gone
    <3>1. \A g \in gone : g.id <= built
      BY DEF WindowInv, FileWindow
    <3> QED  BY <1>3, <2>1, <3>1
  <2>3. \A h \in events' : Distinct(h, w)
    BY <1>1, <1>2, <2>1 DEF Previous, Distinct
  <2>4. \A r \in Parsed' : r.createdAt <= w.createdAt
    BY <1>2, <1>4, <2>1 DEF FileWindow
  <2> QED  BY <1>1, <1>2, <1>3, <2>1, <2>2, <2>3, <2>4
<1> QED  BY <1>4, <1>5 DEF WindowInv, WritingWindow

\* A refused append changes nothing but what its repair did.
LEMMA RefuseOversizeWindow ==
  ASSUME TypeOK, IInv, WindowInv, RefuseOversize
  PROVE  WindowInv'
<1>1. /\ Recover /\ up /\ writing' = {} /\ built' = built
      /\ UNCHANGED <<up, events, nextSequence, clock, gone>>
  BY DEF RefuseOversize, StartAppend, Running, ghosts
<1>2. FileWindow'
  BY <1>1, RecoverWindow DEF TypeOK
<1> QED  BY <1>1, <1>2 DEF WindowInv, WritingWindow

\* A record is committed: the older ones pushed out would be pruned again.
LEMMA EndWriteWindow ==
  ASSUME TypeOK, IInv, WindowInv, EndWrite
  PROVE  /\ WindowInv'
         /\ \E w \in writing : /\ events' = Kept(clock, events \cup {w})
                               /\ Sane(events \cup {w})
<1>1. PICK w \in writing : /\ CommitWrite(w) /\ up /\ writing' = {}
                           /\ UNCHANGED <<up, clock, built>>
  BY DEF EndWrite
<1>0. WritingWindow'
  <2>1. writing' = {}
    BY <1>1
  <2> QED  BY <2>1 DEF WritingWindow
<1> DEFINE E == events \cup {w}
<1>2. /\ Sane(E) /\ E \cap gone = {} /\ \A r \in E \cup gone : r.id <= built
      /\ \A r \in E : r.createdAt <= clock
      /\ nextSequence \in Nat /\ w.sequence = nextSequence
      /\ \A r \in events : r.sequence < nextSequence
  BY <1>1, ShownWindow
<1>3. events' = Kept(clock, E) /\ events' \subseteq E
  <2>1. events' = Pruned(E) /\ clock \in Nat
    BY <1>1 DEF CommitWrite, TypeOK
  <2> HIDE DEF E
  <2>2. events' = Kept(clock, E)
    BY <1>2, <2>1, PrunedNow, PrunedIsKept
  <2> QED  BY <2>2 DEF Kept
<1>4. nextSequence' = nextSequence + 1 /\ gone' = gone \cup (E \ events')
  BY <1>1 DEF CommitWrite
<1>5. \A r \in E : r.sequence < nextSequence' /\ r.sequence \in Nat
  BY <1>2, <1>4 DEF Sane, Records
<1>6. ASSUME Compact(events')  PROVE WindowInv'
  <2>1. built' \in Nat /\ built <= built' /\ nextSequence' \in Nat /\ events' \in SUBSET E
    <3>1. built \in Nat
      BY DEF TypeOK
    <3> HIDE DEF E
    <3> QED  BY <1>1, <1>2, <1>3, <1>4, <3>1
  <2> HIDE DEF E
  <2>2. FileWindow'
    BY <1>1, <1>2, <1>4, <1>5, <1>6, <2>1, CompactWindow
  <2> QED  BY <1>0, <2>2 DEF WindowInv
<1>7. ASSUME file' = WithLine(w)  PROVE WindowInv'
  <2>1. w \in Records /\ Parsed = file.lines /\ events \subseteq Parsed
    BY <1>1, SaneWindow
  <2>2. ~Glued
    BY <1>1 DEF IInv, Running
  <2>3. Parsed' = file.lines \cup {w}
    BY <1>7, <2>1, <2>2, WithLineFacts DEF Parsed
  <2>4. /\ IsFiniteSet(Parsed') /\ AgeOrdered(Parsed') /\ Parsed' \in SUBSET Records
        /\ \A r \in Parsed' : r.id <= built' /\ r.createdAt <= clock'
        /\ \A r \in Parsed' \cap gone : Out(clock', r, Parsed')
        /\ \A r \in Parsed' : r = w \/ (r \in file.lines /\ r.sequence < nextSequence)
    BY <1>1, <2>3, GrownWindow
  <2>5. E \subseteq Parsed'
    BY <2>1, <2>3
  <2>6. \A r \in Parsed' \cap gone' : Out(clock', r, Parsed')
    <3> HIDE DEF E
    <3>1. \A r \in E \ events' : Out(clock, r, E)
      BY <1>3 DEF Kept
    <3>2. \A r \in E \ events' : Out(clock, r, Parsed')
      BY <2>4, <2>5, <3>1, OutOfMore
    <3> QED  BY <1>1, <1>4, <2>4, <3>2
  <2>7. \A r \in Parsed' \cup gone' : r.id <= built'
    BY <1>1, <1>2, <1>4, <2>4
  <2>8. events' \cap gone' = {}
    BY <1>2, <1>3, <1>4
  <2>9. \A r \in Parsed' : r.sequence < nextSequence' /\ r.sequence \in Nat
    BY <1>2, <1>4, <2>4 DEF Records
  <2>10. \A r \in Parsed' : r \in events' \cup gone'
    <3>1. \A r \in Parsed' : r \in E \cup gone
      <4>1. \A r \in Parsed : r.sequence < nextSequence => r \in events \cup gone
        BY <1>1 DEF WindowInv, FileWindow, MemoryWindow
      <4> QED  BY <2>1, <2>4, <4>1
    <3> HIDE DEF E
    <3> QED  BY <1>4, <3>1
  <2>11. MemoryWindow'
    BY <1>2, <1>4, <2>8, <2>9, <2>10 DEF MemoryWindow
  <2>12. \A r \in Parsed' : r.createdAt <= clock'
    BY <2>4
  <2>13. FileWindow'
    BY <2>4, <2>6, <2>7, <2>11, <2>12 DEF FileWindow
  <2> QED  BY <1>0, <2>13 DEF WindowInv
<1>8. Compact(events') \/ file' = WithLine(w)
  BY <1>1 DEF CommitWrite
<1> HIDE DEF E
<1>9. WindowInv'
  BY <1>6, <1>7, <1>8
<1> QED  BY <1>2, <1>3, <1>9 DEF E

\* A clear leaves neither lines nor records.
LEMMA ClearNowWindow ==
  ASSUME TypeOK, IInv, WindowInv, ClearNow
  PROVE  WindowInv' /\ events' = {}
<1>1. /\ up /\ events' = {} /\ Compact({}) /\ gone' = gone \cup (events \ {})
      /\ built' = built /\ clock' = clock /\ nextSequence' = nextSequence /\ writing' = writing
  BY DEF ClearNow, Running
<1>2. writing' = {}
  BY <1>1 DEF ClearNow, IInv, Running
<1>3. FileWindow'
  BY <1>1, RewriteWindow DEF TypeOK
<1> QED  BY <1>1, <1>2, <1>3 DEF WindowInv, WritingWindow

\* Maintenance drops what is out, whether the file can be rewritten or not.
LEMMA MaintainWindow ==
  ASSUME TypeOK, IInv, WindowInv, Maintain
  PROVE  WindowInv' /\ events' = Kept(clock, events) /\ Sane(events)
<1>1. /\ up /\ up' = up /\ events' = Pruned(events) /\ gone' = gone \cup (events \ events')
      /\ built' = built /\ clock' = clock /\ nextSequence' = nextSequence /\ writing' = writing
  BY DEF Maintain, Running
<1>2. Sane(events) /\ clock \in Nat /\ events \subseteq Parsed /\ Sane(Parsed)
  BY <1>1, SaneWindow
<1>3. events' = Kept(clock, events) /\ events' \subseteq events
  <2>1. events' = Kept(clock, events)
    BY <1>1, <1>2, PrunedNow, PrunedIsKept
  <2> QED  BY <2>1 DEF Kept
<1>4. writing' = {}
  BY <1>1 DEF Maintain, IInv, Running
<1>5. CASE Compact(events')
  <2>1. built' \in Nat /\ built <= built'
    BY <1>1 DEF TypeOK
  <2>2. FileWindow'
    BY <1>1, <1>3, <1>5, <2>1, RewriteWindow
  <2> QED  BY <1>2, <1>3, <1>4, <2>2 DEF WindowInv, WritingWindow
<1>6. CASE UNCHANGED file
  <2>1. Parsed' = Parsed
    BY <1>6 DEF Parsed
  <2>2. \A r \in events \ events' : Out(clock, r, Parsed)
    <3>1. \A r \in events \ events' : Out(clock, r, events)
      BY <1>3 DEF Kept
    <3> QED  BY <1>2, <3>1, OutOfMore DEF Sane
  <2>3. \A r \in Parsed' \cap gone' : Out(clock', r, Parsed')
    BY <1>1, <2>1, <2>2 DEF WindowInv, FileWindow
  <2>4. \A r \in Parsed' \cup gone' : r.id <= built'
    BY <1>1, <1>2, <2>1 DEF WindowInv, FileWindow
  <2>5. MemoryWindow'
    BY <1>1, <1>3, <2>1 DEF WindowInv, FileWindow, MemoryWindow
  <2>6. FileWindow'
    BY <1>1, <2>1, <2>3, <2>4, <2>5 DEF WindowInv, FileWindow
  <2> QED  BY <1>2, <1>3, <1>4, <2>6 DEF WindowInv, WritingWindow
<1> QED  BY <1>5, <1>6 DEF Maintain

\* Every step keeps the window.
LEMMA WindowStep ==
  ASSUME TypeOK, IInv, WindowInv, [Next]_vars
  PROVE  WindowInv'
<1>0. built \in Nat /\ clock \in Nat
  BY DEF TypeOK
<1>1. ASSUME UNCHANGED <<up, events, nextSequence, file, built, gone, writing>>,
             clock' \in {clock, clock + 1}
      PROVE  WindowInv'
  <2>1. built' \in Nat /\ built <= built' /\ clock' \in Nat /\ clock <= clock'
    BY <1>0, <1>1
  <2>2. FileWindow'
    BY <1>1, <2>1, WindowStays DEF WindowInv
  <2>3. WritingWindow'
    <3>1. Parsed' = Parsed /\ \A w \in writing : w.createdAt \in Nat
      BY <1>1 DEF Parsed, TypeOK, Records
    <3> QED  BY <1>0, <1>1, <3>1 DEF WindowInv, WritingWindow
  <2> QED  BY <2>2, <2>3 DEF WindowInv
<1>2. CASE ReadyFails \/ Tick \/ UNCHANGED vars
  BY <1>1, <1>2 DEF ReadyFails, Tick, vars, memory, ghosts, counters
<1>3. ASSUME NEW job, Enqueue(job)
      PROVE  WindowInv'
  BY <1>1, <1>3 DEF Enqueue, memory, ghosts
<1>4. CASE AnswerKnown \/ RefuseUnhealthy \/ ClearFails
  BY <1>1, <1>4 DEF AnswerKnown, RefuseUnhealthy, ClearFails, StartAppend, memory, ghosts
<1>5. CASE RequestClear \/ RequestMaintain \/ \E event \in Events : RequestAppend(event)
  BY <1>3, <1>5 DEF RequestAppend, RequestClear, RequestMaintain
<1>6. CASE Job
  BY <1>4, <1>6, RefuseOversizeWindow, BeginWriteWindow, EndWriteWindow, FailWriteWindow,
     ClearNowWindow, MaintainWindow DEF Job
<1> QED  BY <1>2, <1>5, <1>6, ReadyWindow, CrashWindow DEF Next

\* The window holds at the start and is kept by every step.
THEOREM WindowInvariant == Spec => []WindowInv
<1>1. Init => WindowInv
  <2> SUFFICES ASSUME Init  PROVE WindowInv
    OBVIOUS
  <2>1. Parsed = {} /\ gone = {} /\ writing = {} /\ ~up
    BY DEF Init, Parsed, CleanFile
  <2> QED  BY <2>1, FS_EmptySet DEF WindowInv, FileWindow, WritingWindow, AgeOrdered
<1>2. TypeOK /\ IInv /\ WindowInv /\ [Next]_vars => WindowInv'
  BY WindowStep
<1> QED  BY <1>1, <1>2, StoreInvariant, PTL DEF Spec

\* A record that aged out, was pushed out or was cleared is never shown again, however
\* much of it the file still holds and however often the hub starts from that file.
THEOREM NothingResurrected == Spec => []NoResurrection
<1>1. WindowInv => NoResurrection
  BY DEF WindowInv, FileWindow, MemoryWindow, NoResurrection
<1> QED  BY <1>1, WindowInvariant, PTL

(***************************************************************************)
(* The store implements the log.                                           *)
(***************************************************************************)

\* What is kept is the newest part.
LEMMA KeptIsNewest ==
  ASSUME NEW S, Sane(S), NEW t \in Nat
  PROVE  Kept(t, S) \in Log!Newest(S)
<1>1. Kept(t, S) \in SUBSET S
  BY DEF Kept
<1>2. ASSUME NEW r \in Kept(t, S), NEW s \in S \ Kept(t, S)
      PROVE  s.sequence < r.sequence
  <2>1. r.sequence \in Nat /\ s.sequence \in Nat
    BY <1>1 DEF Sane, Records
  <2>2. ~(r.sequence <= s.sequence)
    BY NewerAreKept
  <2> QED  BY <2>1, <2>2
<1> QED  BY <1>1, <1>2 DEF Log!Newest

\* What is kept later is the newest part of what was kept.
LEMMA KeptLater ==
  ASSUME NEW S, Sane(S), NEW t \in Nat, NEW u \in Nat, t <= u
  PROVE  Kept(u, S) \in Log!Newest(Kept(t, S))
<1>1. Kept(u, S) \in SUBSET Kept(t, S)
  BY OutLater DEF Kept, Sane
<1>2. \A r \in Kept(u, S), s \in S \ Kept(u, S) : s.sequence < r.sequence
  BY KeptIsNewest DEF Log!Newest
<1> QED  BY <1>1, <1>2 DEF Log!Newest, Kept

\* What a reader saw of a file of which S is the newest part.
LEMMA NewestOfMore ==
  ASSUME NEW P, NEW V \in Log!Newest(P), NEW S \in SUBSET P, V \subseteq S
  PROVE  V \in Log!Newest(S)
BY DEF Log!Newest

\* A crash shows what was shown, or that and the record being written or left of a
\* failed write.
LEMMA CrashView ==
  ASSUME TypeOK, IInv, WindowInv, TypeOK', IInv', WindowInv', Crash
  PROVE  Log!Next
<1> DEFINE V == Kept(clock, Parsed')
           New(r) == r.sequence = nextSequence /\ \A h \in events : Distinct(h, r)
<1>1. /\ up /\ ~up' /\ clock' = clock /\ clock \in Nat /\ nextSequence \in Nat
      /\ gone' = gone
      /\ file' \in IF writing = {} THEN {file} ELSE UNION {Prefixes(w) : w \in writing}
  BY DEF Crash, TypeOK, ghosts
<1>2. Sane(Parsed')
  <2>1. Parsed' \in SUBSET Records
    BY DEF TypeOK, Files, Parsed
  <2> QED  BY <2>1 DEF Sane, WindowInv, FileWindow
<1>3. ReaderView = events /\ ReaderView' = V
  <2>1. Pruned(Parsed)' = V
    BY <1>1, <1>2, PrunedNow, PrunedIsKept
  <2> QED  BY <1>1, <2>1 DEF ReaderView
<1>4. \A r \in Parsed : r \in events \cup gone \/ New(r)
  <2>1. \A r \in Parsed : r.sequence \in Nat
    BY DEF TypeOK, Files, Parsed, Records
  <2> QED  BY <1>1, <2>1 DEF WindowInv, FileWindow, MemoryWindow
<1>5. events \subseteq Parsed' /\ \A r \in Parsed' : r \in events \cup gone \/ New(r)
  <2>1. CASE writing = {}
    <3>1. Parsed' = Parsed
      BY <1>1, <2>1 DEF Parsed
    <3> QED  BY <1>1, <1>4, <3>1, SaneWindow
  <2>2. CASE writing # {}
    <3>1. PICK w \in writing : file' \in Prefixes(w)
      BY <1>1, <2>2
    <3>2. ~Glued /\ ~file.broken /\ w \in Records /\ w.sequence = nextSequence
      BY <3>1 DEF IInv, Running, TypeOK
    <3>3. file.lines \subseteq Parsed' /\ Parsed' \subseteq file.lines \cup {w}
      BY <3>1, <3>2, PrefixesFacts DEF Parsed
    <3>4. New(w)
      BY <3>1, <3>2 DEF WindowInv, WritingWindow
    <3>5. Parsed = file.lines /\ events \subseteq Parsed
      BY <1>1, <3>1, SaneWindow
    <3> HIDE DEF New
    <3> QED  BY <1>4, <3>3, <3>4, <3>5
  <2> QED  BY <2>1, <2>2
<1>6. V \in Log!Newest(Parsed') /\ V \subseteq Parsed'
  BY <1>1, <1>2, KeptIsNewest DEF Kept
<1>7. \A r \in V : r \in events \/ New(r)
  <2>1. \A r \in Parsed' \cap gone : Out(clock, r, Parsed')
    BY <1>1 DEF WindowInv, FileWindow
  <2>2. \A r \in V : r \notin gone
    BY <2>1 DEF Kept
  <2> HIDE DEF New, V
  <2> QED  BY <1>5, <1>6, <2>2
<1>8. CASE V \subseteq events
  <2>1. V \in Log!Newest(events)
    BY <1>5, <1>6, <1>8, NewestOfMore
  <2> QED  BY <1>3, <2>1 DEF Log!Next, Log!Leave
<1>9. ASSUME NEW w \in V, w \notin events  PROVE Log!Next
  <2>1. w \in Parsed' /\ w.sequence = nextSequence /\ \A h \in events : Distinct(h, w)
    BY <1>6, <1>7, <1>9
  <2>2. V \subseteq events \cup {w}
    <3> SUFFICES ASSUME NEW r \in V, r \notin events  PROVE r = w
      OBVIOUS
    <3>1. r \in Parsed' /\ r.sequence = nextSequence
      BY <1>6, <1>7
    <3> QED  BY <2>1, <3>1 DEF IInv
  <2>3. events \cup {w} \in SUBSET Parsed'
    BY <1>5, <2>1
  <2>4. V \in Log!Newest(events \cup {w})
    <3> HIDE DEF V
    <3> QED  BY <1>6, <2>2, <2>3, NewestOfMore
  <2>5. \A h \in events : h.sequence < w.sequence /\ Distinct(h, w)
    BY <1>1, <2>1 DEF IInv, Committed
  <2>6. w \in Records
    BY <1>2, <2>1 DEF Sane
  <2>7. Log!Enter(w)
    <3> HIDE DEF V
    <3> QED  BY <1>3, <2>4, <2>5 DEF Log!Enter, Distinct
  <2>8. w \in (ReaderView' \ ReaderView) \cap Records
    BY <1>3, <1>9, <2>6
  <2> QED  BY <2>7, <2>8 DEF Log!Next
<1> QED  BY <1>8, <1>9

\* A record that is committed enters, unless the limits leave no room for any.
LEMMA EndWriteView ==
  ASSUME TypeOK, IInv, WindowInv, EndWrite
  PROVE  Log!Next
<1>1. PICK w \in writing : events' = Kept(clock, events \cup {w}) /\ Sane(events \cup {w})
  BY EndWriteWindow
<1>2. /\ up /\ up' /\ clock \in Nat /\ w.sequence = nextSequence
      /\ \A h \in events : h.sequence < nextSequence /\ Distinct(h, w)
  BY DEF EndWrite, TypeOK, IInv, Committed, WindowInv, WritingWindow
<1>3. ReaderView = events /\ ReaderView' = events'
  BY <1>2 DEF ReaderView
<1>4. events' \in Log!Newest(events \cup {w}) /\ events' \subseteq events \cup {w}
  BY <1>1, <1>2, KeptIsNewest DEF Kept
<1>5. CASE w \in events'
  <2>1. w \in Records /\ w \notin events
    BY <1>1, <1>2 DEF Sane, TypeOK
  <2>2. Log!Enter(w)
    BY <1>2, <1>3, <1>4 DEF Log!Enter, Distinct
  <2> QED  BY <1>3, <1>5, <2>1, <2>2 DEF Log!Next
<1>6. CASE w \notin events'
  <2>1. events' \subseteq events
    BY <1>4, <1>6
  <2>2. events' \in Log!Newest(events)
    BY <1>4, <2>1, NewestOfMore
  <2> QED  BY <1>3, <2>2 DEF Log!Next, Log!Leave
<1> QED  BY <1>5, <1>6

\* A clear takes all, and maintenance and time take the oldest.
LEMMA LeaveView ==
  ASSUME TypeOK, IInv, WindowInv, ClearNow \/ Maintain \/ (Tick /\ ~up)
  PROVE  Log!Next
<1>1. CASE ClearNow
  <2>1. up /\ up' /\ events' = {}
    BY <1>1 DEF ClearNow, Running
  <2>2. events' \in Log!Newest(events)
    BY <2>1 DEF Log!Newest
  <2> QED  BY <2>1, <2>2 DEF Log!Next, Log!Leave, ReaderView
<1>2. CASE Maintain
  <2>1. up /\ up' /\ events' = Kept(clock, events) /\ Sane(events) /\ clock \in Nat
    BY <1>2, MaintainWindow DEF Maintain, Running, TypeOK
  <2>2. events' \in Log!Newest(events)
    BY <2>1, KeptIsNewest
  <2> QED  BY <2>1, <2>2 DEF Log!Next, Log!Leave, ReaderView
<1>3. CASE Tick /\ ~up
  <2>1. /\ ~up' /\ clock' = clock + 1 /\ clock \in Nat /\ Parsed' = Parsed /\ Sane(Parsed)
    BY <1>3, SaneWindow DEF Tick, Parsed
  <2>2. ReaderView = Kept(clock, Parsed)
    BY <1>3, <2>1, PrunedNow, PrunedIsKept DEF ReaderView
  <2>3. ReaderView' = Kept(clock', Parsed)
    <3>1. Pruned(Parsed)' = PrunedAt(clock', Parsed')
      BY PrunedNow
    <3>2. clock' \in Nat
      BY <2>1
    <3>3. PrunedAt(clock', Parsed) = Kept(clock', Parsed)
      BY <2>1, <3>2, PrunedIsKept
    <3> QED  BY <2>1, <3>1, <3>3 DEF ReaderView
  <2>4. clock' \in Nat /\ clock <= clock'
    BY <2>1
  <2>5. Kept(clock', Parsed) \in Log!Newest(Kept(clock, Parsed))
    BY <2>1, <2>4, KeptLater
  <2> QED  BY <2>2, <2>3, <2>5 DEF Log!Next, Log!Leave
<1> QED  BY <1>1, <1>2, <1>3

\* A start shows what the file was to show.
LEMMA ReadyView ==
  ASSUME TypeOK, IInv, WindowInv, Ready
  PROVE  UNCHANGED ReaderView
BY DEF Ready, ReaderView

\* Every step of the store is one of the log, or is not seen by its readers.
LEMMA LogStep ==
  ASSUME TypeOK, IInv, WindowInv, TypeOK', IInv', WindowInv', [Next]_vars
  PROVE  [Log!Next]_ReaderView
<1>1. CASE UNCHANGED <<up, events>> /\ up
  BY <1>1 DEF ReaderView
<1>2. CASE UNCHANGED <<up, file, clock>> /\ ~up
  BY <1>2 DEF ReaderView, Pruned, Unexpired, Parsed
<1>3. CASE UNCHANGED vars \/ ReadyFails
  BY <1>1, <1>2, <1>3 DEF vars, memory, ReadyFails
<1>4. CASE Tick
  BY <1>1, <1>4, LeaveView DEF Tick, memory
<1>5. CASE RequestClear \/ RequestMaintain \/ \E event \in Events : RequestAppend(event)
  BY <1>1, <1>5 DEF RequestAppend, RequestClear, RequestMaintain, Enqueue, memory
<1>6. CASE AnswerKnown \/ RefuseUnhealthy \/ RefuseOversize \/ BeginWrite
  BY <1>1, <1>6 DEF AnswerKnown, RefuseUnhealthy, RefuseOversize, BeginWrite, StartAppend, Running
<1>7. CASE FailWrite \/ ClearFails
  BY <1>1, <1>7 DEF FailWrite, ClearFails, Running, memory
<1>8. CASE Crash
  BY <1>8, CrashView
<1>9. CASE Ready
  BY <1>9, ReadyView
<1>10. CASE EndWrite \/ ClearNow \/ Maintain
  BY <1>10, EndWriteView, LeaveView
<1> QED  BY <1>3, <1>4, <1>5, <1>6, <1>7, <1>8, <1>9, <1>10 DEF Next, Job

\* For its readers the store is a window onto a log, whatever fails, dies or is retried:
\* it implements HistoryLog, in which a submission enters once, in order, and only the
\* oldest records leave.
THEOREM StoreRefinesLog == Spec => RefinesLog
<1>1. Init => Log!Init
  <2> SUFFICES ASSUME Init  PROVE ReaderView = {}
    BY DEF Log!Init
  <2>1. Parsed = {} /\ ~up
    BY DEF Init, Parsed, CleanFile
  <2> QED  BY <2>1, PrunedSubset DEF ReaderView
<1>2. /\ TypeOK /\ IInv /\ WindowInv /\ (TypeOK /\ IInv /\ WindowInv)' /\ [Next]_vars
      => [Log!Next]_ReaderView
  BY LogStep
<1> QED  BY <1>1, <1>2, StoreInvariant, WindowInvariant, PTL DEF Spec, RefinesLog, Log!Spec
=============================================================================

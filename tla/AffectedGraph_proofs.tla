------------------------ MODULE AffectedGraph_proofs -------------------------
(***************************************************************************)
(* Proofs about AffectedGraph, for any number of workspaces, any graph and *)
(* any change.  Marking returns the least set that holds the owners of the *)
(* change and is closed under dependents, which is the set of workspaces   *)
(* whose checkout holds an owner.                                          *)
(***************************************************************************)
EXTENDS AffectedGraph, Orders_proofs

------------------------------------------------------------------------------
(* Closures.                                                               *)
Graphs == [Project -> SUBSET Project]

LEMMA ProjectsAreFinite ==
    /\ N \in Nat /\ Project = 1..N
    /\ IsFiniteSet(Project) /\ Cardinality(Project) = N
    /\ \A S \in SUBSET Project : IsFiniteSet(S) /\ Cardinality(S) \in 0..N
<1>1. N \in Nat /\ Project = 1..N
  BY GraphAssumption DEF Project
<1>2. IsFiniteSet(Project) /\ Cardinality(Project) = N
  BY <1>1, FS_Interval
<1>3. \A S \in SUBSET Project : IsFiniteSet(S) /\ Cardinality(S) \in Nat /\ Cardinality(S) <= N
  BY <1>2, FS_Subset, FS_CardinalityType
<1> QED
  BY <1>1, <1>2, <1>3

(* What is within n edges of p.                                            *)
LEMMA ClosureSteps ==
    ASSUME NEW edges \in Graphs, NEW p \in Project
    PROVE  \E within \in [0..N -> SUBSET Project] :
              /\ Closure(edges, p) = within[N]
              /\ within[0] = {p}
              /\ \A n \in 1..N :
                    within[n] = within[n - 1] \cup UNION {edges[q] : q \in within[n - 1]}
<1> DEFINE near(X) == X \cup UNION {edges[q] : q \in X}
           Is(f) == f = [n \in 0..N |->
                           IF n = 0 THEN {p} ELSE f[n - 1] \cup UNION {edges[q] : q \in f[n - 1]}]
           D == SUBSET Project
           start == {p}
           step == [n \in 1..N |-> [X \in D |-> near(X)]]
<1>1. N \in Nat /\ start \in D
  BY ProjectsAreFinite
<1>2. step \in [1..N -> [D -> D]]
  <2>1. \A X \in D : near(X) \in D
    BY DEF Graphs
  <2> QED
    BY <2>1
<1>3. \A n \in 1..N, X \in D : step[n][X] = near(X)
  OBVIOUS
<1>4. PICK f \in [0..N -> D] : f[0] = start /\ \A n \in 1..N : f[n] = step[n][f[n - 1]]
  <2> HIDE DEF D, start, step, near, Is
  <2>1. Stepwise(D, start, N, step)
    BY <1>1, <1>2 DEF Stepwise
  <2>2. \E f : Follows(f, D, start, N, step)
    BY <2>1, StepsAreFollowed, Zenon
  <2> QED
    BY <2>2 DEF Follows
<1>5. Is(f)
  <2>1. ASSUME NEW n \in 0..N
        PROVE  f[n] = IF n = 0 THEN {p} ELSE f[n - 1] \cup UNION {edges[q] : q \in f[n - 1]}
    <3>1. CASE n = 0
      BY <3>1, <1>4
    <3>2. CASE n # 0
      <4>1. n \in 1..N /\ n - 1 \in 0..N
        BY <3>2, <1>1
      <4>2. f[n] = near(f[n - 1])
        <5> HIDE DEF step, near
        <5> QED
          BY <4>1, <1>3, <1>4
      <4> QED
        BY <3>2, <4>2
    <3> QED
      BY <3>1, <3>2
  <2> HIDE DEF D
  <2>2. DOMAIN f = 0..N /\ f = [n \in DOMAIN f |-> f[n]]
    OBVIOUS
  <2> QED
    BY <2>1, <2>2
<1>6. PICK within : Is(within) /\ Closure(edges, p) = within[N]
  <2>1. Is(CHOOSE g : Is(g))
    BY <1>5
  <2>2. Closure(edges, p) = (CHOOSE g : Is(g))[N]
    BY DEF Closure
  <2> QED
    BY <2>1, <2>2
<1>7. within[0] = {p}
  BY <1>1, <1>6
<1>8. ASSUME NEW n \in 1..N
      PROVE  within[n] = within[n - 1] \cup UNION {edges[q] : q \in within[n - 1]}
  <2>1. n \in 0..N /\ n # 0
    BY <1>1
  <2>2. within[n] = [i \in 0..N |->
                       IF i = 0 THEN {p}
                       ELSE within[i - 1] \cup UNION {edges[q] : q \in within[i - 1]}][n]
    BY <1>6
  <2> QED
    BY <2>1, <2>2
<1> DEFINE G == {n \in 0..N : within[n] \in SUBSET Project}
<1>9. 0 \in G
  BY <1>1, <1>7
<1>10. ASSUME NEW n \in 1..N, n - 1 \in G PROVE n \in G
  BY <1>1, <1>8, <1>10 DEF Graphs
<1> HIDE DEF G
<1>11. \A n \in 0..N : n \in G
  BY <1>1, <1>9, <1>10, SetInduction
<1>12. \A n \in 0..N : within[n] \in SUBSET Project
  BY <1>11 DEF G
<1>13. within \in [0..N -> SUBSET Project]
  BY <1>6, <1>12
<1> QED
  BY <1>6, <1>7, <1>8, <1>13

(* What N rounds of Closure compute is the least set that holds p and is   *)
(* closed under the edges (workspace.rs, dependency_closure_paths), as     *)
(* each round that is not without effect adds a workspace.                 *)
THEOREM ClosureIsLeast ==
    ASSUME NEW edges \in Graphs, NEW p \in Project
    PROVE  /\ p \in Closure(edges, p)
           /\ Closure(edges, p) \subseteq Project
           /\ \A q \in Closure(edges, p) : edges[q] \subseteq Closure(edges, p)
           /\ \A S : p \in S /\ (\A q \in S \cap Project : edges[q] \subseteq S)
                        => Closure(edges, p) \subseteq S
<1> DEFINE near(X) == X \cup UNION {edges[q] : q \in X}
<1>1. PICK within \in [0..N -> SUBSET Project] :
          /\ Closure(edges, p) = within[N]
          /\ within[0] = {p}
          /\ \A n \in 1..N : within[n] = near(within[n - 1])
  BY ClosureSteps
<1>2. N \in Nat /\ N \in 0..N /\ 0 \in 0..N /\ \A n \in 1..N : n - 1 \in 0..N /\ n \in 0..N
  BY ProjectsAreFinite
<1>3. \A n \in 0..N : IsFiniteSet(within[n]) /\ Cardinality(within[n]) \in 0..N
  BY ProjectsAreFinite
<1>4. p \in within[N]
  <2> DEFINE G == {n \in 0..N : p \in within[n]}
  <2>1. 0 \in G /\ \A n \in 1..N : n - 1 \in G => n \in G
    BY <1>1, <1>2
  <2> HIDE DEF G
  <2>2. N \in G
    BY <1>2, <2>1, SetInduction
  <2> QED
    BY <2>2 DEF G
<1>5. near(within[N]) = within[N]
  <2> DEFINE Grown(n) == near(within[n]) = within[n] \/ Cardinality(within[n]) >= n + 1
             G == {n \in 0..N : Grown(n)}
  <2>1. 0 \in G
    <3>1. Cardinality(within[0]) = 1
      BY <1>1, FS_Singleton
    <3> QED
      BY <1>2, <3>1
  <2>2. ASSUME NEW n \in 1..N, n - 1 \in G PROVE n \in G
    <3>1. n - 1 \in 0..N /\ n \in 0..N /\ within[n] = near(within[n - 1]) /\ n \in Nat
      BY <1>1, <1>2
    <3>2. CASE near(within[n - 1]) = within[n - 1]
      <4>1. within[n] = within[n - 1]
        BY <3>1, <3>2
      <4>2. near(within[n]) = within[n]
        BY <3>2, <4>1
      <4>3. Grown(n)
        BY <4>2
      <4> HIDE DEF Grown
      <4> QED
        BY <3>1, <4>3
    <3>3. CASE near(within[n - 1]) # within[n - 1]
      <4>1. Cardinality(within[n - 1]) >= n
        BY <2>2, <3>1, <3>3
      <4>2. within[n - 1] \in SUBSET within[n] /\ within[n - 1] # within[n]
        BY <3>1, <3>3
      <4>3. Cardinality(within[n - 1]) <= Cardinality(within[n])
            /\ Cardinality(within[n - 1]) # Cardinality(within[n])
        BY <1>3, <3>1, <4>2, FS_Subset
      <4>4. Cardinality(within[n - 1]) \in Nat /\ Cardinality(within[n]) \in Nat
        <5> HIDE DEF near
        <5> QED
          BY <1>2, <1>3, <3>1
      <4>5. Cardinality(within[n]) >= n + 1
        BY <3>1, <4>1, <4>3, <4>4
      <4>6. Grown(n)
        BY <4>5
      <4> HIDE DEF Grown
      <4> QED
        BY <3>1, <4>6
    <3> QED
      BY <3>2, <3>3
  <2> HIDE DEF G
  <2>3. \A n \in 0..N : n \in G
    BY <1>2, <2>1, <2>2, SetInduction
  <2>4. N \in G
    BY <1>2, <2>3
  <2>5. ~(Cardinality(within[N]) >= N + 1)
    BY <1>2, <1>3
  <2> QED
    BY <2>4, <2>5 DEF G
<1>6. ASSUME NEW S, p \in S, \A q \in S \cap Project : edges[q] \subseteq S
      PROVE  within[N] \subseteq S
  <2> DEFINE G == {n \in 0..N : within[n] \subseteq S}
  <2>1. 0 \in G
    BY <1>1, <1>2, <1>6
  <2>2. ASSUME NEW n \in 1..N, n - 1 \in G PROVE n \in G
    <3>1. n - 1 \in 0..N /\ n \in 0..N /\ within[n] = near(within[n - 1])
          /\ within[n - 1] \subseteq Project /\ within[n - 1] \subseteq S
      BY <1>1, <1>2, <2>2
    <3> QED
      BY <3>1, <1>6
  <2> HIDE DEF G
  <2>3. N \in G
    BY <1>2, <2>1, <2>2, SetInduction
  <2> QED
    BY <2>3 DEF G
<1>7. \A q \in within[N] : edges[q] \subseteq within[N]
  BY <1>5
<1> QED
  BY <1>1, <1>2, <1>4, <1>6, <1>7

LEMMA ClosureOfReached ==
    ASSUME NEW edges \in Graphs, NEW p \in Project, NEW q \in Closure(edges, p)
    PROVE  q \in Project /\ Closure(edges, q) \subseteq Closure(edges, p)
<1> PICK C : C = Closure(edges, p)
  OBVIOUS
<1>1. q \in Project /\ q \in C /\ \A r \in C : edges[r] \subseteq C
  BY ClosureIsLeast
<1>2. \A S : q \in S /\ (\A r \in S \cap Project : edges[r] \subseteq S)
                => Closure(edges, q) \subseteq S
  BY <1>1, ClosureIsLeast
<1> QED
  BY <1>1, <1>2

------------------------------------------------------------------------------
(* Marking.                                                                *)
ClosedUp(S) == \A p \in S : Dependents(p) \subseteq S

(* The strengthening.  A marked workspace is queued or has passed its mark *)
(* on (the code inserts and pushes in one step), and every closed set that *)
(* holds the owners holds what is marked.                                  *)
Marking ==
    /\ direct \subseteq affected
    /\ affected \subseteq Project
    /\ queue \subseteq affected
    /\ \A p \in affected \ queue : Dependents(p) \subseteq affected
    /\ \A S \in SUBSET Project :
          direct \subseteq S /\ ClosedUp(S) => affected \subseteq S

MarkInv ==
    /\ phase = "spread" => Marking
    /\ phase = "affected" => Marking /\ queue = {}

LEMMA OwnersAreProjects ==
    ASSUME NEW inside, NEW p \in Project
    PROVE  /\ Owner(inside, p) \in Containing(inside, p)
           /\ Containing(inside, p) \subseteq Project
<1> DEFINE here == Containing(inside, p)
<1>1. here \subseteq Nat /\ here # {}
  <2>1. Project \subseteq Nat
    BY GraphAssumption DEF Project
  <2>2. here \subseteq Project /\ p \in here
    BY DEF Containing
  <2> QED
    BY <2>1, <2>2
<1>2. PICK q \in here : \A r \in here : ~(<<r, q>> \in OpToRel(<, Nat))
  BY <1>1, NatLessThanWellFounded, WFMin
<1>3. ASSUME NEW r \in here PROVE q <= r
  <2>1. <<r, q>> \in Nat \X Nat /\ <<r, q>>[1] = r /\ <<r, q>>[2] = q
    BY <1>1
  <2>2. ~(r < q)
    BY <2>1, <1>2 DEF OpToRel
  <2> QED
    BY <2>2, <1>1
<1> QED
  BY <1>3 DEF Owner, Containing

LEMMA ChangesAreOfProjects == \A changed \in LocalChanges : changed \subseteq Project
<1> SUFFICES ASSUME NEW diff \in Diffs, NEW f \in Changed(diff), f.in # Outside
             PROVE  f.in \in Project
  BY DEF LocalChanges
<1>1. diff \subseteq Entry
  BY DEF Diffs
<1>2. \A c \in Entry : c.old \in File /\ c.new \in File
  BY DEF Entry
<1>3. f \in File
  BY <1>1, <1>2 DEF Changed, Files
<1> QED
  BY <1>3 DEF File

LEMMA MarkInvInit == Init => MarkInv
BY DEF Init, MarkInv

(* One step preserves it.  Only Mark, Spread and SpreadDone bear on it:    *)
(* every other step leaves the marks or the two phases behind.             *)
LEMMA MarkInvStep == MarkInv /\ [Next]_vars => MarkInv'
<1> SUFFICES ASSUME MarkInv, [Next]_vars
             PROVE  MarkInv'
  OBVIOUS
<1>1. CASE Mark
  <2>1. direct' \subseteq Project
    BY <1>1, OwnersAreProjects, ChangesAreOfProjects DEF Mark
  <2>2. phase' = "spread" /\ affected' = direct' /\ queue' = direct'
    BY <1>1 DEF Mark
  <2>3. Marking'
    BY <2>1, <2>2 DEF Marking
  <2> QED
    BY <2>2, <2>3 DEF MarkInv
<1>2. CASE Spread
  <2>1. PICK p \in queue :
          LET fresh == Dependents(p) \ affected
          IN  /\ affected' = affected \cup fresh
              /\ queue' = (queue \ {p}) \cup fresh
    BY <1>2 DEF Spread
  <2>2. phase = "spread" /\ phase' = "spread" /\ direct' = direct /\ links' = links
    BY <1>2 DEF Spread, repo
  <2>3. Marking
    BY <2>2 DEF MarkInv
  <2>4. \A q : Dependents(q)' = Dependents(q)
    BY <2>2 DEF Dependents, Neighbours
  <2>5. affected' = affected \cup Dependents(p)
    BY <2>1
  <2>6. /\ direct' \subseteq affected' /\ affected' \subseteq Project
        /\ queue' \subseteq affected'
    BY <2>1, <2>2, <2>3, <2>5 DEF Marking, Dependents
  <2>7. \A q \in affected' \ queue' : Dependents(q)' \subseteq affected'
    <3> SUFFICES ASSUME NEW q \in affected' \ queue'
                 PROVE  Dependents(q) \subseteq affected'
      BY <2>4
    <3>1. q = p \/ q \in affected \ queue
      BY <2>1
    <3> QED
      BY <3>1, <2>3, <2>5 DEF Marking
  <2>8. ASSUME NEW S \in SUBSET Project, direct' \subseteq S, ClosedUp(S)'
        PROVE  affected' \subseteq S
    <3>1. ClosedUp(S)
      BY <2>8, <2>4 DEF ClosedUp
    <3>2. affected \subseteq S
      BY <2>8, <2>2, <2>3, <3>1 DEF Marking
    <3> QED
      BY <2>1, <2>3, <2>5, <2>8, <3>1, <3>2 DEF Marking, ClosedUp
  <2> QED
    BY <2>2, <2>6, <2>7, <2>8 DEF MarkInv, Marking
<1>3. CASE SpreadDone
  <2>1. /\ phase = "spread" /\ queue = {} /\ phase' = "affected"
        /\ direct' = direct /\ affected' = affected /\ queue' = queue /\ links' = links
    BY <1>3 DEF SpreadDone, marks, repo
  <2>2. Marking'
    BY <2>1 DEF MarkInv, Marking, ClosedUp, Dependents, Neighbours
  <2> QED
    BY <2>1, <2>2 DEF MarkInv
<1>4. CASE TakeAll
  BY <1>4 DEF TakeAll, MarkInv
<1>5. ASSUME NEW all \in BOOLEAN, Select(all)
      PROVE  MarkInv'
  BY <1>5 DEF Select, MarkInv
<1>6. CASE Take
  BY <1>6 DEF Take, MarkInv
<1>7. CASE TakeRest
  BY <1>7 DEF TakeRest, MarkInv
<1>8. CASE RunTask
  BY <1>8 DEF RunTask, MarkInv
<1>9. CASE RunDone
  BY <1>9 DEF RunDone, MarkInv
<1>10. CASE UNCHANGED vars
  BY <1>10 DEF vars, marks, repo, MarkInv, Marking, ClosedUp, Dependents, Neighbours
<1> QED
  BY <1>1, <1>2, <1>3, <1>4, <1>5, <1>6, <1>7, <1>8, <1>9, <1>10 DEF Next

------------------------------------------------------------------------------
(* Sorting.                                                                *)
Waiting(q) == Neighbours(declares, q) \ ToSet(order)

PrecededUpTo(m) ==
    \A i \in 1..m : \A r \in Neighbours(declares, order[i]) : \E j \in 1..(i - 1) : order[j] = r

(* What follows the first m depends on something that follows them.        *)
HeldBack(m) ==
    \A i \in (m + 1)..Len(order) :
       \E r \in Neighbours(declares, order[i]) : \E j \in (m + 1)..Len(order) : order[j] = r

Sorting ==
    /\ IsInjective(order) /\ IsInjective(ready)
    /\ ToSet(ready) = {q \in Project \ ToSet(order) : Waiting(q) = {}}
    /\ \A q \in Project : indegree[q] = Cardinality(Waiting(q))
    /\ PrecededUpTo(Len(order))

(* The order that is executed: dependencies first, up to what is left of   *)
(* the cycles.                                                             *)
SortedAll ==
    /\ IsInjective(order) /\ ToSet(order) = Project
    /\ \E m \in 0..Len(order) : PrecededUpTo(m) /\ HeldBack(m)

Executing ==
    /\ IsInjective(completed)
    /\ ToSet(completed) \cup failed \subseteq selected
    /\ ToSet(completed) \cap failed = {}
    /\ pending = {}
    /\ keepGoing \/ failed = {}

Untouched == completed = << >> /\ failed = {} /\ pending = {}

RunInv ==
    /\ phase \in {"start", "all", "spread", "affected", "sort"} => Untouched
    /\ phase = "sort" => Sorting
    /\ phase = "run" => SortedAll /\ Executing

IInv == TypeOK /\ MarkInv /\ RunInv /\ RunIsAccounted

LEMMA ByNameOnce ==
    ASSUME NEW S \in SUBSET Project
    PROVE  ByName(S) \in Seq(Project) /\ IsInjective(ByName(S)) /\ ToSet(ByName(S)) = S
<1> DEFINE rank == [p \in S |-> NameRank[p]]
<1>1. IsFiniteSet(S) /\ rank \in [S -> Nat] /\ \A x, y \in S : rank[x] = rank[y] => x = y
  BY ProjectsAreFinite, GraphAssumption
<1> HIDE DEF rank
<1>2. Ranked(rank) \in Seq(S) /\ IsInjective(Ranked(rank)) /\ ToSet(Ranked(rank)) = S
  BY <1>1, RankedOnce
<1>3. ByName(S) = Ranked(rank)
  BY DEF ByName, rank
<1>4. Ranked(rank) \in Seq(Project)
  BY <1>2
<1> QED
  BY <1>2, <1>3, <1>4

LEMMA ByPathOnce ==
    ASSUME NEW S \in SUBSET Project
    PROVE  ByPath(S) \in Seq(Project) /\ IsInjective(ByPath(S)) /\ ToSet(ByPath(S)) = S
<1> DEFINE rank == [p \in S |-> p]
<1>1. IsFiniteSet(S) /\ rank \in [S -> Nat] /\ \A x, y \in S : rank[x] = rank[y] => x = y
  BY ProjectsAreFinite
<1> HIDE DEF rank
<1>2. Ranked(rank) \in Seq(S) /\ IsInjective(Ranked(rank)) /\ ToSet(Ranked(rank)) = S
  BY <1>1, RankedOnce
<1>3. ByPath(S) = Ranked(rank)
  BY DEF ByPath, rank
<1>4. Ranked(rank) \in Seq(Project)
  BY <1>2
<1> QED
  BY <1>2, <1>3, <1>4

(* What is left to execute is what is selected and was not executed yet.   *)
LEMMA LeftIsTheRest ==
    ASSUME order \in Seq(Project), IsInjective(order), ToSet(order) = Project, selected \subseteq Project
    PROVE  /\ Left \in Seq(Project) /\ IsInjective(Left)
           /\ ToSet(Left) = selected \ (ToSet(completed) \cup failed)
<1>1. RunOrder \in Seq(Project) /\ IsInjective(RunOrder) /\ ToSet(RunOrder) = selected
  <2>1. PICK o : o = order
    OBVIOUS
  <2>2. o \in Seq(Project) /\ IsInjective(o) /\ ToSet(o) = Project
    BY <2>1
  <2>3. /\ OnlyOf(o, selected) \in Seq(Project) /\ IsInjective(OnlyOf(o, selected))
        /\ ToSet(OnlyOf(o, selected)) = Project \cap selected
    BY <2>2, OnlyOfOnce
  <2> QED
    BY <2>1, <2>3 DEF RunOrder
<1>2. PICK r : r = RunOrder
  OBVIOUS
<1>3. Left = OnlyOf(r, Project \ (ToSet(completed) \cup failed))
  BY <1>2 DEF Left
<1>4. r \in Seq(Project) /\ IsInjective(r) /\ ToSet(r) = selected
  BY <1>1, <1>2
<1>5. Left \in Seq(Project) /\ IsInjective(Left)
      /\ ToSet(Left) = selected \cap (Project \ (ToSet(completed) \cup failed))
  BY <1>3, <1>4, OnlyOfOnce
<1> QED
  BY <1>5

LEMMA TypeInit == Init => TypeOK
<1> SUFFICES ASSUME Init PROVE TypeOK
  OBVIOUS
<1>1. links \in [Project -> SUBSET Project]
  <2>1. declares \in [Project -> SUBSET Project]
    BY DEF Init
  <2>2. PICK foreign \in SUBSET {e \in Project \X Project : e[2] \in declares[e[1]]} :
          links = [p \in Project |-> {q \in declares[p] : <<p, q>> \notin foreign}]
    BY DEF Init
  <2>3. \A p \in Project : {q \in declares[p] : <<p, q>> \notin foreign} \in SUBSET Project
    BY <2>1
  <2> QED
    BY <2>2, <2>3
<1>2. [p \in Project |-> 0] \in [Project -> Nat] /\ << >> \in Seq(Project)
  OBVIOUS
<1> QED
  BY <1>1, <1>2 DEF Init, TypeOK

LEMMA TypeStep == IInv /\ [Next]_vars => TypeOK'
<1> SUFFICES ASSUME IInv, [Next]_vars PROVE TypeOK'
  OBVIOUS
<1>0. TypeOK
  BY DEF IInv
<1>1. CASE UNCHANGED vars
  BY <1>0, <1>1 DEF TypeOK, vars, repo, marks, args, sort, tally
<1>2. CASE TakeAll
  BY <1>0, <1>2 DEF TypeOK, TakeAll, repo, marks, args, sort, tally
<1>3. CASE Mark
  <2>1. PICK inside \in Nesting, changed \in LocalChanges :
          /\ touched' = UNION {Containing(inside, p) : p \in changed}
          /\ direct' = {Owner(inside, p) : p \in changed}
    BY <1>3 DEF Mark
  <2>2. direct' \subseteq touched' /\ touched' \subseteq Project
    BY <2>1, OwnersAreProjects, ChangesAreOfProjects
  <2> QED
    BY <1>0, <1>3, <2>2 DEF TypeOK, Mark, repo, args, sort, tally
<1>4. CASE Spread
  <2>1. PICK p \in queue :
          LET fresh == Dependents(p) \ affected
          IN  /\ affected' = affected \cup fresh
              /\ queue' = (queue \ {p}) \cup fresh
    BY <1>4 DEF Spread
  <2>2. affected' \subseteq Project /\ queue' \subseteq affected'
    BY <1>0, <2>1 DEF TypeOK, Dependents
  <2> QED
    BY <1>0, <1>4, <2>2 DEF TypeOK, Spread, repo, args, sort, tally
<1>5. CASE SpreadDone
  BY <1>0, <1>5 DEF TypeOK, SpreadDone, repo, marks, args, sort, tally
<1>6. ASSUME NEW all \in BOOLEAN, Select(all) PROVE TypeOK'
  <2>1. UNCHANGED <<repo, marks, tally>>
    BY <1>6 DEF Select
  <2>2. selected' \subseteq Project /\ phase' \in {"sort", "rejected", "done"}
    <3>1. PICK filter \in Project \cup {NoFilter}, ignored \in IgnoreRules :
            LET chosen == IF all THEN MatchingAll(filter, ignored)
                                ELSE MatchingAffected(filter, ignored)
            IN  /\ selected' = chosen
                /\ phase' = IF chosen # {} THEN "sort"
                            ELSE IF all /\ filter # NoFilter THEN "rejected" ELSE "done"
      BY <1>6 DEF Select
    <3>2. MatchingAll(filter, ignored) \subseteq Project /\ MatchingAffected(filter, ignored) \subseteq Project
      BY <1>0 DEF TypeOK, MatchingAll, MatchingAffected
    <3> QED
      BY <3>1, <3>2
  <2>3. CASE phase' = "sort"
    <3>1. /\ keepGoing' \in BOOLEAN
          /\ indegree' = [p \in Project |-> InDegree(p)]
          /\ ready' = ByName({p \in Project : InDegree(p) = 0})
          /\ order' = << >>
      BY <1>6, <2>3 DEF Select
    <3>2. \A p \in Project : InDegree(p) \in Nat
      <4> SUFFICES ASSUME NEW p \in Project PROVE InDegree(p) \in Nat
        OBVIOUS
      <4>1. Neighbours(declares, p) \in SUBSET Project
        BY <1>0 DEF TypeOK, Neighbours
      <4>2. Cardinality(Neighbours(declares, p)) \in 0..N /\ N \in Nat
        BY <4>1, ProjectsAreFinite
      <4> QED
        BY <4>2 DEF InDegree
    <3>3. {p \in Project : InDegree(p) = 0} \in SUBSET Project
      OBVIOUS
    <3>4. ready' \in Seq(Project)
      BY <3>1, <3>3, ByNameOnce
    <3>5. indegree' \in [Project -> Nat]
      BY <3>1, <3>2
    <3> QED
      BY <1>0, <2>1, <2>2, <2>3, <3>1, <3>4, <3>5 DEF TypeOK, repo, marks, tally
  <2>4. CASE phase' # "sort"
    <3>1. UNCHANGED <<keepGoing, sort>>
      BY <1>6, <2>4 DEF Select
    <3> QED
      BY <1>0, <2>1, <2>2, <3>1 DEF TypeOK, repo, marks, sort, tally
  <2> QED
    BY <2>3, <2>4
<1>7. CASE Take
  <2>1. /\ phase = "sort" /\ phase' = "sort" /\ ready # << >> /\ ready \in Seq(Project)
        /\ UNCHANGED <<repo, marks, args, tally>>
    BY <1>0, <1>7 DEF Take, TypeOK
  <2>2. PICK p, less :
          /\ p = Head(ready) /\ less = {q \in Project : p \in Neighbours(declares, q)}
          /\ order' = Append(order, p)
          /\ indegree' = [q \in Project |-> IF q \in less THEN indegree[q] - 1 ELSE indegree[q]]
          /\ ready' = Tail(ready) \o ByName({q \in less : indegree'[q] = 0})
    BY <1>7 DEF Take
  <2>3. p \in Project /\ p \in ToSet(ready)
    BY <2>1, <2>2, BeheadedOnce
  <2>4. p \notin ToSet(order)
    BY <2>1, <2>3 DEF IInv, RunInv, Sorting
  <2>5. \A q \in less : q \in Project /\ indegree[q] - 1 \in Nat
    <3> SUFFICES ASSUME NEW q \in less PROVE q \in Project /\ indegree[q] - 1 \in Nat
      OBVIOUS
    <3>1. q \in Project /\ p \in Waiting(q) /\ Waiting(q) \in SUBSET Project
      BY <1>0, <2>2, <2>4 DEF Waiting, TypeOK, Neighbours
    <3>2. IsFiniteSet(Waiting(q)) /\ Cardinality(Waiting(q)) \in 0..N /\ N \in Nat
      BY <3>1, ProjectsAreFinite
    <3>3. Cardinality(Waiting(q)) # 0
      BY <3>1, <3>2, FS_EmptySet
    <3>4. indegree[q] = Cardinality(Waiting(q))
      BY <2>1, <3>1 DEF IInv, RunInv, Sorting
    <3> QED
      BY <3>1, <3>2, <3>3, <3>4
  <2>6. indegree' \in [Project -> Nat]
    BY <1>0, <2>2, <2>5 DEF TypeOK
  <2>7. ready' \in Seq(Project)
    <3>1. {q \in less : indegree'[q] = 0} \in SUBSET Project
      BY <2>5
    <3>2. Tail(ready) \in Seq(Project) /\ ByName({q \in less : indegree'[q] = 0}) \in Seq(Project)
      BY <2>1, <3>1, ByNameOnce
    <3> QED
      BY <2>2, <3>2
  <2>8. order' \in Seq(Project)
    BY <1>0, <2>2, <2>3 DEF TypeOK
  <2> QED
    BY <1>0, <2>1, <2>6, <2>7, <2>8 DEF TypeOK, repo, marks, args, tally
<1>8. CASE TakeRest
  <2>1. Project \ ToSet(order) \in SUBSET Project
    OBVIOUS
  <2>2. ByPath(Project \ ToSet(order)) \in Seq(Project)
    BY <2>1, ByPathOnce
  <2>3. order' \in Seq(Project)
    BY <1>0, <1>8, <2>2 DEF TypeOK, TakeRest
  <2> QED
    BY <1>0, <1>8, <2>3 DEF TypeOK, TakeRest, repo, marks, args, tally
<1>9. CASE RunTask
  <2>1. /\ Left # << >> /\ phase = "run" /\ UNCHANGED <<repo, marks, args, sort>>
    BY <1>9 DEF RunTask
  <2>2. PICK l : l = Left
    OBVIOUS
  <2>3. l \in Seq(Project) /\ IsInjective(l)
    BY <1>0, <2>1, <2>2, LeftIsTheRest DEF IInv, RunInv, SortedAll, TypeOK
  <2>4. Head(l) \in Project /\ ToSet(Tail(l)) \subseteq Project
    <3>1. ToSet(l) \subseteq Project
      BY <2>3 DEF ToSet
    <3> QED
      BY <2>1, <2>2, <2>3, <3>1, BeheadedOnce
  <2>5. \/ completed' = Append(completed, Head(l)) /\ UNCHANGED <<phase, failed, pending>>
        \/ /\ failed' = failed \cup {Head(l)}
           /\ UNCHANGED completed
           /\ \/ UNCHANGED <<phase, pending>>
              \/ phase' = "done" /\ pending' = ToSet(Tail(l))
    BY <1>9, <2>2 DEF RunTask
  <2>6. completed' \in Seq(Project) /\ failed' \subseteq Project /\ pending' \subseteq Project
        /\ phase' \in {"run", "done"}
    <3> PICK x, rest : x = Head(l) /\ rest = ToSet(Tail(l))
      OBVIOUS
    <3>1. x \in Project /\ rest \subseteq Project
      BY <2>4
    <3>2. completed \in Seq(Project) /\ failed \subseteq Project /\ pending \subseteq Project
      BY <1>0 DEF TypeOK
    <3>3. Append(completed, x) \in Seq(Project)
      BY <3>1, <3>2
    <3> QED
      BY <2>1, <2>5, <3>1, <3>2, <3>3
  <2> QED
    BY <1>0, <2>1, <2>6 DEF TypeOK, repo, marks, args, sort
<1>10. CASE RunDone
  BY <1>0, <1>10 DEF TypeOK, RunDone, repo, marks, args, sort, tally
<1> QED
  BY <1>1, <1>2, <1>3, <1>4, <1>5, <1>6, <1>7, <1>8, <1>9, <1>10 DEF Next

(* Taking the first ready workspace keeps the sort going.                  *)
LEMMA TakeKeeps ==
    ASSUME TypeOK, phase = "sort" => Sorting, Take
    PROVE  Sorting'
<1>1. /\ phase = "sort" /\ ready # << >> /\ ready \in Seq(Project) /\ order \in Seq(Project)
      /\ declares' = declares /\ declares \in Graphs /\ indegree \in [Project -> Nat]
  BY DEF Take, TypeOK, repo, Graphs
<1>2. PICK p, less, fresh :
        /\ p = Head(ready) /\ less = {q \in Project : p \in Neighbours(declares, q)}
        /\ order' = Append(order, p)
        /\ indegree' = [q \in Project |-> IF q \in less THEN indegree[q] - 1 ELSE indegree[q]]
        /\ fresh = {q \in less : indegree'[q] = 0}
        /\ ready' = Tail(ready) \o ByName(fresh)
  BY DEF Take
<1>3. /\ IsInjective(order) /\ IsInjective(ready)
      /\ ToSet(ready) = {q \in Project \ ToSet(order) : Waiting(q) = {}}
      /\ \A q \in Project : indegree[q] = Cardinality(Waiting(q))
      /\ PrecededUpTo(Len(order))
  BY <1>1 DEF Sorting
<1>4. p \in ToSet(ready) /\ ToSet(Tail(ready)) = ToSet(ready) \ {p} /\ IsInjective(Tail(ready))
  BY <1>1, <1>2, <1>3, BeheadedOnce
<1>5. p \in Project /\ p \notin ToSet(order) /\ Waiting(p) = {}
  BY <1>3, <1>4
<1>6. ToSet(order)' = ToSet(order) \cup {p} /\ IsInjective(order)'
  <2>1. ToSet(Append(order, p)) = ToSet(order) \cup {p} /\ IsInjective(Append(order, p))
    BY <1>1, <1>3, <1>5, AppendedOnce
  <2> QED
    BY <1>2, <2>1
<1>7. \A q \in Project : /\ Waiting(q)' = Waiting(q) \ {p}
                         /\ Waiting(q) \in SUBSET Project
                         /\ q \in less <=> p \in Waiting(q)
  BY <1>1, <1>2, <1>5, <1>6 DEF Waiting, Neighbours, Graphs
<1>8. \A q \in Project : indegree'[q] = Cardinality(Waiting(q)')
  <2> SUFFICES ASSUME NEW q \in Project PROVE indegree'[q] = Cardinality(Waiting(q)')
    OBVIOUS
  <2>1. PICK W : W = Waiting(q)
    OBVIOUS
  <2>2. IsFiniteSet(W) /\ Cardinality(W) \in 0..N /\ N \in Nat
    BY <1>7, <2>1, ProjectsAreFinite
  <2>3. Cardinality(W \ {p}) = IF p \in W THEN Cardinality(W) - 1 ELSE Cardinality(W)
    BY <2>2, FS_RemoveElement
  <2>4. indegree[q] = Cardinality(W) /\ Waiting(q)' = W \ {p} /\ (q \in less <=> p \in W)
    BY <1>3, <1>7, <2>1
  <2>5. indegree'[q] = IF q \in less THEN indegree[q] - 1 ELSE indegree[q]
    BY <1>2
  <2> QED
    BY <2>3, <2>4, <2>5
<1>9. fresh = {q \in Project : p \in Waiting(q) /\ Waiting(q)' = {}}
  <2>1. \A q \in Project : indegree'[q] = 0 <=> Waiting(q)' = {}
    <3> SUFFICES ASSUME NEW q \in Project PROVE indegree'[q] = 0 <=> Waiting(q)' = {}
      OBVIOUS
    <3>1. PICK W : W = Waiting(q) \ {p}
      OBVIOUS
    <3>2. IsFiniteSet(W) /\ Waiting(q)' = W
      BY <1>7, <3>1, ProjectsAreFinite
    <3> QED
      BY <1>8, <3>2, FS_EmptySet
  <2> QED
    BY <1>2, <1>7, <2>1
<1>10. fresh \in SUBSET Project /\ fresh \cap ToSet(ready) = {} /\ fresh \cap ToSet(order) = {} /\ p \notin fresh
  <2>1. \A q \in ToSet(order) : p \notin Waiting(q)
    <3> SUFFICES ASSUME NEW i \in DOMAIN order, p \in Neighbours(declares, order[i])
                 PROVE  p \in ToSet(order)
      BY <1>5 DEF Waiting, ToSet
    <3>1. i \in 1..Len(order)
      BY <1>1
    <3>2. PICK j \in 1..(i - 1) : order[j] = p
      BY <1>3, <3>1 DEF PrecededUpTo
    <3>3. j \in DOMAIN order
      BY <1>1, <3>1
    <3> QED
      BY <3>2, <3>3 DEF ToSet
  <2>2. p \notin Waiting(p)
    BY <1>5
  <2>3. \A q \in ToSet(ready) : Waiting(q) = {}
    BY <1>3
  <2> QED
    BY <1>9, <2>1, <2>2, <2>3
<1>11. /\ ready' = Tail(ready) \o ByName(fresh) /\ Tail(ready) \in Seq(Project)
       /\ ByName(fresh) \in Seq(Project) /\ IsInjective(ByName(fresh)) /\ ToSet(ByName(fresh)) = fresh
  <2>1. ready' = Tail(ready) \o ByName(fresh)
    BY <1>2
  <2>2. Tail(ready) \in Seq(Project)
    BY <1>1
  <2> QED
    BY <1>10, <2>1, <2>2, ByNameOnce
<1>12. ToSet(ready)' = (ToSet(ready) \ {p}) \cup fresh /\ IsInjective(ready)'
  <2> DEFINE s == Tail(ready)
             t == ByName(fresh)
  <2>1. s \in Seq(Project) /\ t \in Seq(Project) /\ IsInjective(s) /\ IsInjective(t)
        /\ ToSet(s) = ToSet(ready) \ {p} /\ ToSet(t) = fresh /\ ready' = s \o t
    BY <1>4, <1>11
  <2> HIDE DEF s, t
  <2>2. ToSet(s \o t) = (ToSet(ready) \ {p}) \cup fresh /\ IsInjective(s \o t)
    BY <2>1, <1>10, JoinedOnce
  <2> QED
    BY <2>1, <2>2
<1>13. ToSet(ready)' = {q \in Project \ ToSet(order)' : Waiting(q)' = {}}
  <2>1. ASSUME NEW q \in (ToSet(ready) \ {p}) \cup fresh
        PROVE  q \in Project \ ToSet(order)' /\ Waiting(q)' = {}
    BY <1>3, <1>6, <1>7, <1>9, <1>10, <2>1
  <2>2. ASSUME NEW q \in Project \ ToSet(order)', Waiting(q)' = {}
        PROVE  q \in (ToSet(ready) \ {p}) \cup fresh
    <3>1. q \in Project /\ q \notin ToSet(order) /\ q # p
      BY <1>6
    <3>2. CASE p \in Waiting(q)
      BY <1>9, <2>2, <3>1, <3>2
    <3>3. CASE p \notin Waiting(q)
      <4>1. Waiting(q) = {}
        BY <1>7, <2>2, <3>1, <3>3
      <4> QED
        BY <1>3, <3>1, <4>1
    <3> QED
      BY <3>2, <3>3
  <2> QED
    BY <1>12, <2>1, <2>2
<1>14. PrecededUpTo(Len(order))'
  <2>1. /\ Len(order) \in Nat /\ Len(order') = Len(order) + 1 /\ order'[Len(order) + 1] = p
        /\ \A i \in 1..Len(order) : order'[i] = order[i]
    BY <1>1, <1>2, <1>5
  <2> SUFFICES ASSUME NEW i \in 1..(Len(order) + 1), NEW r \in Neighbours(declares, order'[i])
               PROVE  \E j \in 1..(i - 1) : order'[j] = r
    BY <1>1, <2>1 DEF PrecededUpTo, Neighbours
  <2>2. CASE i \in 1..Len(order)
    <3>1. PICK j \in 1..(i - 1) : order[j] = r
      BY <1>3, <2>1, <2>2 DEF PrecededUpTo
    <3>2. j \in 1..Len(order)
      BY <2>1, <2>2
    <3> QED
      BY <2>1, <3>1, <3>2
  <2>3. CASE i = Len(order) + 1
    <3>1. r \in ToSet(order)
      BY <1>5, <2>1, <2>3 DEF Waiting
    <3>2. PICK j \in 1..Len(order) : order[j] = r
      BY <1>1, <3>1 DEF ToSet
    <3> QED
      BY <2>1, <2>3, <3>2
  <2> QED
    BY <2>1, <2>2, <2>3
<1> QED
  BY <1>6, <1>8, <1>12, <1>13, <1>14 DEF Sorting

(* What no ready workspace is left for waits for something else that does. *)
LEMMA TakeRestSorts ==
    ASSUME TypeOK, phase = "sort" => Sorting, TakeRest
    PROVE  SortedAll'
<1>1. /\ phase = "sort" /\ ready = << >> /\ order \in Seq(Project)
      /\ declares' = declares /\ declares \in Graphs
  BY DEF TakeRest, TypeOK, repo, Graphs
<1>2. PICK rest : rest = Project \ ToSet(order)
  OBVIOUS
<1>3. PICK o, t : o = order /\ t = ByPath(rest)
  OBVIOUS
<1>4. order' = o \o t
  BY <1>2, <1>3 DEF TakeRest
<1>5. t \in Seq(Project) /\ IsInjective(t) /\ ToSet(t) = rest
  <2>1. rest \in SUBSET Project
    BY <1>2
  <2> QED
    BY <1>3, <2>1, ByPathOnce
<1>6. /\ o \in Seq(Project) /\ IsInjective(o) /\ ToSet(o) = ToSet(order)
      /\ {q \in rest : Waiting(q) = {}} = {}
      /\ PrecededUpTo(Len(order))
  <2>1. ToSet(ready) = {}
    BY <1>1 DEF ToSet
  <2> QED
    BY <1>1, <1>2, <1>3, <2>1 DEF Sorting
<1>7. ToSet(o) \subseteq Project
  BY <1>6 DEF ToSet
<1>8. IsInjective(order)' /\ ToSet(order)' = Project
  <2>1. ToSet(o) \cap ToSet(t) = {} /\ ToSet(o) \cup ToSet(t) = Project
    BY <1>2, <1>5, <1>6, <1>7
  <2>2. o \in Seq(Project) /\ t \in Seq(Project) /\ IsInjective(o) /\ IsInjective(t)
    BY <1>5, <1>6
  <2>3. ToSet(o \o t) = ToSet(o) \cup ToSet(t)
    BY <2>2, JoinedOnce
  <2>4. IsInjective(o \o t)
    BY <2>1, <2>2, JoinedOnce
  <2> QED
    BY <1>4, <2>1, <2>3, <2>4
<1> PICK n, m : n = Len(o) /\ m = Len(t)
  OBVIOUS
<1>9. /\ n \in Nat /\ m \in Nat /\ DOMAIN o = 1..n /\ DOMAIN t = 1..m /\ Len(order') = n + m
      /\ \A i \in 1..n : order'[i] = o[i]
      /\ \A i \in 1..m : order'[n + i] = t[i]
  BY <1>4, <1>5, <1>6
<1>10. n = Len(order)
  BY <1>3
<1>11. PrecededUpTo(n)'
  <2> SUFFICES ASSUME NEW i \in 1..n, NEW r \in Neighbours(declares, order'[i])
               PROVE  \E j \in 1..(i - 1) : order'[j] = r
    BY <1>1 DEF PrecededUpTo, Neighbours
  <2>1. order'[i] = order[i]
    BY <1>3, <1>9
  <2>2. PICK j \in 1..(i - 1) : order[j] = r
    BY <1>6, <1>10, <2>1 DEF PrecededUpTo
  <2>3. j \in 1..n
    BY <1>9
  <2> QED
    BY <1>3, <1>9, <2>2, <2>3
<1>12. HeldBack(n)'
  <2>0. HeldBack(n)' <=> \A i \in (n + 1)..Len(order') :
                           \E r \in Neighbours(declares', order'[i]) :
                              \E j \in (n + 1)..Len(order') : order'[j] = r
    BY Zenon DEF HeldBack, Neighbours
  <2> SUFFICES ASSUME NEW i \in (n + 1)..Len(order')
               PROVE  \E r \in Neighbours(declares', order'[i]) :
                         \E j \in (n + 1)..Len(order') : order'[j] = r
    BY <2>0, Zenon
  <2>1. i - n \in 1..m /\ n + (i - n) = i
    BY <1>9
  <2>2. order'[i] = t[i - n] /\ t[i - n] \in rest
    BY <1>5, <1>9, <2>1 DEF ToSet
  <2>3. PICK r : r \in Waiting(order'[i])
    BY <1>6, <2>2
  <2>4. order'[i] \in Project /\ r \in Neighbours(declares, order'[i]) /\ r \in rest
    BY <1>1, <1>2, <2>2, <2>3 DEF Waiting, Neighbours, Graphs
  <2>5. PICK j \in 1..m : t[j] = r
    BY <1>5, <1>9, <2>4 DEF ToSet
  <2>6. n + j \in (n + 1)..Len(order') /\ order'[n + j] = r
    <3>1. PICK l : l = Len(order')
      OBVIOUS
    <3>2. l = n + m /\ n \in Nat /\ m \in Nat
      BY <1>9, <3>1, Zenon
    <3>3. n + j \in (n + 1)..l
      BY <3>2
    <3>4. order'[n + j] = t[j]
      BY <1>9, Zenon
    <3> QED
      BY <2>5, <3>1, <3>3, <3>4, Zenon
  <2>7. r \in Neighbours(declares', order'[i])
    BY <1>1, <2>4, Zenon DEF Neighbours
  <2> QED
    BY <2>6, <2>7, Zenon
<1>13. n \in 0..Len(order')
  BY <1>9
<1> QED
  BY <1>8, <1>11, <1>12, <1>13 DEF SortedAll

LEMMA DisjointSizes ==
    ASSUME NEW A \in SUBSET Project, NEW B \in SUBSET Project, NEW C \in SUBSET Project,
           A \cap B = {}, A \cap C = {}, B \cap C = {}
    PROVE  Cardinality(A) + Cardinality(B) + Cardinality(C) = Cardinality(A \cup B \cup C)
<1>1. /\ IsFiniteSet(A) /\ IsFiniteSet(B) /\ IsFiniteSet(C) /\ IsFiniteSet(A \cup B)
      /\ N \in Nat /\ Cardinality(A) \in 0..N /\ Cardinality(B) \in 0..N /\ Cardinality(C) \in 0..N
  BY ProjectsAreFinite
<1>2. Cardinality(A \cup B) = Cardinality(A) + Cardinality(B)
  <2>1. Cardinality(A \cup B) = Cardinality(A) + Cardinality(B) - Cardinality(A \cap B)
    BY <1>1, FS_Union
  <2>2. Cardinality(A \cap B) = 0
    BY FS_EmptySet
  <2> QED
    BY <1>1, <2>1, <2>2
<1>3. Cardinality(A \cup B \cup C) = Cardinality(A \cup B) + Cardinality(C)
  <2> DEFINE D == A \cup B
  <2>1. D \cap C = {} /\ IsFiniteSet(D) /\ Cardinality(D) \in Nat
    BY <1>1, FS_CardinalityType
  <2> HIDE DEF D
  <2>2. Cardinality(D \cup C) = Cardinality(D) + Cardinality(C) - Cardinality(D \cap C)
    BY <1>1, <2>1, FS_Union
  <2>3. Cardinality(D \cap C) = 0
    BY <2>1, FS_EmptySet
  <2>4. Cardinality(D \cup C) = Cardinality(D) + Cardinality(C)
    BY <1>1, <2>1, <2>2, <2>3
  <2> QED
    BY <2>4 DEF D
<1> QED
  BY <1>2, <1>3

LEMMA Accounts ==
    ASSUME NEW done \in Seq(Project), IsInjective(done),
           NEW bad \in SUBSET Project, NEW open \in SUBSET Project,
           ToSet(done) \cap bad = {}, ToSet(done) \cap open = {}, bad \cap open = {}
    PROVE  Len(done) + Cardinality(bad) + Cardinality(open)
              = Cardinality(ToSet(done) \cup bad \cup open)
<1>1. PICK D : D = ToSet(done)
  OBVIOUS
<1>2. D \in SUBSET Project
  BY <1>1 DEF ToSet
<1>3. Cardinality(D) = Len(done)
  BY <1>1, LengthIsCardinality
<1>4. Cardinality(D) + Cardinality(bad) + Cardinality(open) = Cardinality(D \cup bad \cup open)
  BY <1>1, <1>2, DisjointSizes
<1> QED
  BY <1>1, <1>3, <1>4

LEMMA RunInit == Init => RunInv /\ RunIsAccounted
BY DEF Init, RunInv, RunIsAccounted, Untouched

(* A task that is executed, or that fails.                                 *)
LEMMA RunTaskKeeps ==
    ASSUME IInv, RunTask
    PROVE  RunInv' /\ RunIsAccounted'
<1>1. /\ phase = "run" /\ Left # << >>
      /\ UNCHANGED <<declares, links, selected, keepGoing, indegree, ready, order>>
  BY DEF RunTask, repo, marks, args, sort
<1>2. /\ order \in Seq(Project) /\ selected \subseteq Project /\ completed \in Seq(Project)
      /\ failed \subseteq Project /\ keepGoing \in BOOLEAN
      /\ SortedAll
      /\ IsInjective(completed) /\ ToSet(completed) \cup failed \subseteq selected
      /\ ToSet(completed) \cap failed = {} /\ pending = {}
      /\ keepGoing \/ failed = {}
  BY <1>1 DEF IInv, TypeOK, RunInv, Executing
<1>3. SortedAll'
  <2>1. SortedAll' <=> SortedAll
    BY <1>1 DEF SortedAll, PrecededUpTo, HeldBack, Neighbours
  <2> QED
    BY <1>2, <2>1
<1>4. PICK l, x, rest, left :
        /\ l = Left /\ x = Head(l) /\ rest = ToSet(Tail(l))
        /\ left = selected \ (ToSet(completed) \cup failed)
  OBVIOUS
<1>5. l \in Seq(Project) /\ IsInjective(l) /\ ToSet(l) = left /\ l # << >>
  BY <1>1, <1>2, <1>4, LeftIsTheRest DEF SortedAll
<1>6. x \in left /\ x \in Project /\ rest = left \ {x}
  BY <1>4, <1>5, BeheadedOnce
<1>7. \/ /\ completed' = Append(completed, x)
         /\ UNCHANGED <<phase, failed, pending>>
      \/ /\ failed' = failed \cup {x}
         /\ IF keepGoing THEN UNCHANGED <<phase, pending>>
                         ELSE phase' = "done" /\ pending' = rest
         /\ UNCHANGED completed
  BY <1>4 DEF RunTask
<1>8. CASE completed' = Append(completed, x) /\ UNCHANGED <<phase, failed, pending>>
  <2>1. ToSet(Append(completed, x)) = ToSet(completed) \cup {x} /\ IsInjective(Append(completed, x))
    BY <1>2, <1>4, <1>6, AppendedOnce
  <2>2. ToSet(completed') = ToSet(completed) \cup {x} /\ IsInjective(completed')
    BY <1>8, <2>1
  <2>3. Executing'
    BY <1>1, <1>2, <1>4, <1>6, <1>8, <2>2 DEF Executing
  <2> QED
    BY <1>1, <1>3, <1>8, <2>3 DEF RunInv, RunIsAccounted
<1>9. CASE failed' = failed \cup {x} /\ UNCHANGED completed /\ keepGoing /\ UNCHANGED <<phase, pending>>
  <2>1. Executing'
    BY <1>1, <1>2, <1>4, <1>6, <1>9 DEF Executing
  <2> QED
    BY <1>1, <1>3, <1>9, <2>1 DEF RunInv, RunIsAccounted
<1>10. CASE /\ failed' = failed \cup {x} /\ UNCHANGED completed
            /\ ~keepGoing /\ phase' = "done" /\ pending' = rest
  <2>1. failed' = {x} /\ Cardinality({x}) = 1
    BY <1>2, <1>10, FS_Singleton
  <2>2. ToSet(completed) \cup failed' \cup pending' = selected
    BY <1>2, <1>4, <1>6, <1>10
  <2>3. /\ failed' \in SUBSET Project /\ pending' \in SUBSET Project
        /\ ToSet(completed) \cap failed' = {} /\ ToSet(completed) \cap pending' = {}
        /\ failed' \cap pending' = {}
    BY <1>2, <1>4, <1>6, <1>10, <2>1
  <2>4. Len(completed) + Cardinality(failed') + Cardinality(pending') = Cardinality(selected)
    <3>1. PICK c, f, o : c = completed /\ f = failed' /\ o = pending'
      OBVIOUS
    <3>2. Len(c) + Cardinality(f) + Cardinality(o) = Cardinality(ToSet(c) \cup f \cup o)
      BY <1>2, <2>3, <3>1, Accounts
    <3>3. ToSet(c) \cup f \cup o = selected
      BY <2>2, <3>1
    <3>4. Len(c) + Cardinality(f) + Cardinality(o) = Cardinality(selected)
      BY <3>2, <3>3
    <3> QED
      BY <3>1, <3>4, Zenon
  <2>5. /\ Cardinality(failed') <= 1 /\ failed' # {} /\ ~keepGoing' /\ completed' = completed
        /\ selected' = selected
    <3>1. Cardinality(failed') = 1
      BY <2>1, Zenon
    <3> QED
      BY <1>1, <1>10, <2>1, <3>1
  <2>6. /\ ToSet(completed') \cup failed' \cup pending' = selected'
        /\ Len(completed') + Cardinality(failed') + Cardinality(pending') = Cardinality(selected')
    BY <2>2, <2>4, <2>5, Zenon
  <2>7. RunIsAccounted'
    BY <2>5, <2>6, Zenon DEF RunIsAccounted
  <2> QED
    BY <1>10, <2>7 DEF RunInv
<1> QED
  BY <1>7, <1>8, <1>9, <1>10

LEMMA RunDoneKeeps ==
    ASSUME IInv, RunDone
    PROVE  RunInv' /\ RunIsAccounted'
<1>1. /\ phase = "run" /\ Left = << >> /\ phase' = "done"
      /\ UNCHANGED <<selected, keepGoing, completed, failed, pending>>
  BY DEF RunDone, args, tally
<1>2. /\ order \in Seq(Project) /\ selected \subseteq Project /\ completed \in Seq(Project)
      /\ failed \subseteq Project /\ keepGoing \in BOOLEAN
      /\ IsInjective(order) /\ ToSet(order) = Project
      /\ IsInjective(completed) /\ ToSet(completed) \cup failed \subseteq selected
      /\ ToSet(completed) \cap failed = {} /\ pending = {}
      /\ keepGoing \/ failed = {}
  BY <1>1 DEF IInv, TypeOK, RunInv, SortedAll, Executing
<1>3. selected = ToSet(completed) \cup failed
  <2>1. ToSet(Left) = selected \ (ToSet(completed) \cup failed)
    BY <1>2, LeftIsTheRest
  <2>2. ToSet(Left) = {}
    BY <1>1 DEF ToSet
  <2> QED
    BY <1>2, <2>1, <2>2
<1>4. Len(completed) + Cardinality(failed) + Cardinality(pending) = Cardinality(selected)
  <2>1. PICK c, f, o : c = completed /\ f = failed /\ o = pending
    OBVIOUS
  <2>2. Len(c) + Cardinality(f) + Cardinality(o) = Cardinality(ToSet(c) \cup f \cup o)
    BY <1>2, <2>1, Accounts
  <2>3. ToSet(c) \cup f \cup o = selected
    BY <1>2, <1>3, <2>1
  <2>4. Len(c) + Cardinality(f) + Cardinality(o) = Cardinality(selected)
    BY <2>2, <2>3
  <2> QED
    BY <2>1, <2>4, Zenon
<1>5. Cardinality(failed) <= 1 \/ keepGoing
  <2>1. failed = {} => Cardinality(failed) = 0
    BY FS_EmptySet, Zenon
  <2> QED
    BY <1>2, <2>1
<1>6. RunIsAccounted'
  BY <1>1, <1>2, <1>3, <1>4, <1>5 DEF RunIsAccounted
<1> QED
  BY <1>1, <1>6 DEF RunInv

LEMMA SelectKeeps ==
    ASSUME IInv, NEW all \in BOOLEAN, Select(all)
    PROVE  RunInv' /\ RunIsAccounted'
<1>1. /\ Untouched /\ UNCHANGED <<declares, completed, failed, pending>>
      /\ declares \in Graphs
  BY DEF Select, IInv, RunInv, TypeOK, repo, tally, Graphs
<1>2. \/ phase' = "sort" /\ selected' # {}
      \/ phase' \in {"rejected", "done"} /\ selected' = {}
  BY DEF Select
<1>3. CASE phase' = "sort"
  <2>1. /\ indegree' = [p \in Project |-> InDegree(p)]
        /\ ready' = ByName({p \in Project : InDegree(p) = 0})
        /\ order' = << >>
    BY <1>3 DEF Select
  <2>2. \A q : Waiting(q)' = Neighbours(declares, q)
    BY <1>1, <2>1 DEF Waiting, Neighbours, ToSet
  <2>3. \A p \in Project : InDegree(p) = 0 <=> Neighbours(declares, p) = {}
    <3> SUFFICES ASSUME NEW p \in Project PROVE InDegree(p) = 0 <=> Neighbours(declares, p) = {}
      OBVIOUS
    <3>1. PICK S : S = Neighbours(declares, p)
      OBVIOUS
    <3>2. IsFiniteSet(S)
      BY <1>1, <3>1, ProjectsAreFinite DEF Neighbours, Graphs
    <3> QED
      BY <3>1, <3>2, FS_EmptySet DEF InDegree
  <2>4. PICK first : first = {p \in Project : InDegree(p) = 0}
    OBVIOUS
  <2>5. IsInjective(ByName(first)) /\ ToSet(ByName(first)) = first
    BY <2>4, ByNameOnce
  <2>6. IsInjective(ready)' /\ ToSet(ready)' = first
    BY <2>1, <2>4, <2>5
  <2>7. IsInjective(order)' /\ ToSet(order)' = {} /\ Len(order') = 0
    BY <2>1 DEF IsInjective, ToSet
  <2>8. ToSet(ready)' = {q \in Project \ ToSet(order)' : Waiting(q)' = {}}
    BY <2>2, <2>3, <2>4, <2>6, <2>7
  <2>9. \A q \in Project : indegree'[q] = Cardinality(Waiting(q)')
    BY <2>1, <2>2 DEF InDegree
  <2>10. PrecededUpTo(Len(order))'
    BY <2>7 DEF PrecededUpTo
  <2>11. Sorting'
    BY <2>6, <2>7, <2>8, <2>9, <2>10 DEF Sorting
  <2> QED
    BY <1>1, <1>3, <2>11 DEF RunInv, RunIsAccounted, Untouched
<1>4. CASE phase' \in {"rejected", "done"} /\ selected' = {}
  <2>1. completed' = << >> /\ failed' = {} /\ pending' = {} /\ ToSet(<< >>) = {} /\ Len(<< >>) = 0
    BY <1>1 DEF Untouched, ToSet
  <2>2. Cardinality({}) = 0
    BY FS_EmptySet
  <2> QED
    BY <1>4, <2>1, <2>2 DEF RunInv, RunIsAccounted
<1> QED
  BY <1>2, <1>3, <1>4

LEMMA RunStep == IInv /\ [Next]_vars => RunInv' /\ RunIsAccounted'
<1> SUFFICES ASSUME IInv, [Next]_vars PROVE RunInv' /\ RunIsAccounted'
  OBVIOUS
<1>1. CASE UNCHANGED vars
  <2>1. UNCHANGED <<declares, links, phase, selected, keepGoing, indegree, ready, order,
                    completed, failed, pending>>
    BY <1>1 DEF vars, repo, marks, args, sort, tally
  <2>2. Sorting' = Sorting /\ SortedAll' = SortedAll /\ Executing' = Executing /\ Untouched' = Untouched
    BY <2>1 DEF Sorting, SortedAll, Executing, Untouched, Waiting, PrecededUpTo, HeldBack, Neighbours
  <2> QED
    BY <2>1, <2>2 DEF IInv, RunInv, RunIsAccounted
<1>2. CASE TakeAll \/ Mark \/ Spread \/ SpreadDone
  <2>1. /\ phase \in {"start", "spread"} /\ phase' \in {"all", "spread", "affected"}
        /\ UNCHANGED <<completed, failed, pending>>
    BY <1>2 DEF TakeAll, Mark, Spread, SpreadDone, tally
  <2> QED
    BY <2>1 DEF IInv, RunInv, RunIsAccounted, Untouched
<1>3. CASE Take
  <2>1. Sorting'
    BY <1>3, TakeKeeps DEF IInv, RunInv
  <2>2. phase = "sort" /\ phase' = "sort" /\ UNCHANGED <<completed, failed, pending>>
    BY <1>3 DEF Take, tally
  <2> QED
    BY <2>1, <2>2 DEF IInv, RunInv, RunIsAccounted, Untouched
<1>4. CASE TakeRest
  <2>1. SortedAll'
    BY <1>4, TakeRestSorts DEF IInv, RunInv
  <2>2. phase = "sort" /\ phase' = "run" /\ UNCHANGED <<completed, failed, pending>>
    BY <1>4 DEF TakeRest, tally
  <2>3. Executing'
    BY <2>2 DEF IInv, RunInv, Untouched, Executing, IsInjective, ToSet
  <2> QED
    BY <2>1, <2>2, <2>3 DEF RunInv, RunIsAccounted
<1> QED
  BY <1>1, <1>2, <1>3, <1>4, RunTaskKeeps, RunDoneKeeps, SelectKeeps DEF Next

LEMMA InvInit == Init => IInv
BY TypeInit, MarkInvInit, RunInit DEF IInv

LEMMA InvStep == IInv /\ [Next]_vars => IInv'
BY TypeStep, MarkInvStep, RunStep DEF IInv

LEMMA SpecInv == Spec => []IInv
BY InvInit, InvStep, PTL DEF Spec

------------------------------------------------------------------------------
(* Every state of the command is well formed.                              *)
THEOREM TypesHold == Spec => []TypeOK
<1>1. IInv => TypeOK
  BY DEF IInv
<1> QED
  BY <1>1, SpecInv, PTL

(* What `nanoom affected' selects is exact: no workspace that a change can *)
(* reach over internal links is missed, and none is selected without one,  *)
(* in whatever order the queue is worked off and whatever the cycles.      *)
THEOREM AffectedExactly == Spec => []AffectedIsLeast
<1>1. IInv => AffectedIsLeast
  BY DEF IInv, MarkInv, Marking, ClosedUp, AffectedIsLeast
<1> QED
  BY <1>1, SpecInv, PTL

(* The propagation of changes (workspace.rs:374) and the closure that is   *)
(* checked out (dependency_closure_paths) agree on every graph: a          *)
(* workspace is affected exactly when what is checked out for it holds a   *)
(* workspace that owns a change.                                           *)
THEOREM CheckoutAlwaysHoldsTheChange == Spec => []CheckoutHoldsTheChange
<1>1. IInv => CheckoutHoldsTheChange
  <2> SUFFICES ASSUME IInv, phase = "affected", NEW p \in Project
               PROVE  p \in affected <=> Checkout(p) \cap direct # {}
    BY DEF CheckoutHoldsTheChange
  <2>1. /\ links \in Graphs /\ direct \subseteq affected /\ affected \subseteq Project
        /\ \A q \in affected : Dependents(q) \subseteq affected
        /\ \A S \in SUBSET Project : direct \subseteq S /\ ClosedUp(S) => affected \subseteq S
    BY DEF IInv, TypeOK, MarkInv, Marking, Graphs
  <2>2. ASSUME p \in affected PROVE Checkout(p) \cap direct # {}
    <3> DEFINE S == {q \in Project : Closure(links, q) \cap direct # {}}
    <3>1. direct \subseteq S
      BY <2>1, ClosureIsLeast
    <3>2. ClosedUp(S)
      <4> SUFFICES ASSUME NEW q \in S, NEW r \in Dependents(q) PROVE r \in S
        BY DEF ClosedUp
      <4>1. q \in Project /\ r \in Project /\ q \in links[r] /\ Closure(links, q) \cap direct # {}
        BY DEF Dependents, Neighbours
      <4>2. r \in Closure(links, r) /\ \A x \in Closure(links, r) : links[x] \subseteq Closure(links, r)
        BY <2>1, <4>1, ClosureIsLeast
      <4>3. q \in Closure(links, r)
        BY <4>1, <4>2
      <4>4. Closure(links, q) \subseteq Closure(links, r)
        BY <2>1, <4>1, <4>3, ClosureOfReached
      <4> QED
        BY <4>1, <4>4
    <3>3. S \in SUBSET Project
      OBVIOUS
    <3> HIDE DEF S
    <3>4. p \in S
      BY <2>1, <2>2, <3>1, <3>2, <3>3
    <3> QED
      BY <3>4 DEF S, Checkout
  <2>3. ASSUME p \notin affected PROVE Checkout(p) \cap direct = {}
    <3> DEFINE S == Project \ affected
    <3>1. \A q \in S \cap Project : links[q] \subseteq S
      <4> SUFFICES ASSUME NEW q \in S, NEW r \in links[q], r \in affected PROVE FALSE
        BY <2>1 DEF Graphs
      <4>1. q \in Project /\ q \notin affected /\ q # r
        OBVIOUS
      <4>2. q \in Dependents(r)
        BY <4>1 DEF Dependents, Neighbours
      <4> QED
        BY <2>1, <4>1, <4>2
    <3>2. p \in S
      BY <2>3
    <3> HIDE DEF S
    <3>3. Closure(links, p) \subseteq S
      BY <2>1, <3>1, <3>2, ClosureIsLeast
    <3> QED
      BY <2>1, <3>3 DEF S, Checkout
  <2> QED
    BY <2>2, <2>3
<1> QED
  BY <1>1, SpecInv, PTL

(* Up to where dependencies come first, all that a workspace needs is      *)
(* before it.                                                              *)
LEMMA ClosureComesEarlier ==
    ASSUME NEW m \in 0..Len(order), order \in Seq(Project), declares \in Graphs, PrecededUpTo(m),
           NEW k \in 1..m, NEW y \in Closure(declares, order[k])
    PROVE  \E j \in 1..k : order[j] = y
<1> DEFINE S == {order[j] : j \in 1..k}
<1>1. Len(order) \in Nat /\ DOMAIN order = 1..Len(order)
  OBVIOUS
<1>2. order[k] \in Project /\ order[k] \in S
  BY <1>1
<1>3. \A q \in S \cap Project : declares[q] \subseteq S
  <2> SUFFICES ASSUME NEW j \in 1..k, NEW r \in declares[order[j]] PROVE r \in S
    OBVIOUS
  <2>1. CASE r = order[j]
    BY <2>1
  <2>2. CASE r # order[j]
    <3>1. j \in 1..m /\ r \in Neighbours(declares, order[j])
      BY <1>1, <2>2 DEF Neighbours
    <3>2. PICK i \in 1..(j - 1) : order[i] = r
      BY <3>1 DEF PrecededUpTo
    <3>3. i \in 1..k
      BY <1>1
    <3> QED
      BY <3>2, <3>3
  <2> QED
    BY <2>1, <2>2
<1> HIDE DEF S
<1>4. Closure(declares, order[k]) \subseteq S
  BY <1>2, <1>3, ClosureIsLeast
<1>5. y \in S
  BY <1>4
<1> QED
  BY <1>5 DEF S

(* A workspace that reaches no cycle is not among those that cycles hold   *)
(* back: of the ones it reaches and that are, take one that reaches least. *)
LEMMA AcyclicIsNotHeldBack ==
    ASSUME NEW m \in 0..Len(order), order \in Seq(Project), declares \in Graphs, HeldBack(m),
           NEW k \in 1..Len(order), Acyclic(declares, order[k])
    PROVE  k \in 1..m
<1> SUFFICES ASSUME k \notin 1..m PROVE FALSE
  OBVIOUS
<1> DEFINE reach(q) == Closure(declares, q)
           held == {order[i] : i \in (m + 1)..Len(order)}
<1>1. Len(order) \in Nat /\ DOMAIN order = 1..Len(order) /\ k \in (m + 1)..Len(order)
  OBVIOUS
<1>2. PICK x : x = order[k]
  OBVIOUS
<1>3. x \in Project /\ x \in held
  BY <1>1, <1>2
<1>4. held \subseteq Project /\ \A q \in held : Neighbours(declares, q) \cap held # {}
  <2>1. \A i \in (m + 1)..Len(order) : order[i] \in Project
    BY <1>1
  <2> SUFFICES ASSUME NEW i \in (m + 1)..Len(order) PROVE Neighbours(declares, order[i]) \cap held # {}
    BY <2>1
  <2>2. PICK r \in Neighbours(declares, order[i]) : \E j \in (m + 1)..Len(order) : order[j] = r
    BY DEF HeldBack
  <2> QED
    BY <2>2
<1> DEFINE both == reach(x) \cap held
           sizes == {Cardinality(reach(q)) : q \in both}
<1>5. \A q \in Project : /\ reach(q) \in SUBSET Project /\ IsFiniteSet(reach(q))
                         /\ Cardinality(reach(q)) \in Nat /\ q \in reach(q)
  <2> TAKE q \in Project
  <2>1. reach(q) \in SUBSET Project /\ q \in reach(q)
    BY ClosureIsLeast
  <2> QED
    BY <2>1, ProjectsAreFinite, FS_CardinalityType
<1>6. sizes \subseteq Nat /\ sizes # {}
  BY <1>3, <1>4, <1>5
<1>7. PICK q \in both : \A r \in both : Cardinality(reach(q)) <= Cardinality(reach(r))
  <2> HIDE DEF sizes
  <2>1. PICK n \in sizes : \A l \in sizes : n <= l
    BY <1>6, LeastNumber
  <2> QED
    BY <2>1 DEF sizes
<1>8. q \in reach(x) /\ q \in Project /\ q \in held
  BY <1>4
<1>9. PICK r \in Neighbours(declares, q) : r \in held
  BY <1>4, <1>8
<1>10. r \in Project /\ r \in reach(q) /\ r \in reach(x)
  <2>1. q \in reach(q) /\ declares[q] \subseteq reach(q)
    BY <1>5, <1>8, ClosureIsLeast
  <2>2. declares[q] \subseteq reach(x)
    BY <1>3, <1>8, ClosureIsLeast
  <2> QED
    BY <1>4, <1>9, <2>1, <2>2 DEF Neighbours
<1>11. q \notin reach(r)
  BY <1>2, <1>8, <1>9 DEF Acyclic
<1>12. reach(r) \in SUBSET reach(q) /\ reach(r) # reach(q)
  BY <1>5, <1>8, <1>10, <1>11, ClosureOfReached
<1>13. Cardinality(reach(r)) <= Cardinality(reach(q)) /\ Cardinality(reach(r)) # Cardinality(reach(q))
  BY <1>5, <1>8, <1>12, FS_Subset
<1>14. Cardinality(reach(q)) <= Cardinality(reach(r))
  BY <1>7, <1>9, <1>10
<1> QED
  BY <1>5, <1>8, <1>10, <1>13, <1>14

(* run.rs:155: what is executed comes after all that it depends on, also   *)
(* through workspaces that are not selected, unless it depends on a cycle. *)
THEOREM DependenciesAlwaysFirst == Spec => []DependenciesFirst
<1>1. IInv => DependenciesFirst
  <2> SUFFICES ASSUME IInv, phase = "run", NEW i \in DOMAIN RunOrder, NEW j \in DOMAIN RunOrder,
                      RunOrder[j] \in Closure(declares, RunOrder[i]) \ {RunOrder[i]},
                      Acyclic(declares, RunOrder[i])
               PROVE  j < i
    BY DEF DependenciesFirst
  <2>1. order \in Seq(Project) /\ declares \in Graphs /\ SortedAll
    BY DEF IInv, TypeOK, RunInv, Graphs
  <2>2. PICK o, u, S : o = order /\ u = OnlyOf(o, S) /\ S = selected
    OBVIOUS
  <2>3. u \in Seq(Project) /\ u = RunOrder
    BY <2>1, <2>2, OnlyOfOnce DEF RunOrder
  <2>4. PICK at \in [1..Len(u) -> 1..Len(o)] :
           /\ \A k \in 1..Len(u) : u[k] = o[at[k]]
           /\ \A a, b \in 1..Len(u) : a < b => at[a] < at[b]
    BY <2>1, <2>2, OnlyOfKeepsOrder
  <2>5. i \in 1..Len(u) /\ j \in 1..Len(u) /\ Len(u) \in Nat /\ i \in Nat /\ j \in Nat
    BY <2>3
  <2>6. at[i] \in 1..Len(order) /\ at[j] \in 1..Len(order) /\ Len(order) \in Nat
    BY <2>1, <2>2, <2>4, <2>5
  <2>7. RunOrder[i] = order[at[i]] /\ RunOrder[j] = order[at[j]]
    BY <2>2, <2>3, <2>4, <2>5
  <2>8. PICK m \in 0..Len(order) : PrecededUpTo(m) /\ HeldBack(m)
    BY <2>1 DEF SortedAll
  <2>9. at[i] \in 1..m
    BY <2>1, <2>6, <2>7, <2>8, AcyclicIsNotHeldBack
  <2>10. PICK k \in 1..at[i] : order[k] = order[at[j]]
    BY <2>1, <2>7, <2>8, <2>9, ClosureComesEarlier
  <2>11. k = at[j]
    <3>1. k \in DOMAIN order /\ at[j] \in DOMAIN order
      BY <2>1, <2>6
    <3> QED
      BY <2>1, <2>10, <3>1 DEF SortedAll, IsInjective
  <2>12. at[j] # at[i]
    BY <2>7
  <2>13. at[j] < at[i]
    BY <2>6, <2>11, <2>12
  <2> QED
    BY <2>4, <2>5, <2>6, <2>12, <2>13
<1> QED
  BY <1>1, SpecInv, PTL

------------------------------------------------------------------------------
(* Reasons.                                                                *)
Paths == Seq(Project) \ {<< >>}
Searches == [queue : Seq(Paths), seen : SUBSET Project, found : Seq(Project)]

(* A way over declared names from p, on which only the last may be touched.*)
Way(s, p) ==
    /\ s \in Paths /\ s[1] = p
    /\ \A i \in 2..Len(s) : s[i] \in declares[s[i - 1]]
    /\ \A i \in 1..(Len(s) - 1) : s[i] \notin touched

(* The search so far: what it saw is untouched and has been looked behind, *)
(* or is the end of a queued path.  It has looked n times, or has nothing  *)
(* left to look at.                                                        *)
Searched(w, n, p) ==
    /\ w \in Searches
    /\ p \in w.seen
    /\ \A k \in DOMAIN w.queue : Way(w.queue[k], p)
    /\ w.found # << >> => Way(w.found, p) /\ Last(w.found) \in touched
    /\ w.found = << >> =>
          /\ w.seen \cap touched = {}
          /\ \A k \in DOMAIN w.queue : Last(w.queue[k]) \in w.seen
          /\ \A q \in w.seen : \/ declares[q] \subseteq w.seen
                               \/ \E k \in DOMAIN w.queue : Last(w.queue[k]) = q
          /\ w.queue = << >> \/ Cardinality(w.seen) = n + Len(w.queue)

LEMMA LookIsSearch ==
    ASSUME declares \in Graphs, NEW w \in Searches, w.queue # << >>, w.found = << >>
    PROVE  \E path \in Paths, next \in Seq(Project), more \in Seq(Paths), fresh \in SUBSET Project :
              /\ path = Head(w.queue) /\ Last(path) \in Project
              /\ fresh = declares[Last(path)] \ w.seen
              /\ IsInjective(next) /\ ToSet(next) = fresh
              /\ Len(more) = Len(next) /\ \A i \in 1..Len(next) : more[i] = Append(path, next[i])
              /\ Look(w) = [ queue |-> Tail(w.queue) \o more, seen |-> w.seen \cup fresh,
                             found |-> IF OnlyOf(next, touched) = << >> THEN << >>
                                       ELSE Append(path, OnlyOf(next, touched)[1]) ]
              /\ Look(w) \in Searches
<1>1. PICK path : path = Head(w.queue)
  OBVIOUS
<1>2. path \in Paths /\ w.queue \in Seq(Paths) /\ Tail(w.queue) \in Seq(Paths) /\ w.seen \in SUBSET Project
  <2>1. w.queue \in Seq(Paths) /\ w.seen \in SUBSET Project
    BY DEF Searches
  <2>2. PICK u, P : u = w.queue /\ P = Paths
    OBVIOUS
  <2>3. u \in Seq(P) /\ u # << >>
    BY <2>1, <2>2
  <2>4. Head(u) \in P /\ Tail(u) \in Seq(P)
    BY <2>3
  <2> QED
    BY <1>1, <2>1, <2>2, <2>4
<1>3. path \in Seq(Project) /\ path # << >>
  BY <1>2 DEF Paths
<1>4. Last(path) \in Project
  <2>1. Len(path) \in 1..Len(path)
    BY <1>3
  <2> QED
    BY <1>3, <2>1 DEF Last
<1>5. PICK fresh, next : fresh = declares[Last(path)] \ w.seen /\ next = ByName(fresh)
  OBVIOUS
<1>6. fresh \in SUBSET Project
  BY <1>4, <1>5 DEF Graphs
<1>7. next \in Seq(Project) /\ IsInjective(next) /\ ToSet(next) = fresh
  BY <1>5, <1>6, ByNameOnce
<1>8. PICK more : more = [i \in DOMAIN next |-> Append(path, next[i])]
  OBVIOUS
<1>9. Len(next) \in Nat /\ DOMAIN next = 1..Len(next) /\ \A i \in 1..Len(next) : next[i] \in Project
  BY <1>7
<1>10. \A x \in Project : Append(path, x) \in Paths
  BY <1>3 DEF Paths
<1>11. more \in [1..Len(next) -> Paths]
  BY <1>8, <1>9, <1>10
<1>12. more \in Seq(Paths) /\ Len(more) = Len(next) /\ \A i \in 1..Len(next) : more[i] = Append(path, next[i])
  BY <1>8, <1>9, <1>11
<1>13. PICK hits : hits = OnlyOf(next, touched)
  OBVIOUS
<1>14. hits \in Seq(Project)
  BY <1>7, <1>13, OnlyOfOnce
<1>15. PICK found : found = IF hits = << >> THEN << >> ELSE Append(path, hits[1])
  OBVIOUS
<1>16. found \in Seq(Project)
  BY <1>3, <1>14, <1>15
<1>17. Look(w) = [queue |-> Tail(w.queue) \o more, seen |-> w.seen \cup ToSet(next), found |-> found]
  BY <1>1, <1>5, <1>8, <1>13, <1>15 DEF Look
<1>18. Tail(w.queue) \o more \in Seq(Paths)
  BY <1>2, <1>12
<1>19. Look(w) = [queue |-> Tail(w.queue) \o more, seen |-> w.seen \cup fresh, found |-> found]
  BY <1>7, <1>17
<1>20. Look(w) \in Searches
  BY <1>2, <1>6, <1>16, <1>18, <1>19 DEF Searches
<1>21. Look(w) = [ queue |-> Tail(w.queue) \o more, seen |-> w.seen \cup fresh,
                   found |-> IF OnlyOf(next, touched) = << >> THEN << >>
                             ELSE Append(path, OnlyOf(next, touched)[1]) ]
  BY <1>13, <1>15, <1>19
<1>22. path \in Paths /\ next \in Seq(Project) /\ more \in Seq(Paths) /\ fresh \in SUBSET Project
  BY <1>2, <1>6, <1>7, <1>12
<1>23. /\ path = Head(w.queue) /\ Last(path) \in Project
       /\ fresh = declares[Last(path)] \ w.seen
       /\ IsInjective(next) /\ ToSet(next) = fresh
       /\ Len(more) = Len(next) /\ \A i \in 1..Len(next) : more[i] = Append(path, next[i])
  BY <1>1, <1>4, <1>5, <1>7, <1>12
<1> QED
  BY <1>20, <1>21, <1>22, <1>23, Zenon

LEMMA SearchSteps ==
    ASSUME declares \in Graphs, NEW p \in Project
    PROVE  \E walk : /\ Search(p) = walk[N].found
                     /\ walk[0] = [queue |-> <<<<p>>>>, seen |-> {p}, found |-> << >>]
                     /\ \A n \in 1..N : walk[n] = Look(walk[n - 1])
<1> DEFINE start == [queue |-> <<<<p>>>>, seen |-> {p}, found |-> << >>]
           step == [n \in 1..N |-> [w \in Searches |-> Look(w)]]
           Is(f) == f = [n \in 0..N |-> IF n = 0 THEN [queue |-> <<<<p>>>>, seen |-> {p}, found |-> << >>]
                                        ELSE Look(f[n - 1])]
<1>1. N \in Nat
  BY ProjectsAreFinite
<1>2. start \in Searches
  <2>1. <<p>> \in Paths
    BY DEF Paths
  <2>2. <<<<p>>>> \in Seq(Paths)
    BY <2>1
  <2> QED
    BY <2>2 DEF Searches
<1>3. \A w \in Searches : Look(w) \in Searches
  <2> TAKE w \in Searches
  <2>1. CASE w.queue # << >> /\ w.found = << >>
    BY <2>1, LookIsSearch
  <2>2. CASE w.queue = << >> \/ w.found # << >>
    BY <2>2 DEF Look
  <2> QED
    BY <2>1, <2>2
<1>4. step \in [1..N -> [Searches -> Searches]] /\ \A n \in 1..N, w \in Searches : step[n][w] = Look(w)
  BY <1>3
<1>5. PICK f \in [0..N -> Searches] : f[0] = start /\ \A n \in 1..N : f[n] = step[n][f[n - 1]]
  <2> HIDE DEF start, step
  <2> QED
    BY <1>1, <1>2, <1>4, Recursion
<1>6. \A n \in 1..N : f[n] = Look(f[n - 1])
  <2> TAKE n \in 1..N
  <2>1. n - 1 \in 0..N
    BY <1>1
  <2>2. f[n - 1] \in Searches
    BY <2>1
  <2> HIDE DEF step
  <2> QED
    BY <1>4, <1>5, <2>2
<1>7. Is(f)
  <2>1. ASSUME NEW n \in 0..N
        PROVE  f[n] = IF n = 0 THEN [queue |-> <<<<p>>>>, seen |-> {p}, found |-> << >>] ELSE Look(f[n - 1])
    <3>1. n = 0 \/ n \in 1..N
      BY <1>1
    <3> QED
      BY <1>1, <1>5, <1>6, <3>1
  <2> QED
    BY <2>1
<1>8. PICK walk : Is(walk) /\ Search(p) = walk[N].found
  <2>1. Is(CHOOSE g : Is(g))
    BY <1>7
  <2>2. Search(p) = (CHOOSE g : Is(g))[N].found
    BY DEF Search
  <2> QED
    BY <2>1, <2>2
<1>9. walk[0] = start
  BY <1>1, <1>8
<1>10. ASSUME NEW n \in 1..N PROVE walk[n] = Look(walk[n - 1])
  <2>1. n \in 0..N /\ n # 0
    BY <1>1
  <2>2. walk[n] = [i \in 0..N |-> IF i = 0 THEN [queue |-> <<<<p>>>>, seen |-> {p}, found |-> << >>]
                                   ELSE Look(walk[i - 1])][n]
    BY <1>8
  <2> QED
    BY <2>1, <2>2
<1> QED
  BY <1>8, <1>9, <1>10

(* A way that ends untouched can be continued.                             *)
LEMMA LongerWay ==
    ASSUME NEW p, NEW s, Way(s, p), Last(s) \notin touched, NEW x \in Project, x \in declares[Last(s)]
    PROVE  Way(Append(s, x), p) /\ Last(Append(s, x)) = x
<1>1. s \in Seq(Project) /\ Len(s) \in Nat /\ Len(s) >= 1 /\ s \in Paths
  BY DEF Way, Paths
<1>2. PICK t : t = Append(s, x)
  OBVIOUS
<1>3. /\ t \in Seq(Project) /\ Len(t) = Len(s) + 1 /\ t[Len(s) + 1] = x
      /\ \A i \in 1..Len(s) : t[i] = s[i]
  BY <1>1, <1>2
<1>4. t \in Paths
  BY <1>1, <1>3 DEF Paths
<1>5. t[1] = p
  BY <1>1, <1>3 DEF Way
<1>6. Last(s) = s[Len(s)] /\ Last(t) = x
  BY <1>1, <1>3 DEF Last
<1>7. ASSUME NEW i \in 2..Len(t) PROVE t[i] \in declares[t[i - 1]]
  <2>1. CASE i = Len(s) + 1
    BY <1>1, <1>3, <1>6, <2>1
  <2>2. CASE i # Len(s) + 1
    <3>1. i \in 2..Len(s) /\ i \in 1..Len(s) /\ i - 1 \in 1..Len(s)
      BY <1>1, <1>3, <2>2
    <3>2. s[i] \in declares[s[i - 1]]
      BY <3>1 DEF Way
    <3> QED
      BY <1>3, <3>1, <3>2
  <2> QED
    BY <2>1, <2>2
<1>8. ASSUME NEW i \in 1..(Len(t) - 1) PROVE t[i] \notin touched
  <2>1. i \in 1..Len(s) /\ (i = Len(s) \/ i \in 1..(Len(s) - 1))
    BY <1>1, <1>3
  <2>2. s[i] \notin touched
    BY <1>6, <2>1 DEF Way
  <2> QED
    BY <1>3, <2>1, <2>2
<1>9. Way(t, p)
  BY <1>4, <1>5, <1>7, <1>8 DEF Way
<1> QED
  BY <1>2, <1>6, <1>9

(* What follows the first of a queue, then what is queued.                 *)
LEMMA TailThen ==
    ASSUME NEW P, NEW u \in Seq(P), u # << >>, NEW more \in Seq(P), NEW v, v = Tail(u) \o more
    PROVE  /\ Len(v) = (Len(u) - 1) + Len(more) /\ DOMAIN v = 1..Len(v)
           /\ \A k \in 1..(Len(u) - 1) : v[k] = u[k + 1]
           /\ \A k \in 1..Len(more) : v[(Len(u) - 1) + k] = more[k]
<1>1. PICK t : t = Tail(u)
  OBVIOUS
<1>2. /\ t \in Seq(P) /\ Len(u) \in Nat /\ Len(u) >= 1 /\ Len(t) = Len(u) - 1
      /\ \A k \in 1..(Len(u) - 1) : t[k] = u[k + 1]
  BY <1>1
<1>3. v = t \o more /\ v \in Seq(P)
  BY <1>1, <1>2
<1>4. Len(v) = Len(t) + Len(more) /\ Len(more) \in Nat /\ DOMAIN v = 1..Len(v)
  BY <1>2, <1>3
<1>5. \A k \in 1..Len(t) : (t \o more)[k] = t[k]
  BY <1>2
<1>6. ASSUME NEW k \in 1..Len(more) PROVE (t \o more)[Len(t) + k] = more[k]
  <2>1. PICK j : j = Len(t) + k
    OBVIOUS
  <2>2. /\ Len(t) \in Nat /\ Len(more) \in Nat /\ j \in 1..(Len(t) + Len(more))
        /\ j > Len(t) /\ j - Len(t) = k
    BY <1>2, <1>4, <2>1
  <2>3. t \in Seq(P) /\ more \in Seq(P)
    BY <1>2
  <2>4. (t \o more)[j] = more[j - Len(t)]
    BY <2>2, <2>3
  <2> QED
    BY <2>1, <2>2, <2>4
<1> QED
  BY <1>2, <1>3, <1>4, <1>5, <1>6

LEMMA LookKeeps ==
    ASSUME declares \in Graphs, NEW p \in Project, NEW n \in 1..N, NEW w, Searched(w, n - 1, p)
    PROVE  Searched(Look(w), n, p)
<1>1. w \in Searches /\ n \in Nat /\ p \in w.seen
  BY ProjectsAreFinite DEF Searched
<1>2. CASE w.queue = << >> \/ w.found # << >>
  <2>1. Look(w) = w
    BY <1>2 DEF Look
  <2> QED
    BY <1>2, <2>1 DEF Searched
<1>3. CASE w.queue # << >> /\ w.found = << >>
  <2>1. /\ w.seen \cap touched = {}
        /\ \A k \in DOMAIN w.queue : Last(w.queue[k]) \in w.seen
        /\ \A k \in DOMAIN w.queue : Way(w.queue[k], p)
        /\ \A q \in w.seen : \/ declares[q] \subseteq w.seen
                             \/ \E k \in DOMAIN w.queue : Last(w.queue[k]) = q
        /\ Cardinality(w.seen) = (n - 1) + Len(w.queue)
    BY <1>3 DEF Searched
  <2>2. PICK path \in Paths, next \in Seq(Project), more \in Seq(Paths), fresh \in SUBSET Project :
              /\ path = Head(w.queue) /\ Last(path) \in Project
              /\ fresh = declares[Last(path)] \ w.seen
              /\ IsInjective(next) /\ ToSet(next) = fresh
              /\ Len(more) = Len(next) /\ \A i \in 1..Len(next) : more[i] = Append(path, next[i])
              /\ Look(w) = [ queue |-> Tail(w.queue) \o more, seen |-> w.seen \cup fresh,
                             found |-> IF OnlyOf(next, touched) = << >> THEN << >>
                                       ELSE Append(path, OnlyOf(next, touched)[1]) ]
              /\ Look(w) \in Searches
    BY <1>1, <1>3, LookIsSearch
  <2>3. PICK u, v, hits, P : u = w.queue /\ v = Tail(u) \o more /\ hits = OnlyOf(next, touched) /\ P = Paths
    OBVIOUS
  <2>4. PICK found : found = IF hits = << >> THEN << >> ELSE Append(path, hits[1])
    OBVIOUS
  <2>5. PICK x : x = Look(w)
    OBVIOUS
  <2>6. /\ x = [queue |-> v, seen |-> w.seen \cup fresh, found |-> found] /\ x \in Searches
        /\ x.queue = v /\ x.seen = w.seen \cup fresh /\ x.found = found
    BY <2>2, <2>3, <2>4, <2>5
  <2>7. u \in Seq(P) /\ u # << >> /\ more \in Seq(P)
    BY <1>1, <1>3, <2>2, <2>3 DEF Searches
  <2>8. /\ Len(u) \in Nat /\ Len(u) >= 1 /\ Head(u) = u[1] /\ DOMAIN u = 1..Len(u)
        /\ Len(more) \in Nat
    BY <2>7
  <2>11. /\ Len(v) = (Len(u) - 1) + Len(more) /\ DOMAIN v = 1..Len(v)
         /\ \A k \in 1..(Len(u) - 1) : v[k] = u[k + 1]
         /\ \A k \in 1..Len(more) : v[(Len(u) - 1) + k] = more[k]
    <3>1. v = Tail(u) \o more
      BY <2>3
    <3> QED
      BY <2>7, <3>1, TailThen
  <2>12. /\ Len(v) = (Len(u) - 1) + Len(more) /\ DOMAIN v = 1..Len(v)
         /\ \A k \in 1..(Len(u) - 1) : v[k] = u[k + 1]
         /\ \A k \in 1..Len(more) : v[(Len(u) - 1) + k] = more[k]
    BY <2>11
  <2>13. \A k \in 1..Len(v) : \/ k \in 1..(Len(u) - 1) /\ k + 1 \in 1..Len(u) /\ v[k] = u[k + 1]
                             \/ \E i \in 1..Len(more) : v[k] = more[i]
    <3> TAKE k \in 1..Len(v)
    <3>1. CASE k \in 1..(Len(u) - 1)
      BY <2>8, <2>12, <3>1
    <3>2. CASE k \notin 1..(Len(u) - 1)
      <4> DEFINE i == k - (Len(u) - 1)
      <4>1. i \in 1..Len(more) /\ k = (Len(u) - 1) + i
        BY <2>8, <2>12, <3>2
      <4> QED
        BY <2>12, <4>1
    <3> QED
      BY <3>1, <3>2
  <2>14. path = u[1] /\ 1 \in 1..Len(u)
    BY <2>2, <2>3, <2>8
  <2>15. Way(path, p) /\ Last(path) \notin touched
    BY <2>1, <2>3, <2>8, <2>14
  <2>16. \A i \in 1..Len(more) : /\ next[i] \in fresh
                                /\ Way(more[i], p) /\ Last(more[i]) = next[i]
    <3> TAKE i \in 1..Len(more)
    <3>1. next[i] \in fresh /\ more[i] = Append(path, next[i])
      BY <2>2 DEF ToSet
    <3>2. next[i] \in Project /\ next[i] \in declares[Last(path)]
      BY <2>2, <3>1
    <3>3. Way(Append(path, next[i]), p) /\ Last(Append(path, next[i])) = next[i]
      BY <2>15, <3>2, LongerWay, Zenon
    <3> QED
      BY <3>1, <3>3
  <2>17. \A k \in 1..Len(v) : Way(v[k], p) /\ Last(v[k]) \in w.seen \cup fresh
    <3> TAKE k \in 1..Len(v)
    <3>1. CASE k \in 1..(Len(u) - 1) /\ k + 1 \in 1..Len(u) /\ v[k] = u[k + 1]
      <4>1. Way(u[k + 1], p) /\ Last(u[k + 1]) \in w.seen
        BY <2>1, <2>3, <2>8, <3>1
      <4> QED
        BY <3>1, <4>1, Zenon
    <3>2. CASE \E i \in 1..Len(more) : v[k] = more[i]
      <4>1. PICK i \in 1..Len(more) : v[k] = more[i]
        BY <3>2
      <4>2. next[i] \in fresh /\ Way(more[i], p) /\ Last(more[i]) = next[i]
        BY <2>16, Zenon
      <4> QED
        BY <4>1, <4>2, Zenon
    <3> QED
      BY <2>13, <3>1, <3>2, Zenon
  <2>18. hits \in Seq(Project) /\ ToSet(hits) = fresh \cap touched
    BY <2>2, <2>3, OnlyOfOnce
  <2>19. CASE hits # << >>
    <3>1. hits[1] \in ToSet(hits) /\ found = Append(path, hits[1])
      BY <2>4, <2>18, <2>19 DEF ToSet
    <3>2. hits[1] \in Project /\ hits[1] \in touched /\ hits[1] \in declares[Last(path)]
      BY <2>2, <2>18, <3>1
    <3>5. Way(Append(path, hits[1]), p) /\ Last(Append(path, hits[1])) = hits[1]
      BY <2>15, <3>2, LongerWay, Zenon
    <3>3. Way(found, p) /\ Last(found) \in touched /\ found # << >>
      BY <3>1, <3>2, <3>5 DEF Way, Paths
    <3>4. Searched(x, n, p)
      BY <1>1, <2>6, <2>12, <2>17, <3>3 DEF Searched
    <3> QED
      BY <2>5, <3>4
  <2>20. CASE hits = << >>
    <3>1. fresh \cap touched = {} /\ found = << >>
      BY <2>4, <2>18, <2>20 DEF ToSet
    <3>2. ASSUME NEW q \in w.seen \cup fresh
          PROVE  declares[q] \subseteq w.seen \cup fresh \/ \E k \in 1..Len(v) : Last(v[k]) = q
      <4>1. CASE q \in fresh
        <5>1. PICK i \in 1..Len(more) : next[i] = q
          BY <2>2, <4>1 DEF ToSet
        <5>2. (Len(u) - 1) + i \in 1..Len(v) /\ v[(Len(u) - 1) + i] = more[i]
          BY <2>8, <2>12
        <5> QED
          BY <2>16, <5>1, <5>2
      <4>2. CASE q \in w.seen /\ declares[q] \subseteq w.seen
        BY <4>2
      <4>3. CASE \E k \in DOMAIN w.queue : Last(w.queue[k]) = q
        <5>1. PICK k \in 1..Len(u) : Last(u[k]) = q
          BY <2>3, <2>8, <4>3
        <5>2. CASE k = 1
          <6>1. q = Last(path)
            BY <2>14, <5>1, <5>2
          <6>2. \A r : r \in declares[Last(path)] => r \in w.seen \cup fresh
            BY <2>2
          <6> QED
            BY <6>1, <6>2, Zenon
        <5>3. CASE k # 1
          <6>1. k - 1 \in 1..(Len(u) - 1) /\ (k - 1) + 1 = k /\ k - 1 \in 1..Len(v)
            BY <2>8, <2>12, <5>3
          <6>2. v[k - 1] = u[k]
            BY <2>12, <6>1
          <6> QED
            BY <5>1, <6>1, <6>2
        <5> QED
          BY <5>2, <5>3
      <4> QED
        BY <2>1, <3>2, <4>1, <4>2, <4>3
    <3>3. Cardinality(w.seen \cup fresh) = n + Len(v)
      <4>1. PICK a : a = w.seen
        OBVIOUS
      <4>2. a \in SUBSET Project
        BY <1>1, <4>1 DEF Searches
      <4>3. a \cap fresh = {}
        BY <2>2, <4>1
      <4>4. Cardinality(fresh) = Len(next)
        BY <2>2, LengthIsCardinality
      <4>5. Cardinality(a) + Cardinality(fresh) + Cardinality({}) = Cardinality(a \cup fresh \cup {})
        BY <4>2, <4>3, DisjointSizes
      <4>6. a \cup fresh \cup {} = a \cup fresh /\ Cardinality({}) = 0
        BY FS_EmptySet
      <4>7. Cardinality(a) \in Nat /\ Cardinality(a) = (n - 1) + Len(u)
        BY <2>1, <2>3, <4>1, <4>2, ProjectsAreFinite, FS_CardinalityType
      <4>8. Cardinality(a) + Cardinality(fresh) + 0 = Cardinality(a \cup fresh)
        BY <4>5, <4>6, Zenon
      <4>10. PICK lu, lv, lm, ca, cf, caf : /\ lu = Len(u) /\ lv = Len(v) /\ lm = Len(more)
                                           /\ ca = Cardinality(a) /\ cf = Cardinality(fresh)
                                           /\ caf = Cardinality(a \cup fresh)
        OBVIOUS
      <4>11. lm = Len(next)
        BY <2>2, <4>10, Zenon
      <4>12. lm = cf
        BY <4>4, <4>10, <4>11, Zenon
      <4>13. ca + cf + 0 = caf /\ ca \in Nat /\ ca = (n - 1) + lu
        BY <4>7, <4>8, <4>10, Zenon
      <4>14. lv = (lu - 1) + lm /\ lu \in Nat /\ lm \in Nat
        BY <2>8, <2>12, <4>10, Zenon
      <4>15. caf = n + lv
        BY <1>1, <4>12, <4>13, <4>14
      <4>9. Cardinality(a \cup fresh) = n + Len(v)
        BY <4>10, <4>15, Zenon
      <4> QED
        BY <4>1, <4>9
    <3>4. Searched(x, n, p)
      BY <1>1, <2>1, <2>6, <2>12, <2>17, <3>1, <3>2, <3>3 DEF Searched
    <3> QED
      BY <2>5, <3>4
  <2> QED
    BY <2>19, <2>20
<1> QED
  BY <1>2, <1>3

(* What reaches a touched workspace finds one.                             *)
LEMMA SearchFinds ==
    ASSUME declares \in Graphs, NEW p \in Project, p \notin touched, Closure(declares, p) \cap touched # {}
    PROVE  Search(p) # << >> /\ Way(Search(p), p) /\ Last(Search(p)) \in touched
<1>1. PICK walk : /\ Search(p) = walk[N].found
                  /\ walk[0] = [queue |-> <<<<p>>>>, seen |-> {p}, found |-> << >>]
                  /\ \A n \in 1..N : walk[n] = Look(walk[n - 1])
  BY SearchSteps
<1>2. N \in Nat
  BY ProjectsAreFinite
<1> DEFINE G == {n \in 0..N : Searched(walk[n], n, p)}
<1>3. 0 \in G
  <2>1. PICK w : w = [queue |-> <<<<p>>>>, seen |-> {p}, found |-> << >>]
    OBVIOUS
  <2>2. <<p>> \in Paths /\ Last(<<p>>) = p /\ Len(<<p>>) = 1 /\ <<p>>[1] = p
    BY DEF Paths, Last
  <2>3. <<<<p>>>> \in Seq(Paths)
    BY <2>2
  <2>4. w \in Searches
    BY <2>1, <2>3 DEF Searches
  <2>5. Way(<<p>>, p)
    BY <2>2 DEF Way
  <2>6. Cardinality({p}) = 1
    BY FS_Singleton
  <2>7. DOMAIN w.queue = {1} /\ w.queue[1] = <<p>> /\ Len(w.queue) = 1
    BY <2>1
  <2>8. w.seen = {p} /\ w.found = << >> /\ Cardinality(w.seen) = 0 + Len(w.queue)
    BY <2>1, <2>6, <2>7
  <2>9. Searched(w, 0, p)
    BY <2>2, <2>4, <2>5, <2>7, <2>8 DEF Searched
  <2>10. Searched(walk[0], 0, p) /\ 0 \in 0..N
    BY <1>1, <1>2, <2>1, <2>9
  <2> QED
    BY <2>10
<1>4. ASSUME NEW n \in 1..N, n - 1 \in G PROVE n \in G
  <2>1. Searched(walk[n - 1], n - 1, p) /\ walk[n] = Look(walk[n - 1]) /\ n \in 0..N
    BY <1>1, <1>2, <1>4
  <2>2. Searched(walk[n], n, p)
    BY <2>1, LookKeeps
  <2> QED
    BY <2>1, <2>2
<1> HIDE DEF G
<1>5. N \in G
  <2>1. \A n \in 0..N : n \in G
    BY <1>2, <1>3, <1>4, SetInduction
  <2> QED
    BY <1>2, <2>1
<1>6. PICK w : w = walk[N] /\ Searched(w, N, p) /\ Search(p) = w.found
  BY <1>1, <1>5 DEF G
<1>7. ASSUME w.found = << >> PROVE FALSE
  <2>1. w.seen \in SUBSET Project /\ w.queue \in Seq(Paths) /\ p \in w.seen /\ w.seen \cap touched = {}
    BY <1>6, <1>7 DEF Searched, Searches
  <2>2. w.queue = << >>
    <3>1. PICK a, u, P : a = w.seen /\ u = w.queue /\ P = Paths
      OBVIOUS
    <3>2. Cardinality(a) \in 0..N /\ u \in Seq(P)
      BY <2>1, <3>1, ProjectsAreFinite
    <3>3. u = << >> \/ Cardinality(a) = N + Len(u)
      BY <1>6, <1>7, <3>1 DEF Searched
    <3>4. u # << >> => Len(u) \in Nat /\ Len(u) >= 1
      BY <3>2
    <3> QED
      BY <1>2, <3>1, <3>2, <3>3, <3>4
  <2>3. \A q \in w.seen : declares[q] \subseteq w.seen
    BY <1>6, <1>7, <2>2 DEF Searched
  <2>4. Closure(declares, p) \subseteq w.seen
    BY <2>1, <2>3, ClosureIsLeast
  <2> QED
    BY <2>1, <2>4
<1> QED
  BY <1>6, <1>7 DEF Searched

(* What resolves to a local package is declared; the repository does not   *)
(* change while the command runs.                                          *)
LinksDeclared == \A p \in Project : links[p] \subseteq declares[p]

LEMMA LinksAlwaysDeclared == Spec => []LinksDeclared
<1>1. Init => LinksDeclared
  BY DEF Init, LinksDeclared
<1>2. LinksDeclared /\ [Next]_vars => LinksDeclared'
  BY DEF LinksDeclared, Next, TakeAll, Mark, Spread, SpreadDone, Select, Take, TakeRest, RunTask,
         RunDone, vars, repo
<1> QED
  BY <1>1, <1>2, PTL DEF Spec

(* Every affected workspace is told a chain of declared dependencies from  *)
(* it to a workspace that holds a change (workspace.rs, explain_affected): *)
(* the mark spreads over links, which are declared, so that the search,    *)
(* which looks once behind each workspace it sees, ends at a touched one   *)
(* before its N looks are used up.                                         *)
THEOREM ReasonsAlwaysChains == Spec => []ReasonsAreChains
<1>1. TypeOK /\ LinksDeclared /\ CheckoutHoldsTheChange => ReasonsAreChains
  <2> SUFFICES ASSUME TypeOK, LinksDeclared, CheckoutHoldsTheChange, phase = "affected",
                      NEW p \in affected
               PROVE  /\ Reason(p) # << >> /\ Head(Reason(p)) = p
                      /\ \A i \in DOMAIN Reason(p) : Reason(p)[i] \in touched <=> i = Len(Reason(p))
                      /\ \A i \in 2..Len(Reason(p)) : Reason(p)[i] \in declares[Reason(p)[i - 1]]
    BY DEF ReasonsAreChains
  <2>1. p \in Project /\ declares \in Graphs /\ links \in Graphs /\ direct \subseteq touched
    BY DEF TypeOK, Graphs
  <2>2. CASE p \in touched
    <3>1. Reason(p) = <<p>>
      BY <2>2 DEF Reason
    <3> QED
      BY <2>2, <3>1
  <2>3. CASE p \notin touched
    <3>1. Closure(links, p) \cap direct # {}
      BY <2>1 DEF CheckoutHoldsTheChange, Checkout
    <3>2. PICK C : C = Closure(declares, p)
      OBVIOUS
    <3>3. p \in C /\ \A q \in C : declares[q] \subseteq C
      BY <2>1, <3>2, ClosureIsLeast
    <3>4. \A q \in C \cap Project : links[q] \subseteq C
      BY <3>3 DEF LinksDeclared
    <3>5. Closure(links, p) \subseteq C
      BY <2>1, <3>3, <3>4, ClosureIsLeast
    <3>6. Closure(declares, p) \cap touched # {}
      BY <2>1, <3>1, <3>2, <3>5
    <3>7. PICK s : s = Search(p)
      OBVIOUS
    <3>8. s # << >> /\ Way(s, p) /\ Last(s) \in touched
      BY <2>1, <2>3, <3>6, <3>7, SearchFinds
    <3>9. s \in Seq(Project) /\ Len(s) \in Nat /\ Len(s) >= 1 /\ s[1] = p /\ s[Len(s)] \in touched
      BY <3>8 DEF Way, Paths, Last
    <3>10. Head(s) = p
      BY <3>8, <3>9
    <3>11. ASSUME NEW i \in DOMAIN s PROVE s[i] \in touched <=> i = Len(s)
      <4>1. i \in 1..Len(s) /\ (i = Len(s) \/ i \in 1..(Len(s) - 1))
        BY <3>9
      <4> QED
        BY <3>8, <3>9, <4>1 DEF Way
    <3>12. \A i \in 2..Len(s) : s[i] \in declares[s[i - 1]]
      BY <3>8 DEF Way
    <3>13. Reason(p) = s
      BY <2>3, <3>7 DEF Reason
    <3> QED
      BY <3>8, <3>10, <3>11, <3>12, <3>13
  <2> QED
    BY <2>2, <2>3
<1> QED
  BY <1>1, TypesHold, LinksAlwaysDeclared, CheckoutAlwaysHoldsTheChange, PTL

(* The report of a run holds every selected workspace once, as completed,  *)
(* failed or pending (commands/run.rs), whatever the cycles.               *)
THEOREM RunAlwaysAccounted == Spec => []RunIsAccounted
<1>1. IInv => RunIsAccounted
  BY DEF IInv
<1> QED
  BY <1>1, SpecInv, PTL

==============================================================================

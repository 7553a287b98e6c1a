---------------------------- MODULE DeptTreeProofs ----------------------------
(***************************************************************************)
(* For any set of departments: after any sequence of creations, moves,     *)
(* changes of status and deletions, the path of a department is its        *)
(* parent's path and the parent (PathsFollowParents), no branch in use     *)
(* hangs below a department that is not (BranchesInUse), and an operator   *)
(* sees what its roles promise (ScopeAsPromised).                          *)
(*                                                                         *)
(* The menus are trees too, and for any set of them their routes are       *)
(* distinct, none is hidden and a choice of them is restored.              *)
(***************************************************************************)
EXTENDS DeptTree, MenuRoutes, DataInduction, SequenceTheorems

Ids == Depts \cup {Top}

Two == Statuses \subseteq {"normal", "disabled"}

\* PathsFollowParents for departments that do not exist yet as well.
Links ==
    \A d \in Depts :
        /\ ancestors[d] = IF parent[d] = Top THEN <<Top>> ELSE Append(ancestors[parent[d]], parent[d])
        /\ ~Born(d) => parent[d] = Top

\* A department occurs in a path right after its own path: the path of a
\* descendant starts with it.
Starts(c, e) ==
    /\ Len(ancestors[c]) < Len(ancestors[e])
    /\ ancestors[e][Len(ancestors[c]) + 1] = c
    /\ \A k \in 1..Len(ancestors[c]) : ancestors[e][k] = ancestors[c][k]
Placed(c, e, i) == Born(c) /\ i = Len(ancestors[c]) + 1 /\ Starts(c, e)
Paths ==
    \A e \in Depts : \A i \in 1..Len(ancestors[e]) :
        /\ i > 1 => ancestors[e][i] \in Depts
        /\ \A c \in Depts : ancestors[e][i] = c => Placed(c, e, i)

TreeInv == TreeTypeOK /\ Links /\ Paths /\ BranchesInUse

-----------------------------------------------------------------------------
LEMMA InitialTree == ASSUME TreeInit PROVE TreeInv
<1>1. Root \in Depts /\ \A d \in Depts : ancestors[d] = <<Top>>
  BY TopAssumption DEF TreeInit, Root
<1>2. TreeTypeOK
  BY OperatorsAssumption DEF TreeInit, TreeTypeOK
<1>3. Links /\ Paths /\ BranchesInUse
  BY <1>1, TopAssumption DEF TreeInit, Links, Paths, BranchesInUse, Two, Normal, Live, FindInSet
<1> QED
  BY <1>2, <1>3 DEF TreeInv

\* What the entries of a path have in common.
LEMMA InPath ==
    ASSUME TreeInv, NEW c \in Depts, NEW e \in Depts, FindInSet(c, ancestors[e])
    PROVE  Born(c) /\ Starts(c, e) /\ c # e
<1>0. ancestors[e] \in Seq(Ids) /\ ancestors[c] \in Seq(Ids)
  BY DEF TreeInv, TreeTypeOK, Ids
<1>1. PICK i \in 1..Len(ancestors[e]) : ancestors[e][i] = c
  BY <1>0 DEF FindInSet
<1>2. Born(c) /\ i = Len(ancestors[c]) + 1 /\ Starts(c, e)
  BY <1>1 DEF TreeInv, Paths, Placed
<1> QED
  BY <1>0, <1>2 DEF Starts

\* The step from a department to its parent.
LEMMA OneUp ==
    ASSUME TreeInv, NEW d \in Depts, parent[d] # Top
    PROVE  /\ parent[d] \in Depts /\ Born(d) /\ parent[d] # d
           /\ Len(ancestors[d]) = Len(ancestors[parent[d]]) + 1
           /\ ancestors[d][Len(ancestors[d])] = parent[d]
           /\ \A i \in 1..Len(ancestors[parent[d]]) : ancestors[d][i] = ancestors[parent[d]][i]
           /\ \A c \in Depts : FindInSet(c, ancestors[d]) <=> c = parent[d] \/ FindInSet(c, ancestors[parent[d]])
<1>1. parent[d] \in Depts /\ Born(d) /\ ancestors[d] = Append(ancestors[parent[d]], parent[d])
  BY DEF TreeInv, TreeTypeOK, Links
<1>2. ancestors[parent[d]] \in Seq(Ids)
  BY <1>1 DEF TreeInv, TreeTypeOK, Ids
<1>3. FindInSet(parent[d], ancestors[d])
  BY <1>1, <1>2 DEF FindInSet
<1>4. \A c \in Depts : FindInSet(c, ancestors[d]) <=> c = parent[d] \/ FindInSet(c, ancestors[parent[d]])
  BY <1>1, <1>2 DEF FindInSet
<1> QED
  BY <1>1, <1>2, <1>3, <1>4, InPath

\* Below a department with live descendants there is a live child.
LEMMA ChildBetween ==
    ASSUME TreeInv, NEW d \in Depts, NEW e \in Depts, Live(e), FindInSet(d, ancestors[e])
    PROVE  \E c \in Depts : Live(c) /\ parent[c] = d
<1> DEFINE L == Len(ancestors[d])
<1>1. ancestors[e] \in Seq(Ids) /\ ancestors[d] \in Seq(Ids) /\ L \in Nat /\ L + 1 <= Len(ancestors[e])
  BY InPath DEF TreeInv, TreeTypeOK, Ids, Starts
<1>2. ancestors[e][L + 1] = d
  BY InPath DEF Starts
\* The department whose path ends with d is a child of d.
<1>3. ASSUME NEW c \in Depts, Len(ancestors[c]) = L + 1, ancestors[c][L + 1] = d PROVE parent[c] = d
  <2>1. parent[c] # Top
    BY <1>1, <1>3, TopAssumption DEF TreeInv, Links
  <2> QED
    BY <1>3, <2>1, OneUp
<1>4. CASE Len(ancestors[e]) = L + 1
  BY <1>2, <1>3, <1>4
<1>5. CASE Len(ancestors[e]) > L + 1
  <2> DEFINE c == ancestors[e][L + 2]
  <2>1. L + 2 \in 1..Len(ancestors[e]) /\ L + 1 \in 1..(L + 1) /\ L + 2 = (L + 1) + 1
    BY <1>1, <1>5
  <2>2. c \in Depts /\ L + 2 = Len(ancestors[c]) + 1 /\ Starts(c, e)
    <3>1. c \in Depts
      BY <1>1, <2>1 DEF TreeInv, Paths
    <3>2. Placed(c, e, L + 2)
      BY <2>1, <3>1 DEF TreeInv, Paths
    <3> QED
      BY <3>1, <3>2 DEF Placed
  <2>3. FindInSet(c, ancestors[e])
    BY <1>1, <2>1 DEF FindInSet
  <2> HIDE DEF c
  <2>4. ancestors[c] \in Seq(Ids) /\ Len(ancestors[c]) \in Nat
    BY <2>2 DEF TreeInv, TreeTypeOK, Ids
  <2>5. Len(ancestors[c]) = L + 1
    BY <1>1, <2>2, <2>4
  <2>6. ancestors[c][L + 1] = d
    BY <1>2, <2>1, <2>2, <2>5 DEF Starts
  <2>7. Live(c)
    BY <2>2, <2>3 DEF TreeInv, BranchesInUse, Two
  <2> QED
    BY <1>3, <2>2, <2>5, <2>6, <2>7
<1> QED
  BY <1>1, <1>4, <1>5

LEMMA CreateKeeps ==
    ASSUME TreeInv, NEW user, NEW d \in Depts, NEW p \in Depts, NEW s \in Statuses, CreateDept(user, d, p, s)
    PROVE  TreeInv'
<1>1. /\ ~Born(d) /\ Live(p) /\ Normal(p) /\ d # p
      /\ ancestors' = [ancestors EXCEPT ![d] = Append(ancestors[p], p)]
      /\ state' = [state EXCEPT ![d] = "live"] /\ parent' = [parent EXCEPT ![d] = p]
      /\ status' = [status EXCEPT ![d] = s] /\ operator' = operator
  BY DEF CreateDept, MayUse, Live, Born
<1>2. /\ ancestors[p] \in Seq(Ids) /\ Len(ancestors[p]) \in Nat /\ ancestors \in [Depts -> Seq(Ids)]
      /\ ancestors'[d] \in Seq(Ids) /\ Len(ancestors'[d]) = Len(ancestors[p]) + 1
      /\ ancestors'[d][Len(ancestors[p]) + 1] = p
      /\ \A i \in 1..Len(ancestors[p]) : ancestors'[d][i] = ancestors[p][i]
      /\ \A e \in Depts : e # d => ancestors'[e] = ancestors[e]
  BY <1>1 DEF TreeInv, TreeTypeOK, Ids
<1>3. TreeTypeOK'
  BY <1>1, StatusesAssumption DEF TreeInv, TreeTypeOK
<1>4. \A e \in Depts : ~FindInSet(d, ancestors[e])
  BY <1>1, InPath
<1>5. Links'
  <2>1. ASSUME NEW e \in Depts, parent[e] = d PROVE FALSE
    <3>1. FindInSet(parent[e], ancestors[e])
      BY <2>1, OneUp, TopAssumption
    <3> QED
      BY <1>4, <2>1, <3>1
  <2>2. \A e \in Depts : e # d => parent'[e] = parent[e] /\ ancestors'[e] = ancestors[e] /\ (Born(e)' <=> Born(e))
    BY <1>1, <1>2 DEF TreeInv, TreeTypeOK, Born
  <2>3. parent'[d] = p /\ Born(d)' /\ ancestors'[d] = Append(ancestors[p], p)
    BY <1>1 DEF TreeInv, TreeTypeOK, Born
  <2>4. parent[d] = Top /\ p # Top
    BY <1>1, TopAssumption DEF TreeInv, Links
  <2>5. \A e \in Depts : parent[e] \in Depts \cup {Top}
    BY DEF TreeInv, TreeTypeOK
  <2>6. ASSUME NEW e \in Depts, e # d
        PROVE  /\ ancestors'[e] = IF parent'[e] = Top THEN <<Top>> ELSE Append(ancestors'[parent'[e]], parent'[e])
               /\ ~Born(e)' => parent'[e] = Top
    <3>1. parent[e] # Top => parent[e] \in Depts /\ parent[e] # d /\ ancestors'[parent[e]] = ancestors[parent[e]]
      BY <1>2, <2>1, <2>5, <2>6
    <3> QED
      BY <2>2, <2>6, <3>1 DEF TreeInv, Links
  <2> HIDE DEF Born
  <2> QED
    BY <1>1, <1>2, <2>3, <2>4, <2>6 DEF Links
<1>6. Paths'
  <2>1. \A e \in Depts : ancestors[e] \in Seq(Ids) /\ \A i \in 1..Len(ancestors[e]) : ancestors[e][i] # d
    BY <1>2, <1>4 DEF FindInSet
  <2>2. \A e \in Depts : Born(e) => Born(e)'
    BY <1>1 DEF Born, TreeInv, TreeTypeOK
  <2>3. ASSUME NEW e \in Depts, e # d, NEW i \in 1..Len(ancestors'[e])
        PROVE  /\ i > 1 => ancestors'[e][i] \in Depts
               /\ \A c \in Depts : ancestors'[e][i] = c => Placed(c, e, i)'
    <3>1. ancestors'[e] = ancestors[e] /\ (i > 1 => ancestors[e][i] \in Depts)
      BY <1>2, <2>3 DEF TreeInv, Paths
    <3>2. ASSUME NEW c \in Depts, ancestors[e][i] = c PROVE Placed(c, e, i)'
      <4>1. c # d /\ Placed(c, e, i)
        BY <2>1, <2>3, <3>1, <3>2 DEF TreeInv, Paths
      <4> QED
        BY <1>2, <2>2, <2>3, <4>1 DEF Placed, Starts
    <3> QED
      BY <3>1, <3>2
  <2>4. ASSUME NEW i \in 1..Len(ancestors'[d])
        PROVE  /\ i > 1 => ancestors'[d][i] \in Depts
               /\ \A c \in Depts : ancestors'[d][i] = c => Placed(c, d, i)'
    <3>1. CASE i = Len(ancestors[p]) + 1
      <4>1. Born(p)' /\ Len(ancestors'[p]) = Len(ancestors[p])
        BY <1>1, <1>2, <2>2 DEF Born, Live
      <4>2. Starts(p, d)'
        BY <1>1, <1>2 DEF Starts
      <4> QED
        BY <1>2, <3>1, <4>1, <4>2 DEF Placed
    <3>2. CASE i \in 1..Len(ancestors[p])
      <4>1. ancestors'[d][i] = ancestors[p][i] /\ (i > 1 => ancestors[p][i] \in Depts)
        BY <1>2, <3>2 DEF TreeInv, Paths
      <4>2. ASSUME NEW c \in Depts, ancestors[p][i] = c PROVE Placed(c, d, i)'
        <5>1. c # d /\ Placed(c, p, i)
          BY <2>1, <3>2, <4>2 DEF TreeInv, Paths
        <5>2. Len(ancestors[c]) \in Nat /\ ancestors'[c] = ancestors[c]
          BY <1>2, <5>1
        <5>3. Born(c) /\ i = Len(ancestors[c]) + 1 /\ Len(ancestors[c]) < Len(ancestors[p])
                /\ ancestors[p][Len(ancestors[c]) + 1] = c
                /\ \A k \in 1..Len(ancestors[c]) : ancestors[p][k] = ancestors[c][k]
          BY <5>1 DEF Placed, Starts
        <5>4. \A k \in 1..Len(ancestors[c]) : k \in 1..Len(ancestors[p])
          BY <1>2, <5>2, <5>3
        <5>5. Starts(c, d)'
          BY <1>2, <3>2, <4>1, <5>2, <5>3, <5>4 DEF Starts
        <5> QED
          BY <2>2, <5>2, <5>3, <5>5 DEF Placed
      <4> QED
        BY <4>1, <4>2
    <3> QED
      BY <1>2, <3>1, <3>2
  <2> QED
    BY <2>3, <2>4 DEF Paths
<1>7. BranchesInUse'
  <2>1. ASSUME NEW c \in Depts, FindInSet(c, ancestors'[d]) PROVE c = p \/ FindInSet(c, ancestors[p])
    <3>1. PICK i \in 1..Len(ancestors'[d]) : ancestors'[d][i] = c
      BY <1>2, <2>1 DEF FindInSet
    <3>2. i = Len(ancestors[p]) + 1 \/ i \in 1..Len(ancestors[p])
      BY <1>2
    <3> QED
      BY <1>2, <3>1, <3>2 DEF FindInSet
  <2>2. \A e, c \in Depts : e # d => (FindInSet(c, ancestors'[e]) <=> FindInSet(c, ancestors[e]))
    BY <1>2
  <2>3. ASSUME NEW c \in Depts, c = p \/ FindInSet(c, ancestors[p]) PROVE Live(c) /\ (Two => Normal(c)) /\ c # d
    BY <1>1, <1>4, <2>3 DEF TreeInv, BranchesInUse, Two
  <2>4. \A c \in Depts : c # d => (Live(c)' <=> Live(c)) /\ (Normal(c)' <=> Normal(c))
    BY <1>1 DEF Live, Normal, TreeInv, TreeTypeOK
  <2>5. \A e, c \in Depts : e # d /\ FindInSet(c, ancestors[e]) => c # d
    BY <1>4
  <2> HIDE DEF FindInSet, Live
  <2> QED
    BY <2>1, <2>2, <2>3, <2>4, <2>5 DEF TreeInv, BranchesInUse, Two
<1> QED
  BY <1>3, <1>5, <1>6, <1>7 DEF TreeInv

LEMMA Transitive ==
    ASSUME TreeInv, NEW b \in Depts, NEW c \in Depts, NEW e \in Depts,
           FindInSet(b, ancestors[c]), FindInSet(c, ancestors[e])
    PROVE  FindInSet(b, ancestors[e])
<1>0. ancestors[e] \in Seq(Ids) /\ ancestors[c] \in Seq(Ids)
  BY DEF TreeInv, TreeTypeOK, Ids
<1>1. PICK k \in 1..Len(ancestors[c]) : ancestors[c][k] = b
  BY <1>0 DEF FindInSet
<1>2. ancestors[e][k] = b /\ k \in 1..Len(ancestors[e])
  BY <1>0, <1>1, InPath DEF Starts
<1> QED
  BY <1>0, <1>2 DEF FindInSet

\* The path of a descendant of d, when path becomes that of d.
LEMMA RebuiltShape ==
    ASSUME TreeInv, NEW d \in Depts, NEW e \in Depts, NEW path \in Seq(Ids), FindInSet(d, ancestors[e])
    PROVE  LET new == Rebuilt(d, path, e) IN
           /\ new \in Seq(Ids)
           /\ Len(new) = Len(path) + Len(ancestors[e]) - Len(ancestors[d])
           /\ \A i \in 1..Len(path) : new[i] = path[i]
           /\ \A i \in Len(path) + 1..Len(new) : new[i] = ancestors[e][i - Len(path) + Len(ancestors[d])]
<1> DEFINE L == Len(ancestors[d])
           N == Len(ancestors[e])
           tail == SubSeq(ancestors[e], L + 1, N)
<1>1. ancestors[e] \in Seq(Ids) /\ L \in Nat /\ N \in Nat /\ L < N /\ Len(path) \in Nat
  BY InPath DEF TreeInv, TreeTypeOK, Ids, Starts
<1>2. \A i \in L + 1..N : ancestors[e][i] \in Ids
  BY <1>1, ElementOfSeq
<1>3. tail \in Seq(Ids) /\ Len(tail) = N - L /\ \A i \in 1..N - L : tail[i] = ancestors[e][L + i]
  <2> HIDE DEF L, N
  <2>1. L + 1 \in Int /\ N \in Int /\ L + 1 <= N
    BY <1>1
  <2>2. /\ tail \in Seq(Ids) /\ Len(tail) = IF L + 1 <= N THEN N - (L + 1) + 1 ELSE 0
        /\ \A i \in 1..N - (L + 1) + 1 : tail[i] = ancestors[e][(L + 1) + i - 1]
    BY <1>2, <2>1, SubSeqProperties
  <2>3. N - (L + 1) + 1 = N - L
    BY <1>1
  <2>4. \A i \in 1..N - L : (L + 1) + i - 1 = L + i
    BY <1>1
  <2> HIDE DEF tail
  <2> QED
    BY <2>1, <2>2, <2>3, <2>4
<1> HIDE DEF tail
<1>4. /\ path \o tail \in Seq(Ids) /\ Len(path \o tail) = Len(path) + Len(tail)
      /\ \A i \in 1..Len(path) + Len(tail) : (path \o tail)[i] = IF i <= Len(path) THEN path[i] ELSE tail[i - Len(path)]
  BY <1>3, ConcatProperties
<1>5. Rebuilt(d, path, e) = path \o tail
  BY DEF Rebuilt, tail
<1> HIDE DEF L, N
<1>6. \A i \in 1..Len(path) : (path \o tail)[i] = path[i]
  BY <1>1, <1>3, <1>4
<1>7. \A i \in Len(path) + 1..Len(path) + N - L : (path \o tail)[i] = ancestors[e][i - Len(path) + L]
  <2> TAKE i \in Len(path) + 1..Len(path) + N - L
  <2>1. i - Len(path) \in 1..N - L /\ ~(i <= Len(path)) /\ i \in 1..Len(path) + Len(tail)
    BY <1>1, <1>3
  <2>2. (path \o tail)[i] = tail[i - Len(path)]
    BY <1>4, <2>1
  <2>3. tail[i - Len(path)] = ancestors[e][L + (i - Len(path))]
    BY <1>3, <2>1
  <2> QED
    BY <1>1, <2>1, <2>2, <2>3
<1> QED
  BY <1>1, <1>3, <1>4, <1>5, <1>6, <1>7 DEF L, N

\* The path that d gets: every department in it keeps its own.
Onto(d, p) == IF p = Top THEN <<Top>> ELSE Append(ancestors[p], p)
Apart(d, e) == e # d /\ ~FindInSet(d, ancestors[e])

LEMMA OntoShape ==
    ASSUME TreeInv, NEW d \in Depts, NEW p \in Depts \cup {Top}, p # Top => Live(p) /\ Apart(d, p)
    PROVE  LET path == Onto(d, p) IN
           /\ path \in Seq(Ids)
           /\ \A i \in 1..Len(path) :
                /\ i > 1 => path[i] \in Depts
                /\ \A c \in Depts : path[i] = c =>
                     /\ Live(c) /\ Apart(d, c)
                     /\ i = Len(ancestors[c]) + 1
                     /\ \A k \in 1..Len(ancestors[c]) : path[k] = ancestors[c][k]
<1>1. CASE p = Top
  BY <1>1, TopAssumption DEF Onto, Ids
<1>2. CASE p # Top
  <2> DEFINE path == Onto(d, p)
             N == Len(ancestors[p])
  <2>1. /\ p \in Depts /\ ancestors[p] \in Seq(Ids) /\ N \in Nat
        /\ path \in Seq(Ids) /\ Len(path) = N + 1 /\ path[N + 1] = p
        /\ \A i \in 1..N : path[i] = ancestors[p][i]
    BY <1>2 DEF Onto, TreeInv, TreeTypeOK, Ids
  <2> HIDE DEF path
  <2>2. ASSUME NEW i \in 1..N
        PROVE  /\ i > 1 => path[i] \in Depts
               /\ \A c \in Depts : path[i] = c =>
                     /\ Live(c) /\ Apart(d, c)
                     /\ i = Len(ancestors[c]) + 1
                     /\ \A k \in 1..Len(ancestors[c]) : path[k] = ancestors[c][k]
    <3>1. path[i] = ancestors[p][i] /\ (i > 1 => path[i] \in Depts)
      BY <2>1, <2>2 DEF TreeInv, Paths
    <3>2. ASSUME NEW c \in Depts, path[i] = c
          PROVE  /\ Live(c) /\ Apart(d, c)
                 /\ i = Len(ancestors[c]) + 1
                 /\ \A k \in 1..Len(ancestors[c]) : path[k] = ancestors[c][k]
      <4>1. Placed(c, p, i)
        BY <2>1, <3>1, <3>2 DEF TreeInv, Paths
      <4>2. FindInSet(c, ancestors[p])
        BY <2>1, <3>1, <3>2 DEF FindInSet
      <4>3. Live(c)
        BY <1>2, <2>1, <4>2 DEF TreeInv, BranchesInUse, Two
      <4>4. Apart(d, c)
        BY <1>2, <2>1, <4>2, Transitive DEF Apart
      <4>5. Len(ancestors[c]) \in Nat /\ Len(ancestors[c]) < N
        BY <2>1, <4>1 DEF Placed, Starts, TreeInv, TreeTypeOK
      <4> QED
        BY <2>1, <4>1, <4>3, <4>4, <4>5 DEF Placed, Starts
    <3> QED
      BY <3>1, <3>2
  <2>3. /\ Live(p) /\ Apart(d, p) /\ N + 1 = Len(ancestors[p]) + 1
        /\ \A k \in 1..Len(ancestors[p]) : path[k] = ancestors[p][k]
    BY <1>2, <2>1
  <2>4. \A i \in 1..Len(path) : i \in 1..N \/ i = N + 1
    BY <2>1
  <2> QED
    BY <2>1, <2>2, <2>3, <2>4 DEF path
<1> QED
  BY <1>1, <1>2

LEMMA UpdateKeeps ==
    ASSUME TreeInv, NEW user, NEW d \in Depts, NEW p \in Depts \cup {Top}, NEW s \in Statuses,
           UpdateDept(user, d, p, s)
    PROVE  TreeInv'
<1> DEFINE path == Onto(d, p)
           M == Len(path)
           L == Len(ancestors[d])
           Beneath(e) == e # d /\ FindInSet(d, ancestors[e])
           Allowed(c, i) == /\ Live(c) /\ Apart(d, c)
                            /\ i = Len(ancestors[c]) + 1
                            /\ \A k \in 1..Len(ancestors[c]) : path[k] = ancestors[c][k]
<1>1. /\ Live(d) /\ (p # Top => Live(p) /\ Apart(d, p))
      /\ s = "disabled" => ~HasNormalBelow(d)
      /\ ancestors' = [e \in Depts |-> IF e = d THEN path ELSE Rebuilt(d, path, e)]
      /\ status' = [e \in Depts |->
                       IF e = d THEN s
                       ELSE IF s = "normal" /\ e \in EnabledAbove(path) THEN "normal" ELSE status[e]]
      /\ parent' = [parent EXCEPT ![d] = p] /\ state' = state /\ operator' = operator
  BY DEF UpdateDept, MayUse, Onto, Apart
<1>2. /\ path \in Seq(Ids) /\ M \in Nat
      /\ \A i \in 1..M : (i > 1 => path[i] \in Depts) /\ \A c \in Depts : path[i] = c => Allowed(c, i)
  BY <1>1, OntoShape
<1>3. \A e \in Depts : ancestors[e] \in Seq(Ids) /\ Len(ancestors[e]) \in Nat
  BY DEF TreeInv, TreeTypeOK, Ids
<1>4. /\ ancestors'[d] = path /\ Len(path) = M
      /\ L \in Nat /\ Len(ancestors[d]) = L /\ ~FindInSet(d, ancestors[d])
  BY <1>1, <1>3, InPath
<1>5. \A e \in Depts : Apart(d, e) => ancestors'[e] = ancestors[e]
  BY <1>1 DEF Rebuilt, Apart
<1>6. \A e \in Depts : Beneath(e) =>
        /\ ancestors'[e] \in Seq(Ids) /\ Len(ancestors'[e]) = M + Len(ancestors[e]) - L
        /\ \A i \in 1..M : ancestors'[e][i] = path[i]
        /\ \A i \in M + 1..Len(ancestors'[e]) : ancestors'[e][i] = ancestors[e][i - M + L]
        /\ L < Len(ancestors[e]) /\ ancestors[e][L + 1] = d
        /\ \A k \in 1..L : ancestors[e][k] = ancestors[d][k]
  BY <1>1, <1>2, RebuiltShape, InPath DEF Starts
<1>7. \A e \in Depts : /\ e = d \/ Apart(d, e) \/ Beneath(e)
                       /\ Beneath(e) <=> e # d /\ FindInSet(d, ancestors[e])
  BY DEF Apart
<1>8. \A e \in Depts : (Live(e)' <=> Live(e)) /\ (Born(e)' <=> Born(e))
  BY <1>1 DEF Live, Born
<1>9. \A e, c \in Depts : Apart(d, e) /\ FindInSet(c, ancestors[e]) => Apart(d, c)
  BY Transitive DEF Apart
<1> HIDE DEF path, M, L, Beneath, Allowed
<1>10. TreeTypeOK'
  <2>1. \A e \in Depts : ancestors'[e] \in Seq(Ids)
    BY <1>2, <1>3, <1>4, <1>5, <1>6, <1>7
  <2>2. ancestors' \in [Depts -> Seq(Ids)]
    BY <1>1, <2>1
  <2>3. status' \in [Depts -> {"normal", "disabled", "other"}]
    BY <1>1, StatusesAssumption DEF TreeInv, TreeTypeOK
  <2> QED
    BY <1>1, <2>2, <2>3 DEF TreeInv, TreeTypeOK, Ids
<1>11. Links'
  <2> SUFFICES ASSUME NEW e \in Depts
               PROVE /\ ancestors'[e] = IF parent'[e] = Top THEN <<Top>> ELSE Append(ancestors'[parent'[e]], parent'[e])
                     /\ ~Born(e)' => parent'[e] = Top
    BY DEF Links
  <2> DEFINE q == parent[e]
  <2>1. CASE e = d
    BY <1>1, <1>4, <1>5, <1>8, <2>1 DEF path, Onto, TreeInv, TreeTypeOK, Live, Born
  <2>2. CASE e # d
    <3>1. parent'[e] = q /\ q \in Depts \cup {Top} /\ (~Born(e)' => q = Top)
      BY <1>1, <1>8, <2>2 DEF TreeInv, TreeTypeOK, Links
    <3>2. ancestors[e] = IF q = Top THEN <<Top>> ELSE Append(ancestors[q], q)
      BY DEF TreeInv, Links
    <3> HIDE DEF q
    <3>3. CASE q = Top
      <4>1. Apart(d, e)
        BY <2>2, <3>2, <3>3, TopAssumption DEF Apart, FindInSet
      <4> QED
        BY <1>5, <3>1, <3>2, <3>3, <4>1
    <3>4. CASE q # Top
      <4>1. q \in Depts /\ \A c \in Depts : FindInSet(c, ancestors[e]) <=> c = q \/ FindInSet(c, ancestors[q])
        BY <3>1, <3>4, OneUp DEF q
      <4>2. CASE Apart(d, e)
        <5>1. Apart(d, q)
          BY <4>1, <4>2 DEF Apart
        <5> QED
          BY <1>5, <3>1, <3>2, <3>4, <4>1, <4>2, <5>1
      <4>3. CASE Beneath(e)
        <5>1. /\ ancestors[q] \in Seq(Ids) /\ Len(ancestors[e]) = Len(ancestors[q]) + 1
              /\ ancestors[e][Len(ancestors[q]) + 1] = q
              /\ \A i \in 1..Len(ancestors[q]) : ancestors[e][i] = ancestors[q][i]
          BY <1>3, <3>2, <3>4, <4>1
        <5>2. /\ ancestors'[q] \in Seq(Ids) /\ Len(ancestors'[q]) = M + Len(ancestors[q]) - L
              /\ \A i \in 1..M : ancestors'[q][i] = path[i]
              /\ \A i \in M + 1..Len(ancestors'[q]) : ancestors'[q][i] = ancestors[q][i - M + L]
              /\ L <= Len(ancestors[q])
          <6>1. CASE q = d
            BY <1>2, <1>4, <6>1
          <6>2. CASE q # d
            <7>1. Beneath(q)
              BY <1>7, <4>1, <4>3, <6>2
            <7>2. /\ ancestors'[q] \in Seq(Ids) /\ Len(ancestors'[q]) = M + Len(ancestors[q]) - L
                  /\ \A i \in 1..M : ancestors'[q][i] = path[i]
                  /\ \A i \in M + 1..Len(ancestors'[q]) : ancestors'[q][i] = ancestors[q][i - M + L]
                  /\ L < Len(ancestors[q])
              BY <1>6, <4>1, <7>1, Zenon
            <7>3. L <= Len(ancestors[q])
              BY <1>3, <1>4, <4>1, <7>2
            <7> QED
              BY <7>2, <7>3, Zenon
          <6> QED BY <6>1, <6>2
        <5> DEFINE new == Append(ancestors'[q], q)
                   K == Len(ancestors'[q])
        <5>3. /\ new \in Seq(Ids) /\ Len(new) = K + 1 /\ new[K + 1] = q /\ K \in Nat
              /\ \A i \in 1..K : new[i] = ancestors'[q][i]
          BY <4>1, <5>2 DEF Ids
        <5>4. ancestors'[e] \in Seq(Ids) /\ Len(ancestors'[e]) = K + 1 /\ K >= M
          <6>1. ancestors'[e] \in Seq(Ids) /\ Len(ancestors'[e]) = M + Len(ancestors[e]) - L
            BY <1>6, <4>3
          <6>2. K = M + Len(ancestors[q]) - L /\ L <= Len(ancestors[q]) /\ Len(ancestors[q]) \in Nat
            BY <1>3, <4>1, <5>2
          <6> HIDE DEF K
          <6> QED
            BY <1>2, <1>4, <5>1, <6>1, <6>2
        <5> HIDE DEF new, K
        <5>5. ASSUME NEW i \in 1..K + 1 PROVE ancestors'[e][i] = new[i]
          <6>1. CASE i <= M
            BY <1>2, <1>6, <4>3, <5>2, <5>3, <5>4, <6>1
          <6>2. CASE i > M /\ i <= K
            <7>1. i \in M + 1..Len(ancestors'[q]) /\ i \in M + 1..Len(ancestors'[e]) /\ i \in 1..K
              BY <1>2, <5>3, <5>4, <6>2 DEF K
            <7>2. ancestors'[e][i] = ancestors[e][i - M + L] /\ new[i] = ancestors[q][i - M + L]
              BY <1>6, <4>3, <5>2, <5>3, <7>1
            <7>3. i - M + L \in 1..Len(ancestors[q])
              BY <1>2, <1>3, <1>4, <4>1, <5>2, <5>3, <6>2 DEF K
            <7> QED
              BY <5>1, <7>2, <7>3
          <6>3. CASE i = K + 1
            <7>0. K = M + Len(ancestors[q]) - L /\ Len(ancestors[q]) \in Nat /\ M \in Nat /\ L \in Nat
              BY <1>2, <1>3, <1>4, <4>1, <5>2 DEF K
            <7>1. i \in M + 1..Len(ancestors'[e]) /\ i - M + L = Len(ancestors[q]) + 1
              BY <5>3, <5>4, <6>3, <7>0
            <7>2. ancestors'[e][i] = ancestors[e][i - M + L]
              BY <1>6, <4>3, <7>1
            <7> QED
              BY <5>1, <5>3, <6>3, <7>1, <7>2
          <6> QED
            BY <1>2, <5>3, <6>1, <6>2, <6>3
        <5>6. ancestors'[e] = new
          BY <5>3, <5>4, <5>5, SeqEqual
        <5> QED
          BY <3>1, <3>4, <5>6 DEF new
      <4> QED
        BY <1>7, <2>2, <4>2, <4>3
    <3> QED BY <3>3, <3>4
  <2> QED BY <2>1, <2>2
<1>12. Paths'
  <2>1. ASSUME NEW e \in Depts, NEW c \in Depts, NEW i \in 1..Len(ancestors'[e]), ancestors'[e][i] = c,
               Born(c), i = Len(ancestors'[c]) + 1,
               \A k \in 1..Len(ancestors'[c]) : ancestors'[e][k] = ancestors'[c][k]
        PROVE  Placed(c, e, i)'
    <3>1. Len(ancestors'[c]) \in Nat /\ Len(ancestors'[e]) \in Nat
      BY <1>10 DEF TreeTypeOK
    <3>2. Len(ancestors'[c]) < Len(ancestors'[e])
      BY <2>1, <3>1
    <3> QED
      BY <1>8, <2>1, <3>2 DEF Placed, Starts
  \* The part of a path that d has brought.
  <2>2. ASSUME NEW e \in Depts, NEW c \in Depts, NEW i \in 1..Len(ancestors'[e]), ancestors'[e][i] = c,
               i \in 1..M, \A k \in 1..M : ancestors'[e][k] = path[k]
        PROVE  Placed(c, e, i)'
    <3>1. Allowed(c, i)
      BY <1>2, <2>2
    <3>2. /\ Live(c) /\ i = Len(ancestors[c]) + 1 /\ ancestors'[c] = ancestors[c]
          /\ \A k \in 1..Len(ancestors[c]) : path[k] = ancestors[c][k]
      BY <1>5, <3>1 DEF Allowed
    <3>3. Len(ancestors[c]) \in Nat /\ Len(ancestors[c]) < M
      BY <1>2, <1>3, <2>2, <3>2
    <3>4. \A k \in 1..Len(ancestors[c]) : k \in 1..M
      BY <1>2, <3>3
    <3>5. \A k \in 1..Len(ancestors'[c]) : ancestors'[e][k] = ancestors'[c][k]
      BY <2>2, <3>2, <3>4
    <3> QED
      BY <2>1, <2>2, <3>2, <3>5 DEF Live, Born
  <2> SUFFICES ASSUME NEW e \in Depts, NEW i \in 1..Len(ancestors'[e])
               PROVE  /\ i > 1 => ancestors'[e][i] \in Depts
                      /\ \A c \in Depts : ancestors'[e][i] = c => Placed(c, e, i)'
    BY DEF Paths
  <2>3. CASE e = d
    BY <1>2, <1>4, <2>2, <2>3
  <2>4. CASE Apart(d, e)
    <3>1. ancestors'[e] = ancestors[e] /\ (i > 1 => ancestors[e][i] \in Depts)
      BY <1>5, <2>4 DEF TreeInv, Paths
    <3>2. ASSUME NEW c \in Depts, ancestors[e][i] = c PROVE Placed(c, e, i)'
      <4>1. Placed(c, e, i)
        BY <3>1, <3>2 DEF TreeInv, Paths
      <4>2. FindInSet(c, ancestors[e])
        BY <1>3, <3>1, <3>2 DEF FindInSet
      <4>3. ancestors'[c] = ancestors[c]
        BY <1>5, <1>9, <2>4, <4>2
      <4> QED
        BY <2>1, <3>1, <3>2, <4>1, <4>3 DEF Placed, Starts
    <3> QED
      BY <3>1, <3>2
  <2>5. CASE Beneath(e) /\ i <= M
    <3>1. i \in 1..M /\ \A k \in 1..M : ancestors'[e][k] = path[k]
      BY <1>2, <1>6, <2>5
    <3> QED
      BY <1>2, <2>2, <3>1
  <2>6. CASE Beneath(e) /\ i > M
    <3> DEFINE j == i - M + L
    <3>1. /\ ancestors[e] \in Seq(Ids) /\ Len(ancestors[e]) \in Nat
          /\ Len(ancestors'[e]) = M + Len(ancestors[e]) - L /\ L < Len(ancestors[e])
          /\ ancestors[e][L + 1] = d
      BY <1>3, <1>6, <2>6
    <3>2. i \in M + 1..Len(ancestors'[e]) /\ j \in L + 1..Len(ancestors[e]) /\ j \in 1..Len(ancestors[e])
      BY <1>2, <1>4, <2>6, <3>1
    <3>3. ancestors'[e][i] = ancestors[e][j]
      BY <1>6, <2>6, <3>2
    <3>4. j = i - M + L
      OBVIOUS
    <3> HIDE DEF j
    <3>5. ancestors[e][j] \in Depts
      <4>1. CASE j = L + 1
        BY <3>1, <4>1
      <4>2. CASE j > L + 1
        <5>1. j > 1
          BY <1>4, <3>2, <4>2
        <5> QED
          BY <3>2, <5>1 DEF TreeInv, Paths
      <4> QED
        BY <1>4, <3>2, <4>1, <4>2
    <3>6. ASSUME NEW c \in Depts, ancestors[e][j] = c PROVE Placed(c, e, i)'
      <4>1. /\ Born(c) /\ j = Len(ancestors[c]) + 1
            /\ \A k \in 1..Len(ancestors[c]) : ancestors[e][k] = ancestors[c][k]
        BY <3>2, <3>6 DEF TreeInv, Paths, Placed, Starts
      <4>2. CASE c = d
        <5>1. i = M + 1
          BY <1>2, <1>4, <3>4, <4>1, <4>2
        <5>2. \A k \in 1..M : ancestors'[e][k] = path[k]
          BY <1>6, <2>6
        <5> QED
          BY <1>4, <2>1, <3>3, <3>6, <4>1, <4>2, <5>1, <5>2
      <4>3. CASE c # d
        <5>1. Len(ancestors[c]) \in Nat /\ L + 1 \in 1..Len(ancestors[c])
          BY <1>3, <1>4, <3>1, <3>2, <3>6, <4>1, <4>3
        <5>2. FindInSet(d, ancestors[c])
          <6>1. ancestors[c][L + 1] = d
            BY <3>1, <4>1, <5>1
          <6> QED
            BY <1>3, <5>1, <6>1 DEF FindInSet
        <5>3. Beneath(c)
          BY <1>7, <4>3, <5>2
        <5>4. /\ Len(ancestors'[c]) = M + Len(ancestors[c]) - L
              /\ \A k \in 1..M : ancestors'[c][k] = path[k]
              /\ \A k \in M + 1..Len(ancestors'[c]) : ancestors'[c][k] = ancestors[c][k - M + L]
          BY <1>6, <5>3, Zenon
        <5>5. i = Len(ancestors'[c]) + 1
          <6>1. M \in Nat /\ L \in Nat /\ j \in Nat
            BY <1>2, <1>4, <3>1, <3>2
          <6>2. i \in Nat
            BY <1>10 DEF TreeTypeOK
          <6>3. Len(ancestors'[c]) = M + Len(ancestors[c]) - L
            BY <5>4
          <6>4. j = Len(ancestors[c]) + 1 /\ Len(ancestors[c]) \in Nat
            BY <4>1, <5>1
          <6> QED
            BY <3>4, <6>1, <6>2, <6>3, <6>4
        <5>6. \A k \in 1..Len(ancestors'[c]) : ancestors'[e][k] = ancestors'[c][k]
          <6> TAKE k \in 1..Len(ancestors'[c])
          <6>1. CASE k \in 1..M
            BY <1>6, <2>6, <5>4, <6>1
          <6>2. CASE k \in M + 1..Len(ancestors'[c])
            <7>1. k \in M + 1..Len(ancestors'[e]) /\ k - M + L \in 1..Len(ancestors[c])
              <8>1. M \in Nat /\ L \in Nat /\ i \in Int
                BY <1>2, <1>4, <3>1, <3>2
              <8>2. Len(ancestors'[c]) \in Nat /\ Len(ancestors[c]) \in Nat /\ Len(ancestors'[e]) \in Nat
                BY <1>10, <5>1 DEF TreeTypeOK
              <8>3. i = Len(ancestors'[c]) + 1 /\ i <= Len(ancestors'[e])
                BY <5>5
              <8>4. k \in Int /\ M + 1 <= k /\ k <= Len(ancestors'[c])
                BY <6>2, <8>1, <8>2
              <8>5. k - M + L \in 1..Len(ancestors[c])
                BY <5>4, <8>1, <8>2, <8>4
              <8>6. k \in M + 1..Len(ancestors'[e])
                BY <8>1, <8>2, <8>3, <8>4
              <8> QED
                BY <8>5, <8>6
            <7>2. ancestors'[e][k] = ancestors[e][k - M + L] /\ ancestors'[c][k] = ancestors[c][k - M + L]
              BY <1>6, <2>6, <5>4, <6>2, <7>1
            <7> QED
              BY <4>1, <7>1, <7>2
          <6>3. k \in 1..M \/ k \in M + 1..Len(ancestors'[c])
            BY <1>2, <1>4, <5>1, <5>4
          <6> QED
            BY <6>1, <6>2, <6>3
        <5> QED
          BY <2>1, <3>3, <3>6, <4>1, <5>5, <5>6
      <4> QED
        BY <4>2, <4>3
    <3> QED
      BY <3>3, <3>5, <3>6
  <2>7. i <= M \/ i > M
    BY <1>2, <1>10 DEF TreeTypeOK
  <2> QED
    BY <1>7, <2>3, <2>4, <2>5, <2>6, <2>7
<1>13. BranchesInUse'
  <2>1. ASSUME NEW c \in Depts, FindInSet(c, path) PROVE Live(c) /\ Apart(d, c)
    BY <1>2, <1>4, <2>1 DEF FindInSet, Allowed
  <2>2. ASSUME NEW x \in Depts, NEW c \in Depts, FindInSet(x, path), FindInSet(c, ancestors[x])
        PROVE  FindInSet(c, path)
    <3>1. PICK i \in 1..M : path[i] = x
      BY <1>2, <1>4, <2>2 DEF FindInSet
    <3>2. PICK k \in 1..Len(ancestors[x]) : ancestors[x][k] = c
      BY <1>3, <2>2 DEF FindInSet
    <3>3. path[k] = c /\ i = Len(ancestors[x]) + 1
      BY <1>2, <3>1, <3>2 DEF Allowed
    <3>4. k \in 1..Len(path)
      BY <1>2, <1>3, <1>4, <3>1, <3>2, <3>3
    <3> QED
      BY <1>2, <3>3, <3>4 DEF FindInSet
  <2>3. ASSUME NEW x \in Depts, NEW c \in Depts, Beneath(x), FindInSet(c, ancestors'[x])
        PROVE  FindInSet(c, path) \/ FindInSet(c, ancestors[x])
    <3>1. PICK i \in 1..Len(ancestors'[x]) : ancestors'[x][i] = c
      BY <1>6, <2>3 DEF FindInSet
    <3>2. CASE i <= M
      <4>1. i \in 1..Len(path) /\ path[i] = c
        BY <1>2, <1>4, <1>6, <2>3, <3>1, <3>2
      <4> QED
        BY <1>2, <4>1 DEF FindInSet
    <3>3. CASE i > M
      <4>1. i \in M + 1..Len(ancestors'[x]) /\ i - M + L \in 1..Len(ancestors[x])
        BY <1>2, <1>3, <1>4, <1>6, <2>3, <3>1, <3>3
      <4>2. ancestors[x][i - M + L] = c
        BY <1>6, <2>3, <3>1, <4>1
      <4> QED
        BY <1>3, <4>1, <4>2 DEF FindInSet
    <3> QED
      BY <1>2, <3>1, <3>2, <3>3
  <2>4. /\ Normal(d)' <=> s = "normal"
        /\ \A e \in Depts \ {d} : Normal(e)' <=> Normal(e) \/ (s = "normal" /\ FindInSet(e, path))
    BY <1>1 DEF EnabledAbove, Normal
  <2> SUFFICES ASSUME NEW x \in Depts, NEW c \in Depts, Live(x), FindInSet(c, ancestors'[x])
               PROVE  Live(c) /\ (Two /\ Normal(x)' => Normal(c)')
    BY <1>8, <1>10 DEF BranchesInUse, Two
  <2>5. CASE x = d
    BY <1>4, <2>1, <2>4, <2>5 DEF Apart
  <2>6. CASE Apart(d, x)
    <3>1. FindInSet(c, ancestors[x]) /\ c # d /\ x # d
      BY <1>5, <1>9, <2>6 DEF Apart
    <3>2. Live(c) /\ (Two /\ Normal(x) => Normal(c))
      BY <3>1 DEF TreeInv, BranchesInUse, Two
    <3> QED
      BY <2>2, <2>4, <3>1, <3>2
  <2>7. CASE Beneath(x)
    <3>1. x # d /\ FindInSet(d, ancestors[x]) /\ ~FindInSet(x, path)
      BY <1>7, <2>1, <2>7 DEF Apart
    <3>2. Two /\ Normal(x)' => Normal(x) /\ s = "normal"
      BY <1>1, <2>4, <3>1 DEF HasNormalBelow, Two
    <3>3. FindInSet(c, ancestors[x]) => Live(c) /\ (Two /\ Normal(x) => Normal(c))
      BY DEF TreeInv, BranchesInUse, Two
    <3>4. FindInSet(c, path) => Live(c) /\ c # d
      BY <2>1 DEF Apart
    <3> QED
      BY <2>3, <2>4, <2>7, <3>2, <3>3, <3>4
  <2> QED
    BY <1>7, <2>5, <2>6, <2>7
<1> QED
  BY <1>10, <1>11, <1>12, <1>13 DEF TreeInv

LEMMA DeleteKeeps ==
    ASSUME TreeInv, NEW user, NEW d \in Depts, DeleteDept(user, d)
    PROVE  TreeInv'
<1>1. /\ Born(d) /\ state' = [state EXCEPT ![d] = "deleted"] /\ UNCHANGED <<parent, ancestors, status, operator>>
      /\ \A e \in Depts : Live(e) => ~FindInSet(d, ancestors[e])
  BY ChildBetween DEF DeleteDept, MayUse, Live, Born
<1>2. \A e \in Depts : (Born(e)' <=> Born(e)) /\ (Live(e)' <=> Live(e) /\ e # d)
  BY <1>1 DEF Born, Live, TreeInv, TreeTypeOK
<1>3. TreeTypeOK'
  BY <1>1 DEF TreeInv, TreeTypeOK
<1>4. Links' /\ Paths'
  BY <1>1, <1>2 DEF TreeInv, Links, Paths, Placed, Starts
<1>5. BranchesInUse'
  BY <1>1, <1>2 DEF TreeInv, BranchesInUse, Two, Normal, Live, FindInSet
<1> QED
  BY <1>3, <1>4, <1>5 DEF TreeInv

LEMMA TreeStep == TreeInv /\ [TreeNext]_treeVars => TreeInv'
<1> SUFFICES ASSUME TreeInv, [TreeNext]_treeVars PROVE TreeInv'
  OBVIOUS
<1>1. CASE UNCHANGED treeVars
  BY <1>1 DEF treeVars, TreeInv, TreeTypeOK, Links, Paths, BranchesInUse, Two, Placed, Starts, Born, Live, Normal, FindInSet
<1>2. ASSUME NEW user, NEW d \in Depts, NEW p \in Depts, NEW s \in Statuses, CreateDept(user, d, p, s)
      PROVE  TreeInv'
  BY <1>2, CreateKeeps
<1>3. ASSUME NEW user, NEW d \in Depts, NEW p \in Depts \cup {Top}, NEW s \in Statuses, UpdateDept(user, d, p, s)
      PROVE  TreeInv'
  BY <1>3, UpdateKeeps
<1>4. ASSUME NEW user, NEW d \in Depts, DeleteDept(user, d) PROVE TreeInv'
  BY <1>4, DeleteKeeps
<1> QED
  <2>1. CASE TreeNext
    <3>1. PICK user \in Acting, d \in Depts :
            \/ \E p \in Depts, s \in Statuses : CreateDept(user, d, p, s)
            \/ \E p \in Depts \cup {Top}, s \in Statuses : UpdateDept(user, d, p, s)
            \/ DeleteDept(user, d)
      BY <2>1, Zenon DEF TreeNext
    <3> QED
      BY <3>1, <1>2, <1>3, <1>4
  <2> QED
    BY <1>1, <2>1

THEOREM TreeInvariant == TreeSpec => []TreeInv
  BY InitialTree, TreeStep, PTL DEF TreeSpec

\* After any operations on the departments, moves of whole branches included,
\* the path that the data scopes read is the one the links give
\* (UpdateDept with rebuildChildrenAncestors).
THEOREM PathsFollowParentsAlways == TreeSpec => []PathsFollowParents
<1>1. TreeInv => PathsFollowParents
  BY DEF TreeInv, Links, PathsFollowParents
<1> QED
  BY <1>1, TreeInvariant, PTL

\* What is above a live department is live, above an enabled one enabled.
THEOREM BranchesInUseAlways == TreeSpec => []BranchesInUse
<1>1. TreeInv => BranchesInUse
  BY DEF TreeInv
<1> QED
  BY <1>1, TreeInvariant, PTL

-----------------------------------------------------------------------------
(* What an operator sees.                                                  *)

\* What is above a set of departments, in one step.
UpFrom == [X \in SUBSET Ids |-> {parent[e] : e \in X \ {Top}}]

\* To climb from d is to find the least set that has d and what is above its members.
LEMMA ClimbedLeast ==
    ASSUME TreeTypeOK, NEW d \in Depts PROVE LeastAbove(Climbed(d), {d}, Ids, UpFrom)
<1> DEFINE steps == Cardinality(Depts)
           Grown(climb) == climb = [n \in 0..steps |->
                IF n = 0 THEN {d} ELSE climb[n - 1] \cup {parent[e] : e \in climb[n - 1] \ {Top}}]
           climb == CHOOSE c : Grown(c)
           up == UpFrom
<1>1. \A X \in SUBSET Ids : {parent[e] : e \in X \ {Top}} \in SUBSET Ids
  BY DEF TreeTypeOK, Ids
<1>2. /\ up \in [SUBSET Ids -> SUBSET Ids] /\ up[{}] = {}
      /\ \A X \in SUBSET Ids : up[X] = {parent[e] : e \in X \ {Top}}
  BY <1>1 DEF UpFrom
<1>3. steps \in Nat /\ IsFiniteSet(Ids) /\ Cardinality(Ids) <= steps + 1 /\ {d} \in SUBSET Ids
  <2>1. IsFiniteSet(Depts) /\ Top \notin Depts /\ steps \in Nat
    BY TopAssumption, FS_CardinalityType
  <2>2. IsFiniteSet(Depts \cup {Top}) /\ Cardinality(Depts \cup {Top}) = steps + 1
    BY <2>1, FS_AddElement
  <2> QED
    BY <2>1, <2>2 DEF Ids
<1> HIDE DEF up, steps
<1>4. ASSUME NEW c, \A n \in 0..steps : n # 0 => c[n - 1] \in SUBSET Ids
      PROVE  Climbs(c, {d}, up, steps) <=> Grown(c)
  <2>1. \A n \in 0..steps : n # 0 => up[c[n - 1]] = {parent[e] : e \in c[n - 1] \ {Top}}
    BY <1>2, <1>4
  <2>2. [n \in 0..steps |-> IF n = 0 THEN {d} ELSE c[n - 1] \cup up[c[n - 1]]]
        = [n \in 0..steps |-> IF n = 0 THEN {d} ELSE c[n - 1] \cup {parent[e] : e \in c[n - 1] \ {Top}}]
    BY <2>1
  <2> QED
    BY <2>2 DEF Climbs
<1>5. \E c : Grown(c)
  <2>1. PICK c \in [0..steps -> SUBSET Ids] : Climbs(c, {d}, up, steps)
    BY <1>2, <1>3, ClimbExists
  <2>2. \A n \in 0..steps : n # 0 => c[n - 1] \in SUBSET Ids
    BY <1>3, <2>1
  <2> QED
    BY <1>4, <2>1, <2>2
<1>6. Grown(climb)
  <2> HIDE DEF Grown
  <2> QED
    BY <1>5, Zenon
<1>7. Climbed(d) = climb[steps]
  BY Zenon DEF Climbed, steps
<1> HIDE DEF climb
<1> DEFINE Within == {n \in Nat : n <= steps => climb[n] \in SUBSET Ids}
<1>8. Nat \subseteq Within
  <2>1. \A n \in 0..steps :
          climb[n] = IF n = 0 THEN {d} ELSE climb[n - 1] \cup {parent[e] : e \in climb[n - 1] \ {Top}}
    BY <1>6
  <2>2. 0 \in Within
    <3>1. 0 \in 0..steps
      BY <1>3
    <3>2. climb[0] = IF 0 = 0 THEN {d} ELSE climb[0 - 1] \cup {parent[e] : e \in climb[0 - 1] \ {Top}}
      BY <2>1, <3>1, Zenon
    <3>3. climb[0] = {d}
      BY <3>2, Zenon
    <3> QED
      BY <1>3, <3>3
  <2>3. ASSUME NEW n \in Nat, n \in Within PROVE n + 1 \in Within
    <3>1. SUFFICES ASSUME n + 1 <= steps PROVE climb[n + 1] \in SUBSET Ids
      BY <2>3
    <3>2. n + 1 \in 0..steps /\ n + 1 # 0 /\ (n + 1) - 1 = n /\ climb[n] \in SUBSET Ids
      BY <1>3, <2>3, <3>1
    <3>3. climb[n + 1] = climb[n] \cup {parent[e] : e \in climb[n] \ {Top}}
      BY <2>1, <3>2
    <3> QED
      BY <1>1, <3>2, <3>3
  <2> HIDE DEF Within
  <2> QED
    BY <2>2, <2>3, NatInduct
<1>9. Climbs(climb, {d}, up, steps)
  <2>1. \A n \in 0..steps : n # 0 => climb[n - 1] \in SUBSET Ids
    <3>1. \A n \in 0..steps : n # 0 => n - 1 \in Nat /\ n - 1 <= steps
      BY <1>3
    <3> QED
      BY <1>8, <3>1
  <2> QED
    BY <1>4, <1>6, <2>1
<1>10. LeastAbove(climb[steps], {d}, Ids, up)
  BY <1>2, <1>3, <1>9, ClimbCloses
<1> QED
  BY <1>7, <1>10, Zenon DEF up

\* Whatever has d and the parents of its members has the whole path of d.
LEMMA PathWithin ==
    ASSUME TreeInv, NEW d \in Depts, NEW C \in SUBSET Ids, d \in C, \A e \in C \ {Top} : parent[e] \in C,
           NEW id \in Ids, FindInSet(id, ancestors[d])
    PROVE  id \in C
<1> DEFINE L == Len(ancestors[d])
           Missed == {i \in 1..L : ancestors[d][i] \notin C}
<1>1. L \in Nat /\ DOMAIN ancestors[d] = 1..L
  BY DEF TreeInv, TreeTypeOK
<1>2. SUFFICES ASSUME Missed # {} PROVE FALSE
  BY <1>1 DEF FindInSet
<1>3. PICK i \in Missed : \A k \in Missed : k <= i
  <2>1. Missed \subseteq 0..L
    BY <1>1
  <2> HIDE DEF Missed, L
  <2> QED
    BY <1>1, <1>2, <2>1, NatMax
\* The last entry of the path of any department is its parent.
<1>4. ASSUME NEW e \in Depts
      PROVE  Len(ancestors[e]) \in Nat \ {0} /\ ancestors[e][Len(ancestors[e])] = parent[e]
  <2>1. CASE parent[e] = Top
    BY <2>1 DEF TreeInv, Links
  <2>2. CASE parent[e] # Top
    <3>1. Len(ancestors[parent[e]]) \in Nat
      BY <2>2, OneUp DEF TreeInv, TreeTypeOK
    <3> QED
      BY <2>2, <3>1, OneUp
  <2> QED
    BY <2>1, <2>2
<1>5. CASE i = L
  BY <1>3, <1>4, <1>5, TopAssumption
<1>6. CASE i < L
  <2> DEFINE e == ancestors[d][i + 1]
  <2>1. i + 1 \in 1..L /\ i + 1 > 1 /\ i + 1 \notin Missed
    BY <1>1, <1>3, <1>6
  <2>2. e \in C /\ e \in Depts
    BY <1>1, <2>1 DEF TreeInv, Paths
  <2>3. Placed(e, d, i + 1)
    BY <1>1, <2>1, <2>2 DEF TreeInv, Paths
  <2> HIDE DEF e
  <2>4. Len(ancestors[e]) = i
    BY <1>3, <1>4, <2>2, <2>3 DEF Placed
  <2>5. ancestors[d][i] = parent[e]
    BY <1>3, <1>4, <2>2, <2>3, <2>4 DEF Placed, Starts
  <2> QED
    BY <1>3, <2>2, <2>5, TopAssumption
<1> QED
  BY <1>1, <1>3, <1>5, <1>6

\* The path, which the queries read, says what climbing the links says.
LEMMA PathIsClimb ==
    ASSUME TreeInv, NEW d \in Depts, NEW id \in Ids
    PROVE  id \in Climbed(d) <=> id = d \/ FindInSet(id, ancestors[d])
<1> DEFINE T == {e \in Ids : e = d \/ FindInSet(e, ancestors[d])}
<1>1. LeastAbove(Climbed(d), {d}, Ids, UpFrom)
  BY ClimbedLeast DEF TreeInv
<1>2. /\ Climbed(d) \in SUBSET Ids /\ d \in Climbed(d) /\ UpFrom[Climbed(d)] \subseteq Climbed(d)
      /\ \A R : {d} \subseteq R /\ HasAbove(R, Ids, UpFrom) => Climbed(d) \subseteq R
  BY <1>1 DEF LeastAbove
<1>3. \A e \in Climbed(d) \ {Top} : parent[e] \in Climbed(d)
  <2>1. UpFrom[Climbed(d)] = {parent[e] : e \in Climbed(d) \ {Top}}
    BY <1>2 DEF UpFrom
  <2> QED
    BY <1>2, <2>1
<1>4. ASSUME NEW e \in T \ {Top} PROVE parent[e] \in T
  <2>1. e \in Depts /\ parent[e] \in Ids
    BY <1>4 DEF Ids, TreeInv, TreeTypeOK
  <2>2. FindInSet(parent[e], ancestors[e])
    <3>1. CASE parent[e] = Top
      <4>1. ancestors[e] = <<Top>>
        BY <2>1, <3>1 DEF TreeInv, Links
      <4> QED
        BY <3>1, <4>1 DEF FindInSet
    <3>2. CASE parent[e] # Top
      BY <2>1, <3>2, OneUp
    <3> QED
      BY <3>1, <3>2
  <2>3. CASE e = d
    BY <2>1, <2>2, <2>3
  <2>4. CASE FindInSet(e, ancestors[d])
    <3>1. Starts(e, d) /\ ancestors[e] \in Seq(Ids) /\ ancestors[d] \in Seq(Ids)
      BY <2>1, <2>4, InPath DEF TreeInv, TreeTypeOK, Ids
    <3>2. PICK i \in 1..Len(ancestors[e]) : ancestors[e][i] = parent[e]
      BY <2>2, <3>1 DEF FindInSet
    <3>3. ancestors[d][i] = parent[e] /\ i \in 1..Len(ancestors[d])
      BY <3>1, <3>2 DEF Starts
    <3> QED
      BY <2>1, <3>1, <3>3 DEF FindInSet
  <2> QED
    BY <1>4, <2>3, <2>4
<1>5. HasAbove(T, Ids, UpFrom)
  <2>1. \A X \in SUBSET Ids : UpFrom[X] = {parent[e] : e \in X \ {Top}}
    BY DEF UpFrom
  <2> HIDE DEF T
  <2> QED
    BY <1>4, <2>1 DEF HasAbove
<1>6. Climbed(d) \subseteq T
  BY <1>2, <1>5 DEF Ids
<1>7. ASSUME FindInSet(id, ancestors[d]) PROVE id \in Climbed(d)
  BY <1>2, <1>3, <1>7, PathWithin
<1> QED
  BY <1>2, <1>6, <1>7

\* One role of the operator, as the query and as the promise put it.
LEMMA ClausePromised ==
    ASSUME TreeInv, NEW role \in operator.roles, role.normal, role.permitted
    PROVE  /\ role \in Role /\ operator.dept \in Ids
           /\ \A d : d \in Clause(operator, role) <=>
                /\ d \in Depts
                /\ \/ role.scope = "all"
                   \/ role.scope = "custom" /\ d \in role.depts
                   \/ role.scope = "dept" /\ d = operator.dept
                   \/ role.scope = "below" /\ operator.dept \in Climbed(d)
<1>1. role \in Role /\ operator.dept \in Ids
  BY DEF TreeInv, TreeTypeOK, User, Ids
<1>2. role.scope \in {"all", "custom", "dept", "below", "self"} /\ role.depts \subseteq Depts
  BY <1>1 DEF Role
<1>3. \A d : d \in Below(operator) <=> d \in Depts /\ operator.dept \in Climbed(d)
  BY <1>1, PathIsClimb DEF Below
<1>4. CASE role.scope = "below"
  BY <1>1, <1>3, <1>4 DEF Clause
<1>5. CASE role.scope # "below"
  BY <1>1, <1>2, <1>5 DEF Clause
<1> QED
  BY <1>4, <1>5

LEMMA ScopeFromPaths == ASSUME TreeInv PROVE ScopeAsPromised
<1> DEFINE live == {d \in Depts : Live(d)}
           shown == Promised(operator) \cap live
<1> SUFFICES ASSUME ~operator.admin
             PROVE  /\ Visible(operator) \cap live = shown
                    /\ {d \in live \cup {Top} : UserVisible(operator, d, FALSE)}
                         = IF PromisedAll(operator) THEN live \cup {Top} ELSE shown
                    /\ UserVisible(operator, operator.dept, TRUE) <=>
                         operator.dept \in Promised(operator) \/
                         \E role \in Effective(operator) : role.scope \in {"all", "self"}
                    /\ \A holders \in SUBSET live :
                         RoleVisible(operator, holders) <=> holders \cap shown # {} \/ PromisedAll(operator)
  BY DEF ScopeAsPromised
<1>1. \A d : d \in Promised(operator) <=> \E role \in Effective(operator) : d \in Clause(operator, role)
  <2>1. ASSUME NEW d PROVE d \in Promised(operator) <=> \E role \in Effective(operator) : d \in Clause(operator, role)
    BY ClausePromised DEF Promised, Effective
  <2> QED
    BY <2>1
<1>2. Visible(operator) = Promised(operator)
  BY <1>1 DEF Visible
<1>3. Promised(operator) \subseteq Depts /\ Top \notin Promised(operator)
  BY TopAssumption DEF Promised
<1>4. \A d, own : UserVisible(operator, d, own) <=>
          d \in Promised(operator) \/ PromisedAll(operator) \/ \E role \in Effective(operator) : role.scope = "self" /\ own
  BY <1>1 DEF UserVisible, PromisedAll
<1>5. \A d : UserVisible(operator, d, FALSE) <=> d \in Promised(operator) \/ PromisedAll(operator)
  BY <1>4
<1>6. PromisedAll(operator) => live \subseteq Promised(operator)
  BY DEF PromisedAll, Promised, Effective
<1>7. {d \in live \cup {Top} : UserVisible(operator, d, FALSE)}
         = IF PromisedAll(operator) THEN live \cup {Top} ELSE shown
  BY <1>3, <1>5
<1>8. UserVisible(operator, operator.dept, TRUE) <=>
         operator.dept \in Promised(operator) \/ \E role \in Effective(operator) : role.scope \in {"all", "self"}
  BY <1>4 DEF PromisedAll
<1>9. \A holders \in SUBSET live :
         RoleVisible(operator, holders) <=> holders \cap shown # {} \/ PromisedAll(operator)
  BY <1>3, <1>5 DEF RoleVisible
<1> QED
  BY <1>2, <1>7, <1>8, <1>9

\* An operator sees the departments, users and roles that its roles promise by the
\* links of the tree (CONVENTIONS.md:564), though the queries read the stored paths
\* (datascope.go:112, datascope.go:177), after any operations on the departments.
THEOREM ScopeAlwaysAsPromised == TreeSpec => []ScopeAsPromised
<1>1. TreeInv => ScopeAsPromised
  BY ScopeFromPaths
<1> QED
  BY <1>1, TreeInvariant, PTL

-----------------------------------------------------------------------------
(***************************************************************************)
(* The menus (MenuRoutes).  Any set of rows has one whose parent is not in *)
(* it: then they are trees, and whoever climbs or descends meets all he    *)
(* should and nothing twice.  A row that moves is not on the way up from   *)
(* its new parent, which keeps that true.                                  *)
(***************************************************************************)
MenuOrRoot == MenuIds \cup {MenuRoot}

\* Rows that have a parent that is there or the root, and no loops: any menus have
\* one among them whose parent is none of them.
MenusLinked == \A id \in Rows : Parent(id) \in Rows \cup {MenuRoot}
MenusForest == \A S \in SUBSET Rows : S # {} => \E id \in S : Parent(id) \notin S

MenuTreeInv == Rows \subseteq MenuIds /\ MenusLinked /\ MenusForest

\* To climb is to find the least set that goes all the way up.
LEMMA AncestryIs ==
    ASSUME MenuTreeInv, NEW p \in MenuOrRoot
    PROVE  /\ Ancestry(p) \in SUBSET MenuOrRoot /\ p \in Ancestry(p)
           /\ \A id \in Ancestry(p) \cap Rows : Parent(id) \in Ancestry(p)
           /\ \A T \in SUBSET MenuOrRoot :
                 p \in T /\ (\A id \in T \cap Rows : Parent(id) \in T) => Ancestry(p) \subseteq T
<1> DEFINE up == [X \in SUBSET MenuOrRoot |-> ParentsOf(X)]
           steps == Cardinality(MenuIds) + 1
           Grown(climb) == climb = [n \in 0..steps |->
                                      IF n = 0 THEN {p} ELSE climb[n - 1] \cup ParentsOf(climb[n - 1])]
           climb == CHOOSE c : Grown(c)
<1>1. \A X : ParentsOf(X) \in SUBSET MenuOrRoot
  BY DEF ParentsOf, MenuTreeInv, MenusLinked, MenuOrRoot
<1>2. up \in [SUBSET MenuOrRoot -> SUBSET MenuOrRoot] /\ up[{}] = {} /\ \A X \in SUBSET MenuOrRoot : up[X] = ParentsOf(X)
  BY <1>1 DEF ParentsOf
<1>3. /\ steps \in Nat /\ IsFiniteSet(MenuOrRoot) /\ Cardinality(MenuOrRoot) <= steps + 1
      /\ {p} \in SUBSET MenuOrRoot
  <2>1. IsFiniteSet(MenuIds) /\ MenuRoot \notin MenuIds /\ Cardinality(MenuIds) \in Nat
    BY MenusAssumption, FS_CardinalityType
  <2>2. IsFiniteSet(MenuIds \cup {MenuRoot}) /\ Cardinality(MenuIds \cup {MenuRoot}) = Cardinality(MenuIds) + 1
    BY <2>1, FS_AddElement
  <2>3. steps \in Nat /\ Cardinality(MenuIds) + 1 <= steps + 1
    BY <2>1
  <2> QED
    BY <2>2, <2>3 DEF MenuOrRoot
<1> HIDE DEF up, steps
<1>4. ASSUME NEW c, \A n \in 0..steps : n # 0 => c[n - 1] \in SUBSET MenuOrRoot
      PROVE  Climbs(c, {p}, up, steps) <=> Grown(c)
  <2>1. \A n \in 0..steps : n # 0 => up[c[n - 1]] = ParentsOf(c[n - 1])
    BY <1>2, <1>4
  <2>2. [n \in 0..steps |-> IF n = 0 THEN {p} ELSE c[n - 1] \cup up[c[n - 1]]]
        = [n \in 0..steps |-> IF n = 0 THEN {p} ELSE c[n - 1] \cup ParentsOf(c[n - 1])]
    BY <2>1
  <2> QED
    BY <2>2 DEF Climbs
<1>5. \E c : Grown(c)
  <2>1. PICK c \in [0..steps -> SUBSET MenuOrRoot] : Climbs(c, {p}, up, steps)
    BY <1>2, <1>3, ClimbExists
  <2>2. \A n \in 0..steps : n # 0 => c[n - 1] \in SUBSET MenuOrRoot
    BY <1>3, <2>1
  <2> QED
    BY <1>4, <2>1, <2>2
<1>6. Grown(climb)
  <2> HIDE DEF Grown
  <2> QED
    BY <1>5, Zenon
<1>7. Ancestry(p) = climb[steps]
  BY Zenon DEF Ancestry, steps
<1> HIDE DEF climb
<1> DEFINE Within == {n \in Nat : n <= steps => climb[n] \in SUBSET MenuOrRoot}
<1>8. Nat \subseteq Within
  <2>1. \A n \in 0..steps : climb[n] = IF n = 0 THEN {p} ELSE climb[n - 1] \cup ParentsOf(climb[n - 1])
    BY <1>6
  <2>2. 0 \in Within
    <3>1. 0 \in 0..steps
      BY <1>3
    <3>2. climb[0] = IF 0 = 0 THEN {p} ELSE climb[0 - 1] \cup ParentsOf(climb[0 - 1])
      BY <2>1, <3>1, Zenon
    <3>3. climb[0] = {p}
      BY <3>2, Zenon
    <3> QED
      BY <1>3, <3>3
  <2>3. ASSUME NEW n \in Nat, n \in Within PROVE n + 1 \in Within
    <3>1. SUFFICES ASSUME n + 1 <= steps PROVE climb[n + 1] \in SUBSET MenuOrRoot
      BY <2>3
    <3>2. n + 1 \in 0..steps /\ n + 1 # 0 /\ (n + 1) - 1 = n /\ climb[n] \in SUBSET MenuOrRoot
      BY <1>3, <2>3, <3>1
    <3>3. climb[n + 1] = climb[n] \cup ParentsOf(climb[n])
      BY <2>1, <3>2
    <3> QED
      BY <1>1, <3>2, <3>3
  <2> HIDE DEF Within
  <2> QED
    BY <2>2, <2>3, NatInduct
<1>9. Climbs(climb, {p}, up, steps)
  <2>1. \A n \in 0..steps : n # 0 => climb[n - 1] \in SUBSET MenuOrRoot
    <3>1. \A n \in 0..steps : n # 0 => n - 1 \in Nat /\ n - 1 <= steps
      BY <1>3
    <3> QED
      BY <1>8, <3>1
  <2> QED
    BY <1>4, <1>6, <2>1
<1>10. LeastAbove(climb[steps], {p}, MenuOrRoot, up)
  BY <1>2, <1>3, <1>9, ClimbCloses
<1>11. \A T \in SUBSET MenuOrRoot : HasAbove(T, MenuOrRoot, up) <=> (\A id \in T \cap Rows : Parent(id) \in T)
  <2>1. \A T \in SUBSET MenuOrRoot : HasAbove(T, MenuOrRoot, up) => ParentsOf(T) \subseteq T
    BY <1>2 DEF HasAbove
  <2>2. \A T, X : X \subseteq T => ParentsOf(X) \subseteq ParentsOf(T)
    BY DEF ParentsOf
  <2>3. \A T \in SUBSET MenuOrRoot : ParentsOf(T) \subseteq T => HasAbove(T, MenuOrRoot, up)
    BY <1>2, <2>2 DEF HasAbove
  <2>4. \A T \in SUBSET MenuOrRoot : ParentsOf(T) \subseteq T <=> (\A id \in T \cap Rows : Parent(id) \in T)
    BY DEF ParentsOf
  <2> QED
    BY <2>1, <2>3, <2>4
<1>12. Ancestry(p) \in SUBSET MenuOrRoot /\ {p} \subseteq Ancestry(p) /\ up[Ancestry(p)] \subseteq Ancestry(p)
  BY <1>7, <1>10 DEF LeastAbove
<1> DEFINE C == Ancestry(p)
<1>13. \A id \in C \cap Rows : Parent(id) \in C
  <2>1. ParentsOf(C) \subseteq C
    BY <1>2, <1>12
  <2> HIDE DEF C
  <2> QED
    BY <2>1 DEF ParentsOf
<1>14. ASSUME NEW T \in SUBSET MenuOrRoot, {p} \subseteq T, (\A id \in T \cap Rows : Parent(id) \in T)
       PROVE  C \subseteq T
  <2>1. HasAbove(T, MenuOrRoot, up)
    BY <1>11, <1>14
  <2> QED
    BY <1>7, <1>10, <1>14, <2>1 DEF LeastAbove
<1> QED
  BY <1>12, <1>13, <1>14


\* To descend from tops is to find the least set that goes all the way down, as
\* far as the list has the menus.
LEMMA BelowIs ==
    ASSUME NEW list \in SUBSET MenuIds, NEW tops \in SUBSET list
    PROVE  /\ BelowMenu(list, tops) \in SUBSET list /\ tops \subseteq BelowMenu(list, tops)
           /\ \A id \in list : Parent(id) \in BelowMenu(list, tops) => id \in BelowMenu(list, tops)
           /\ \A T \in SUBSET list :
                 tops \subseteq T /\ (\A id \in list : Parent(id) \in T => id \in T) => BelowMenu(list, tops) \subseteq T
<1> DEFINE up == [X \in SUBSET list |-> ChildrenIn(list, X)]
           steps == Cardinality(MenuIds)
           Grown(climb) == climb = [n \in 0..steps |->
                                      IF n = 0 THEN tops ELSE climb[n - 1] \cup ChildrenIn(list, climb[n - 1])]
           climb == CHOOSE c : Grown(c)
<1>1. \A X : ChildrenIn(list, X) \in SUBSET list
  BY DEF ChildrenIn
<1>2. up \in [SUBSET list -> SUBSET list] /\ up[{}] = {} /\ \A X \in SUBSET list : up[X] = ChildrenIn(list, X)
  <2>1. ChildrenIn(list, {}) = {}
    BY DEF ChildrenIn
  <2> QED
    BY <1>1, <2>1
<1>3. steps \in Nat /\ IsFiniteSet(list) /\ Cardinality(list) <= steps + 1 /\ tops \in SUBSET list
  <2>1. IsFiniteSet(MenuIds) /\ steps \in Nat
    BY MenusAssumption, FS_CardinalityType
  <2>2. IsFiniteSet(list) /\ Cardinality(list) <= steps
    BY <2>1, FS_Subset
  <2>3. Cardinality(list) \in Nat
    BY <2>2, FS_CardinalityType
  <2>4. Cardinality(list) <= steps + 1
    BY <2>1, <2>2, <2>3
  <2> QED
    BY <2>1, <2>2, <2>4
<1> HIDE DEF up, steps
<1>4. ASSUME NEW c, \A n \in 0..steps : n # 0 => c[n - 1] \in SUBSET list
      PROVE  Climbs(c, tops, up, steps) <=> Grown(c)
  <2>1. \A n \in 0..steps : n # 0 => up[c[n - 1]] = ChildrenIn(list, c[n - 1])
    BY <1>2, <1>4
  <2>2. [n \in 0..steps |-> IF n = 0 THEN tops ELSE c[n - 1] \cup up[c[n - 1]]]
        = [n \in 0..steps |-> IF n = 0 THEN tops ELSE c[n - 1] \cup ChildrenIn(list, c[n - 1])]
    BY <2>1
  <2> QED
    BY <2>2 DEF Climbs
<1>5. \E c : Grown(c)
  <2>1. PICK c \in [0..steps -> SUBSET list] : Climbs(c, tops, up, steps)
    BY <1>2, <1>3, ClimbExists
  <2>2. \A n \in 0..steps : n # 0 => c[n - 1] \in SUBSET list
    BY <1>3, <2>1
  <2> QED
    BY <1>4, <2>1, <2>2
<1>6. Grown(climb)
  <2> HIDE DEF Grown
  <2> QED
    BY <1>5, Zenon
<1>7. BelowMenu(list, tops) = climb[steps]
  BY Zenon DEF BelowMenu, steps
<1> HIDE DEF climb
<1> DEFINE Within == {n \in Nat : n <= steps => climb[n] \in SUBSET list}
<1>8. Nat \subseteq Within
  <2>1. \A n \in 0..steps : climb[n] = IF n = 0 THEN tops ELSE climb[n - 1] \cup ChildrenIn(list, climb[n - 1])
    BY <1>6
  <2>2. 0 \in Within
    <3>1. 0 \in 0..steps
      BY <1>3
    <3>2. climb[0] = IF 0 = 0 THEN tops ELSE climb[0 - 1] \cup ChildrenIn(list, climb[0 - 1])
      BY <2>1, <3>1, Zenon
    <3>3. climb[0] = tops
      BY <3>2, Zenon
    <3> QED
      BY <1>3, <3>3
  <2>3. ASSUME NEW n \in Nat, n \in Within PROVE n + 1 \in Within
    <3>1. SUFFICES ASSUME n + 1 <= steps PROVE climb[n + 1] \in SUBSET list
      BY <2>3
    <3>2. n + 1 \in 0..steps /\ n + 1 # 0 /\ (n + 1) - 1 = n /\ climb[n] \in SUBSET list
      BY <1>3, <2>3, <3>1
    <3>3. climb[n + 1] = climb[n] \cup ChildrenIn(list, climb[n])
      BY <2>1, <3>2
    <3> QED
      BY <1>1, <3>2, <3>3
  <2> HIDE DEF Within
  <2> QED
    BY <2>2, <2>3, NatInduct
<1>9. Climbs(climb, tops, up, steps)
  <2>1. \A n \in 0..steps : n # 0 => climb[n - 1] \in SUBSET list
    <3>1. \A n \in 0..steps : n # 0 => n - 1 \in Nat /\ n - 1 <= steps
      BY <1>3
    <3> QED
      BY <1>8, <3>1
  <2> QED
    BY <1>4, <1>6, <2>1
<1>10. LeastAbove(climb[steps], tops, list, up)
  BY <1>2, <1>3, <1>9, ClimbCloses
<1>11. \A T \in SUBSET list : HasAbove(T, list, up) <=> (\A id \in list : Parent(id) \in T => id \in T)
  <2>1. \A T \in SUBSET list : HasAbove(T, list, up) => ChildrenIn(list, T) \subseteq T
    BY <1>2 DEF HasAbove
  <2>2. \A T, X : X \subseteq T => ChildrenIn(list, X) \subseteq ChildrenIn(list, T)
    BY DEF ChildrenIn
  <2>3. \A T \in SUBSET list : ChildrenIn(list, T) \subseteq T => HasAbove(T, list, up)
    BY <1>2, <2>2 DEF HasAbove
  <2>4. \A T \in SUBSET list : ChildrenIn(list, T) \subseteq T <=> (\A id \in list : Parent(id) \in T => id \in T)
    BY DEF ChildrenIn
  <2> QED
    BY <2>1, <2>3, <2>4
<1>12. BelowMenu(list, tops) \in SUBSET list /\ tops \subseteq BelowMenu(list, tops) /\ up[BelowMenu(list, tops)] \subseteq BelowMenu(list, tops)
  BY <1>7, <1>10 DEF LeastAbove
<1> DEFINE C == BelowMenu(list, tops)
<1>13. \A id \in list : Parent(id) \in C => id \in C
  <2>1. ChildrenIn(list, C) \subseteq C
    BY <1>2, <1>12
  <2> HIDE DEF C
  <2> QED
    BY <2>1 DEF ChildrenIn
<1>14. ASSUME NEW T \in SUBSET list, tops \subseteq T, (\A id \in list : Parent(id) \in T => id \in T)
       PROVE  C \subseteq T
  <2>1. HasAbove(T, list, up)
    BY <1>11, <1>14
  <2> QED
    BY <1>7, <1>10, <1>14, <2>1 DEF LeastAbove
<1> QED
  BY <1>12, <1>13, <1>14

-----------------------------------------------------------------------------
\* The way up from a row begins with the row and goes on from its parent; from
\* the root it ends, and no way meets a row again.
LEMMA WayUp ==
    ASSUME MenuTreeInv, NEW id \in Rows
    PROVE  /\ id \in MenuOrRoot /\ Parent(id) \in MenuOrRoot
           /\ Ancestry(id) = {id} \cup Ancestry(Parent(id))
           /\ Ancestry(MenuRoot) = {MenuRoot}
           /\ id \notin Ancestry(Parent(id))
<1>1. /\ id \in MenuOrRoot /\ Parent(id) \in MenuOrRoot /\ MenuRoot \in MenuOrRoot
      /\ MenuRoot \notin Rows /\ Rows \subseteq MenuOrRoot
  BY MenusAssumption DEF MenuTreeInv, MenusLinked, MenuOrRoot
<1>2. Ancestry(MenuRoot) = {MenuRoot}
  <2>1. /\ MenuRoot \in Ancestry(MenuRoot)
        /\ \A T \in SUBSET MenuOrRoot :
              MenuRoot \in T /\ (\A x \in T \cap Rows : Parent(x) \in T) => Ancestry(MenuRoot) \subseteq T
    BY <1>1, AncestryIs
  <2>2. \A x \in {MenuRoot} \cap Rows : Parent(x) \in {MenuRoot}
    BY <1>1
  <2>3. Ancestry(MenuRoot) \subseteq {MenuRoot}
    BY <1>1, <2>1, <2>2
  <2> QED
    BY <2>1, <2>3
<1>3. ASSUME NEW x \in Rows
      PROVE  Ancestry(x) = {x} \cup Ancestry(Parent(x))
  <2> DEFINE T == {x} \cup Ancestry(Parent(x))
  <2>1. x \in MenuOrRoot /\ Parent(x) \in MenuOrRoot
    BY <1>1, <1>3 DEF MenuTreeInv, MenusLinked, MenuOrRoot
  <2>2. /\ x \in Ancestry(x) /\ \A y \in Ancestry(x) \cap Rows : Parent(y) \in Ancestry(x)
        /\ \A S \in SUBSET MenuOrRoot :
              x \in S /\ (\A y \in S \cap Rows : Parent(y) \in S) => Ancestry(x) \subseteq S
    BY <2>1, AncestryIs
  <2>3. /\ Ancestry(Parent(x)) \in SUBSET MenuOrRoot /\ Parent(x) \in Ancestry(Parent(x))
        /\ \A y \in Ancestry(Parent(x)) \cap Rows : Parent(y) \in Ancestry(Parent(x))
        /\ \A S \in SUBSET MenuOrRoot :
              Parent(x) \in S /\ (\A y \in S \cap Rows : Parent(y) \in S) => Ancestry(Parent(x)) \subseteq S
    BY <2>1, AncestryIs
  <2>4. Ancestry(x) \subseteq T
    <3>1. T \in SUBSET MenuOrRoot /\ x \in T /\ \A y \in T \cap Rows : Parent(y) \in T
      BY <2>1, <2>3
    <3> HIDE DEF T
    <3> QED
      BY <2>2, <3>1
  <2>5. Ancestry(Parent(x)) \subseteq Ancestry(x)
    <3>1. Ancestry(x) \in SUBSET MenuOrRoot /\ Parent(x) \in Ancestry(x)
      BY <2>1, <2>2, AncestryIs
    <3> QED
      BY <2>2, <2>3, <3>1
  <2> QED
    BY <2>2, <2>4, <2>5
<1>4. ASSUME id \in Ancestry(Parent(id)) PROVE FALSE
  <2> DEFINE p == Parent(id)
             S == {x \in Ancestry(p) \cap Rows : id \in Ancestry(x)}
  <2>1. id \in S
    <3>1. id \in Ancestry(id)
      BY <1>3
    <3> QED
      BY <1>4, <3>1
  <2>2. S \in SUBSET Rows /\ S # {}
    BY <2>1
  <2>3. ASSUME NEW x \in S PROVE Parent(x) \in S
    <3>1. x \in Rows /\ x \in Ancestry(p) /\ id \in Ancestry(x)
      OBVIOUS
    <3>2. Parent(x) \in Ancestry(p)
      BY <1>1, <3>1, AncestryIs
    <3>3. id \in Ancestry(Parent(x))
      <4>1. CASE x = id
        BY <1>4, <4>1
      <4>2. CASE x # id
        BY <1>3, <3>1, <4>2
      <4> QED
        BY <4>1, <4>2
    <3>4. Parent(x) \in Rows
      <4>1. Parent(x) # MenuRoot
        BY <1>1, <1>2, <3>3
      <4> QED
        BY <3>1, <4>1 DEF MenuTreeInv, MenusLinked
    <3> QED
      BY <3>2, <3>3, <3>4
  <2> HIDE DEF S
  <2> QED
    BY <2>2, <2>3 DEF MenuTreeInv, MenusForest
<1> QED
  BY <1>1, <1>2, <1>3, <1>4

\* Whatever way up is among some rows and the root, is so when it begins at one of
\* them and with each of them its parent is.
LEMMA WayWithin ==
    ASSUME MenuTreeInv, NEW ids \in SUBSET Rows, \A id \in ids : Parent(id) \in ids \cup {MenuRoot},
           NEW id \in ids
    PROVE  Ancestry(id) \subseteq ids \cup {MenuRoot}
<1>1. id \in MenuOrRoot /\ ids \cup {MenuRoot} \in SUBSET MenuOrRoot /\ MenuRoot \notin Rows
  BY MenusAssumption DEF MenuTreeInv, MenuOrRoot
<1>2. id \in ids \cup {MenuRoot} /\ \A x \in (ids \cup {MenuRoot}) \cap Rows : Parent(x) \in ids \cup {MenuRoot}
  BY <1>1
<1> QED
  BY <1>1, <1>2, AncestryIs

-----------------------------------------------------------------------------
\* Of any rows the trees of the choices show all, the navigation those that hang
\* together with the root.
LEMMA NothingIsHidden == MenuTreeInv => NothingHidden
<1> SUFFICES ASSUME MenuTreeInv, NEW list \in SUBSET Rows
             PROVE  /\ BuildMenuTreeSelect(list) = list
                    /\ buildMenuTree(list) = {id \in list : Ancestry(id) \subseteq list \cup {MenuRoot}}
  BY DEF NothingHidden
<1>1. list \in SUBSET MenuIds /\ MenuRoot \notin Rows
  BY MenusAssumption DEF MenuTreeInv
<1>2. BuildMenuTreeSelect(list) = list
  <2> DEFINE tops == {id \in list : Parent(id) \notin list}
             shown == BelowMenu(list, tops)
             rest == list \ shown
  <2>1. /\ shown \in SUBSET list /\ tops \subseteq shown
        /\ \A id \in list : Parent(id) \in shown => id \in shown
    <3>1. tops \in SUBSET list
      OBVIOUS
    <3> HIDE DEF tops
    <3> QED
      BY <1>1, <3>1, BelowIs
  <2>2. \A id \in rest : Parent(id) \in rest
    <3> HIDE DEF shown
    <3> QED
      BY <2>1
  <2>3. rest = {}
    <3>1. rest \in SUBSET Rows
      OBVIOUS
    <3> HIDE DEF rest
    <3> QED
      BY <2>2, <3>1 DEF MenuTreeInv, MenusForest
  <2> QED
    BY <2>1, <2>3 DEF BuildMenuTreeSelect
<1>3. buildMenuTree(list) = {id \in list : Ancestry(id) \subseteq list \cup {MenuRoot}}
  <2> DEFINE tops == {id \in list : Parent(id) = MenuRoot}
             shown == BelowMenu(list, tops)
             whole == {id \in list : Ancestry(id) \subseteq list \cup {MenuRoot}}
  <2>1. /\ shown \in SUBSET list /\ tops \subseteq shown
        /\ \A id \in list : Parent(id) \in shown => id \in shown
        /\ \A T \in SUBSET list :
              tops \subseteq T /\ (\A id \in list : Parent(id) \in T => id \in T) => shown \subseteq T
    <3>1. tops \in SUBSET list
      OBVIOUS
    <3> HIDE DEF tops
    <3> QED
      BY <1>1, <3>1, BelowIs
  <2> HIDE DEF shown
  <2>2. \A id \in list : Ancestry(id) = {id} \cup Ancestry(Parent(id)) /\ Ancestry(MenuRoot) = {MenuRoot}
    BY WayUp
  <2>3. shown \subseteq whole
    <3>1. tops \subseteq whole
      BY <2>2
    <3>2. \A id \in list : Parent(id) \in whole => id \in whole
      BY <2>2
    <3>3. whole \in SUBSET list
      OBVIOUS
    <3> HIDE DEF whole, tops
    <3> QED
      BY <2>1, <3>1, <3>2, <3>3
  <2>4. whole \subseteq shown
    <3> SUFFICES ASSUME NEW id \in whole, id \notin shown PROVE FALSE
      OBVIOUS
    <3> DEFINE S == (Ancestry(id) \cap Rows) \ shown
    <3>1. id \in S /\ S \in SUBSET Rows /\ S \subseteq list
      <4>1. id \in Rows /\ id \in Ancestry(id) /\ Ancestry(id) \subseteq list \cup {MenuRoot}
        BY <2>2
      <4> QED
        BY <1>1, <4>1
    <3>2. ASSUME NEW x \in S PROVE Parent(x) \in S
      <4>1. id \in MenuOrRoot
        BY WayUp
      <4>2. Parent(x) \in Ancestry(id) /\ Ancestry(id) \subseteq list \cup {MenuRoot}
        BY <4>1, AncestryIs
      <4>3. x \in list /\ x \notin shown
        BY <3>1
      <4>4. Parent(x) # MenuRoot /\ Parent(x) \notin shown
        BY <2>1, <4>3
      <4> QED
        BY <4>2, <4>4
    <3> HIDE DEF S
    <3> QED
      BY <3>1, <3>2 DEF MenuTreeInv, MenusForest
  <2> QED
    BY <2>3, <2>4 DEF buildMenuTree, shown
<1> QED
  BY <1>2, <1>3

\* A menu on the way up from another one is that one or the parent of one on the way.
LEMMA PassesChild ==
    ASSUME MenuTreeInv, NEW low \in Rows, NEW high \in Ancestry(low), high # low
    PROVE  \E id \in Ancestry(low) \cap Rows : Parent(id) = high
<1> SUFFICES ASSUME \A id \in Ancestry(low) \cap Rows : Parent(id) # high PROVE FALSE
  OBVIOUS
<1> DEFINE T == Ancestry(low) \ {high}
<1>1. low \in MenuOrRoot
  BY WayUp
<1>2. /\ T \in SUBSET MenuOrRoot /\ low \in T /\ \A id \in T \cap Rows : Parent(id) \in T
      /\ \A S \in SUBSET MenuOrRoot :
            low \in S /\ (\A id \in S \cap Rows : Parent(id) \in S) => Ancestry(low) \subseteq S
  BY <1>1, AncestryIs
<1> HIDE DEF T
<1>3. Ancestry(low) \subseteq T
  BY <1>2
<1> QED
  BY <1>3 DEF T

\* Among some rows there is one that is no other's parent: one with the longest
\* way up, for a child's is longer.
LEMMA SomeLeaf ==
    ASSUME MenuTreeInv, NEW ids \in SUBSET Rows, ids # {}
    PROVE  \E id \in ids : \A child \in ids : Parent(child) # id
<1> DEFINE length(id) == Cardinality(Ancestry(id))
           Lengths == {length(id) : id \in ids}
           most == Cardinality(MenuOrRoot)
<1>1. IsFiniteSet(MenuOrRoot)
  BY MenusAssumption, FS_AddElement DEF MenuOrRoot
<1>2. most \in Nat
  BY <1>1, FS_CardinalityType
<1>3. ASSUME NEW id \in ids PROVE IsFiniteSet(Ancestry(id)) /\ length(id) \in 0..most
  <2>1. id \in MenuOrRoot
    BY WayUp
  <2>2. Ancestry(id) \subseteq MenuOrRoot
    BY <2>1, AncestryIs
  <2>3. IsFiniteSet(Ancestry(id)) /\ Cardinality(Ancestry(id)) <= most
    BY <1>1, <2>2, FS_Subset
  <2>4. Cardinality(Ancestry(id)) \in Nat
    BY <2>3, FS_CardinalityType
  <2> QED
    BY <1>2, <2>3, <2>4
<1> HIDE DEF most
<1>4. PICK long \in Lengths : \A other \in Lengths : other <= long
  <2>1. Lengths \subseteq 0..most /\ Lengths # {}
    BY <1>3
  <2> HIDE DEF Lengths
  <2> QED
    BY <1>2, <2>1, NatMax
<1>5. PICK id \in ids : length(id) = long
  OBVIOUS
<1>6. ASSUME NEW child \in ids, Parent(child) = id PROVE FALSE
  <2>1. Ancestry(child) = Ancestry(id) \cup {child} /\ child \notin Ancestry(id)
    BY <1>6, WayUp
  <2>2. length(child) = length(id) + 1
    BY <1>3, <2>1, FS_AddElement
  <2>3. length(child) <= long
    BY <1>4
  <2>4. length(id) \in 0..most /\ length(child) \in 0..most
    BY <1>3
  <2> HIDE DEF length
  <2> QED
    BY <1>2, <1>5, <2>2, <2>3, <2>4
<1> QED
  BY <1>6

\* The chosen menus below which nothing is chosen determine all of them.
LEMMA ChoiceIsRestored == MenuTreeInv => ChoiceRestored
<1> SUFFICES ASSUME MenuTreeInv, NEW chosen \in SUBSET Rows,
                    \A id \in chosen : Parent(id) \in chosen \cup {MenuRoot},
                    NEW keys, keys = RoleMenuTreeSelect(Rows, chosen, TRUE).keys
             PROVE  /\ (UNION {Ancestry(id) : id \in keys}) \ {MenuRoot} = chosen
                    /\ \A id \in keys : (UNION {Ancestry(k) : k \in keys \ {id}}) \ {MenuRoot} # chosen
  BY DEF ChoiceRestored
<1>1. keys = chosen \ {Parent(id) : id \in chosen}
  BY DEF RoleMenuTreeSelect, SelectMenuIDsByRoleID
<1>2. MenuRoot \notin Rows
  BY MenusAssumption DEF MenuTreeInv
<1>3. \A id \in chosen : Ancestry(id) \subseteq chosen \cup {MenuRoot}
  BY WayWithin
<1> DEFINE restored == UNION {Ancestry(id) : id \in keys}
           lost == chosen \ restored
<1>4. lost = {}
  <2> SUFFICES ASSUME lost # {} PROVE FALSE
    OBVIOUS
  <2>1. PICK id \in lost : \A child \in lost : Parent(child) # id
    <3>1. lost \in SUBSET Rows
      OBVIOUS
    <3> HIDE DEF lost
    <3> QED
      BY <3>1, SomeLeaf
  <2>2. id \notin keys
    <3>1. id \in Rows /\ id \notin restored
      OBVIOUS
    <3>2. id \in Ancestry(id)
      BY <3>1, WayUp
    <3> QED
      BY <3>1, <3>2
  <2>3. PICK child \in chosen : Parent(child) = id
    BY <1>1, <2>2
  <2>4. child \in restored
    BY <2>1, <2>3
  <2>5. PICK k \in keys : child \in Ancestry(k)
    BY <2>4
  <2>6. k \in MenuOrRoot
    BY <1>1, WayUp
  <2>7. id \in Ancestry(k)
    BY <2>3, <2>5, <2>6, AncestryIs
  <2> QED
    BY <2>5, <2>7
<1>5. restored \ {MenuRoot} = chosen
  BY <1>1, <1>2, <1>3, <1>4
<1>6. ASSUME NEW id \in keys
      PROVE  (UNION {Ancestry(k) : k \in keys \ {id}}) \ {MenuRoot} # chosen
  <2>1. ASSUME NEW k \in keys \ {id}, id \in Ancestry(k) PROVE FALSE
    <3>1. k \in Rows
      BY <1>1
    <3>2. PICK child \in Ancestry(k) \cap Rows : Parent(child) = id
      BY <2>1, <3>1, PassesChild
    <3>3. child \in chosen
      BY <1>1, <1>2, <1>3, <3>2
    <3> QED
      BY <1>1, <3>2, <3>3
  <2>2. id \in chosen
    BY <1>1
  <2>3. id \notin UNION {Ancestry(k) : k \in keys \ {id}}
    BY <2>1
  <2> QED
    BY <2>2, <2>3
<1>7. (UNION {Ancestry(id) : id \in keys}) \ {MenuRoot} = chosen
  BY <1>5
<1> HIDE DEF restored, lost
<1> QED
  BY <1>6, <1>7

-----------------------------------------------------------------------------
\* Two directories or pages differ in route names, and two side by side in paths,
\* unless they were overlooked: whatever was written last was compared with all others.
RowsDistinct ==
    \A id, other \in {m \in Rows : menus[m].type # "button"} : id # other /\ {id, other} \notin overlooked =>
        /\ EffectiveName(menus[id]) # EffectiveName(menus[other])
        /\ Parent(id) = Parent(other) => menus[id].path # menus[other].path

MenusInv ==
    /\ MenusTypeOK /\ menus = [id \in Rows |-> menus[id]]
    /\ MenuTreeInv /\ RowsDistinct

LEMMA RoutesAreDistinct == MenusInv => RoutesDistinct
<1> SUFFICES ASSUME MenusInv PROVE RoutesDistinct
  OBVIOUS
<1> DEFINE seen == SelectMenuTreeByUserID(Rows)
           tree == buildMenuTree(seen)
<1>1. tree \subseteq {m \in Rows : menus[m].type # "button"}
  <2>1. seen \in SUBSET MenuIds /\ seen \subseteq {m \in Rows : menus[m].type # "button"}
    BY DEF MenusInv, MenusTypeOK, SelectMenuTreeByUserID
  <2>2. {id \in seen : Parent(id) = MenuRoot} \in SUBSET seen
    OBVIOUS
  <2> HIDE DEF seen
  <2>3. tree \subseteq seen
    BY <2>1, <2>2, BelowIs DEF buildMenuTree
  <2> HIDE DEF tree
  <2> QED
    BY <2>1, <2>3
<1> HIDE DEF tree
<1>2. ASSUME NEW r \in BuildRouters(tree)
      PROVE  /\ r.menu \in tree /\ r.part \in {"own", "page", "link"}
             /\ r.part = "own" => r = [menu |-> r.menu, part |-> "own", name |-> routeNameOf(r.menu)]
             /\ r.part = "page" => /\ isMenuFrame(r.menu)
                                   /\ r = [menu |-> r.menu, part |-> "page", name |-> EffectiveName(menus[r.menu])]
  <2>1. \/ \E id \in tree : r = [menu |-> id, part |-> "own", name |-> routeNameOf(id)]
        \/ \E id \in tree : /\ isMenuFrame(id)
                            /\ r = [menu |-> id, part |-> "page", name |-> EffectiveName(menus[id])]
        \/ \E id \in tree : \E name : r = [menu |-> id, part |-> "link", name |-> name]
    BY DEF BuildRouters
  <2>2. CASE \E id \in tree : r = [menu |-> id, part |-> "own", name |-> routeNameOf(id)]
    BY <2>2
  <2>3. CASE \E id \in tree : /\ isMenuFrame(id)
                             /\ r = [menu |-> id, part |-> "page", name |-> EffectiveName(menus[id])]
    BY <2>3
  <2>4. CASE \E id \in tree : \E name : r = [menu |-> id, part |-> "link", name |-> name]
    BY <2>4
  <2> QED
    BY <2>1, <2>2, <2>3, <2>4
<1>3. ASSUME NEW r \in BuildRouters(tree), NEW s \in BuildRouters(tree), r # s, r.name = s.name, r.name # Empty,
             r.part # "link", s.part # "link", {r.menu, s.menu} \notin overlooked
      PROVE  FALSE
  <2>1. \A t \in {r, s} : /\ t.menu \in tree /\ t.name = EffectiveName(menus[t.menu])
                          /\ t.part = "own" => ~isMenuFrame(t.menu)
                          /\ t.part = "page" => isMenuFrame(t.menu)
    <3> TAKE t \in {r, s}
    <3>1. CASE t.part = "own"
      <4>1. t.name = routeNameOf(t.menu) /\ t.menu \in tree /\ t.name # Empty
        BY <1>2, <1>3, <3>1
      <4> QED
        BY <3>1, <4>1 DEF routeNameOf
    <3>2. CASE t.part = "page"
      <4>1. t.name = EffectiveName(menus[t.menu]) /\ isMenuFrame(t.menu) /\ t.menu \in tree
        BY <1>2, <3>2
      <4> QED
        BY <3>2, <4>1
    <3> QED
      BY <1>2, <1>3, <3>1, <3>2
  <2>2. r.menu = s.menu
    BY <1>1, <1>3, <2>1 DEF MenusInv, RowsDistinct
  <2>3. r.part = s.part
    BY <1>2, <1>3, <2>1, <2>2
  <2>4. CASE r.part = "own"
    BY <1>2, <1>3, <2>2, <2>3, <2>4
  <2>5. CASE r.part = "page"
    BY <1>2, <1>3, <2>2, <2>3, <2>5
  <2> QED
    BY <1>2, <1>3, <2>4, <2>5
<1>4. \A r, s \in BuildRouters(tree) :
        r # s /\ r.name = s.name /\ r.name # Empty =>
            "link" \in {r.part, s.part} \/ {r.menu, s.menu} \in overlooked
  BY <1>3
<1>5. \A id, other \in {m \in Rows : menus[m].type # "button"} :
        id # other /\ Parent(id) = Parent(other) /\ menus[id].path = menus[other].path =>
            {id, other} \in overlooked
  BY DEF MenusInv, RowsDistinct
<1> QED
  BY <1>4, <1>5 DEF RoutesDistinct, tree

LEMMA MenusStart == MenusInit => MenusInv
<1> SUFFICES ASSUME MenusInit PROVE MenusInv
  OBVIOUS
<1>1. menus = [id \in {} |-> {}] /\ Rows = {} /\ overlooked = {}
  BY DEF MenusInit, Rows
<1> QED
  BY <1>1 DEF MenusInv, MenusTypeOK, MenuTreeInv, MenusLinked, MenusForest, RowsDistinct

\* What CreateMenu and UpdateMenu write: a row that was compared with all others
\* but the one the request named, which is a new pair of its own.
LEMMA MenuWritten ==
    ASSUME MenusInv, NEW form \in Forms, NEW p \in MenuOrRoot, NEW id \in MenuIds,
           NEW row, row = WithParent(form, p), NEW carried, checkMenuValid(carried, row),
           \A pair \in overlooked : id \notin pair => pair \in overlooked',
           carried \in Rows \ {id} => {id, carried} \in overlooked',
           \A pair \in overlooked' : \E a, b \in Rows \cup {id} : a # b /\ pair = {a, b},
           menus' = [other \in Rows \cup {id} |-> IF other = id THEN row ELSE menus[other]]
    PROVE  /\ Rows' = Rows \cup {id} /\ Parent(id)' = p
           /\ \A other \in Rows \ {id} : Parent(other)' = Parent(other)
           /\ MenusTypeOK' /\ (menus = [x \in Rows |-> menus[x]])' /\ RowsDistinct'
<1>1. /\ Rows' = Rows \cup {id} /\ menus'[id] = row
      /\ \A other \in Rows \ {id} : menus'[other] = menus[other]
  BY DEF Rows
<1>2. form \in Form
  BY MenusAssumption
<1>3. row.parent = p /\ row.type = form.type
  BY <1>2 DEF WithParent, Form
<1>4. Parent(id)' = p /\ \A other \in Rows \ {id} : Parent(other)' = Parent(other)
  BY <1>1, <1>3 DEF Parent
<1>5. MenusTypeOK'
  <2>1. \A other \in Rows \ {id} : \E f \in Forms : menus'[other] = WithParent(f, Parent(other)')
    BY <1>1, <1>4 DEF MenusInv, MenusTypeOK
  <2>2. menus'[id] = WithParent(form, Parent(id)')
    BY <1>1, <1>4
  <2>3. Rows' \subseteq MenuIds
    BY <1>1 DEF MenusInv, MenusTypeOK
  <2>4. \A other \in Rows' : \E f \in Forms : menus'[other] = WithParent(f, Parent(other)')
    BY <1>1, <2>1, <2>2
  <2>5. \A pair \in overlooked' : \E a, b \in Rows' : a # b /\ pair = {a, b}
    BY <1>1
  <2> QED
    BY <2>3, <2>4, <2>5 DEF MenusTypeOK
<1>6. ASSUME NEW other \in Rows \ {id}, menus[other].type # "button", {id, other} \notin overlooked'
      PROVE  /\ EffectiveName(menus[other]) # EffectiveName(row)
             /\ Parent(other) = p => menus[other].path # row.path
  <2>1. ~hasRouteConflict(carried, row) /\ other # carried
    BY <1>6 DEF checkMenuValid
  <2>2. EffectiveName(menus[other]) \in {menus[other].path, menus[other].routeName}
    BY DEF EffectiveName
  <2>3. ASSUME other \in SelectMenusByPathOrRouteName(row.path, EffectiveName(row))
        PROVE  /\ EffectiveName(menus[other]) # EffectiveName(row)
               /\ Parent(other) = p => menus[other].path # row.path
    BY <1>3, <2>1, <2>3 DEF hasRouteConflict
  <2>4. ASSUME other \notin SelectMenusByPathOrRouteName(row.path, EffectiveName(row))
        PROVE  menus[other].path # row.path /\ EffectiveName(menus[other]) # EffectiveName(row)
    BY <1>6, <2>2, <2>4 DEF SelectMenusByPathOrRouteName
  <2> QED
    BY <2>3, <2>4
<1>7. RowsDistinct'
  <2> SUFFICES ASSUME NEW x \in Rows', NEW y \in Rows', x # y, menus'[x].type # "button", menus'[y].type # "button",
                      {x, y} \notin overlooked'
               PROVE  /\ EffectiveName(menus'[x]) # EffectiveName(menus'[y])
                      /\ Parent(x)' = Parent(y)' => menus'[x].path # menus'[y].path
    BY DEF RowsDistinct
  <2>1. CASE x = id
    BY <1>1, <1>4, <1>6, <2>1
  <2>2. CASE y = id
    <3>1. {y, x} = {x, y}
      OBVIOUS
    <3> QED
      BY <1>1, <1>4, <1>6, <2>2, <3>1
  <2>3. CASE x # id /\ y # id
    <3>1. {x, y} \notin overlooked
      BY <2>3
    <3> QED
      BY <1>1, <1>4, <2>3, <3>1 DEF MenusInv, RowsDistinct
  <2> QED
    BY <2>1, <2>2, <2>3
<1>8. (menus = [x \in Rows |-> menus[x]])'
  BY DEF Rows
<1> QED
  BY <1>1, <1>4, <1>5, <1>7, <1>8

\* A row that is new, or moves to where it is not above, leaves the trees trees.
LEMMA TreeReparented ==
    ASSUME MenuTreeInv, NEW id \in MenuIds, NEW p \in Rows \cup {MenuRoot},
           p # id, id \in Rows => id \notin Ancestry(p),
           Rows' = Rows \cup {id}, Parent(id)' = p, \A other \in Rows \ {id} : Parent(other)' = Parent(other)
    PROVE  MenuTreeInv'
<1>1. Rows' \subseteq MenuIds
  BY DEF MenuTreeInv
<1>2. MenusLinked'
  <2>1. \A x \in Rows' : Parent(x)' \in Rows' \cup {MenuRoot}
    BY DEF MenuTreeInv, MenusLinked
  <2> QED
    BY <2>1 DEF MenusLinked
<1>3. MenusForest'
  <2> SUFFICES ASSUME NEW S \in SUBSET Rows', S # {}, \A x \in S : Parent(x)' \in S
               PROVE  FALSE
    BY DEF MenusForest
  <2>1. MenuRoot \notin Rows' /\ MenuRoot \notin Rows
    BY <1>1, MenusAssumption
  <2>2. id \in S
    <3>1. SUFFICES ASSUME id \notin S PROVE FALSE
      OBVIOUS
    <3>2. S \in SUBSET Rows /\ \A x \in S : Parent(x) \in S
      BY <3>1
    <3> QED
      BY <3>2 DEF MenuTreeInv, MenusForest
  <2>3. p \in S /\ p \in Rows
    BY <2>1, <2>2
  <2> DEFINE T == S \cap Ancestry(p) \cap Rows
  <2>4. p \in MenuOrRoot
    BY <2>3 DEF MenuTreeInv, MenuOrRoot
  <2>5. p \in Ancestry(p) /\ \A x \in Ancestry(p) \cap Rows : Parent(x) \in Ancestry(p)
    BY <2>4, AncestryIs
  <2>6. p \in T /\ T \in SUBSET Rows
    BY <2>3, <2>5
  <2>7. ASSUME NEW x \in T PROVE Parent(x) \in T
    <3>1. x \in Rows /\ x # id
      <4>1. CASE id \in Rows
        BY <4>1
      <4>2. CASE id \notin Rows
        BY <4>2
      <4> QED
        BY <4>1, <4>2
    <3>2. Parent(x) \in S /\ Parent(x) \in Ancestry(p)
      <4>1. Parent(x)' = Parent(x)
        BY <3>1
      <4> QED
        BY <2>5, <4>1
    <3>3. Parent(x) \in Rows
      BY <2>1, <3>1, <3>2 DEF MenuTreeInv, MenusLinked
    <3> QED
      BY <3>2, <3>3
  <2> HIDE DEF T
  <2> QED
    BY <2>6, <2>7 DEF MenuTreeInv, MenusForest
<1> QED
  BY <1>1, <1>2, <1>3 DEF MenuTreeInv

LEMMA MenusKeep == MenusInv /\ [MenusNext]_menuVars => MenusInv'
<1> SUFFICES ASSUME MenusInv, [MenusNext]_menuVars PROVE MenusInv'
  OBVIOUS
<1> USE DEF MenusInv
<1> DEFINE create(id, row) == \E carried \in Rows \cup {MenuRoot} : CreateMenu(id, carried, row)
<1>1. ASSUME NEW id \in MenuIds, NEW form \in Forms, NEW p \in MenuOrRoot, NEW row, row = WithParent(form, p),
             create(id, row) \/ UpdateMenu(id, row)
      PROVE  MenusInv'
  <2>1. row.parent = p
    BY <1>1, MenusAssumption DEF WithParent, Form
  <2>2. p \in Rows \cup {MenuRoot} /\ p # id /\ (id \in Rows => id \notin Ancestry(p))
    <3>1. CASE create(id, row)
      BY <2>1, <3>1, MenusAssumption DEF CreateMenu
    <3>2. CASE UpdateMenu(id, row)
      BY <2>1, <3>2 DEF UpdateMenu, menuParentCreatesCycle
    <3> QED
      BY <1>1, <3>1, <3>2
  <2>3. PICK carried : /\ checkMenuValid(carried, row)
                       /\ \A pair \in overlooked : id \notin pair => pair \in overlooked'
                       /\ carried \in Rows \ {id} => {id, carried} \in overlooked'
                       /\ \A pair \in overlooked' : \E a, b \in Rows \cup {id} : a # b /\ pair = {a, b}
                       /\ menus' = [other \in Rows \cup {id} |-> IF other = id THEN row ELSE menus[other]]
    <3>1. CASE create(id, row)
      <4>1. PICK carried \in Rows \cup {MenuRoot} : CreateMenu(id, carried, row)
        BY <3>1
      <4>2. /\ id \notin Rows /\ checkMenuValid(carried, row)
            /\ menus' = [other \in Rows \cup {id} |-> IF other = id THEN row ELSE menus[other]]
            /\ overlooked' = overlooked \cup (IF carried \in Rows THEN {{id, carried}} ELSE {})
        BY <4>1 DEF CreateMenu
      <4>3. ASSUME NEW pair \in overlooked' PROVE \E a, b \in Rows \cup {id} : a # b /\ pair = {a, b}
        <5>1. CASE pair \in overlooked
          BY <5>1 DEF MenusTypeOK
        <5>2. CASE pair = {id, carried} /\ carried \in Rows
          BY <4>2, <5>2
        <5> QED
          BY <4>2, <5>1, <5>2
      <4> QED
        BY <4>2, <4>3
    <3>2. CASE UpdateMenu(id, row)
      <4>1. /\ id \in Rows /\ menus' = [menus EXCEPT ![id] = row] /\ Rows \cup {id} = Rows
            /\ checkMenuValid(id, row) /\ overlooked' = {pair \in overlooked : id \notin pair}
        BY <3>2 DEF UpdateMenu, PairsWithout
      <4>2. menus' = [other \in Rows |-> IF other = id THEN row ELSE menus[other]]
        BY <4>1
      <4>3. \A pair \in overlooked' : \E a, b \in Rows : a # b /\ pair = {a, b}
        BY <4>1 DEF MenusTypeOK
      <4> QED
        BY <4>1, <4>2, <4>3
    <3> QED
      BY <1>1, <3>1, <3>2
  <2>4. /\ Rows' = Rows \cup {id} /\ Parent(id)' = p
        /\ \A other \in Rows \ {id} : Parent(other)' = Parent(other)
        /\ MenusTypeOK' /\ (menus = [x \in Rows |-> menus[x]])' /\ RowsDistinct'
    BY <1>1, <2>3, MenuWritten
  <2>5. MenuTreeInv'
    BY <2>2, <2>4, TreeReparented
  <2> QED
    BY <2>4, <2>5
<1>2. ASSUME NEW id \in MenuIds, DeleteMenu(id)
      PROVE  MenusInv'
  <2>1. /\ Rows' = Rows \ {id} /\ \A other \in Rows' : menus'[other] = menus[other]
        /\ \A other \in Rows : Parent(other) # id
        /\ overlooked' = {pair \in overlooked : id \notin pair}
    BY <1>2 DEF DeleteMenu, Rows, HasChildByMenuID, PairsWithout
  <2>2. \A other \in Rows' : Parent(other)' = Parent(other)
    BY <2>1 DEF Parent
  <2>3. MenusTypeOK'
    <3>1. \A other \in Rows' : \E f \in Forms : menus'[other] = WithParent(f, Parent(other)')
      BY <2>1, <2>2 DEF MenusTypeOK
    <3>2. \A pair \in overlooked' : \E a, b \in Rows' : a # b /\ pair = {a, b}
      <4> TAKE pair \in overlooked'
      <4>1. PICK a \in Rows, b \in Rows : a # b /\ pair = {a, b}
        BY <2>1 DEF MenusTypeOK
      <4>2. a \in Rows' /\ b \in Rows'
        BY <2>1, <4>1
      <4> QED
        BY <4>1, <4>2
    <3> QED
      BY <2>1, <3>1, <3>2 DEF MenusTypeOK
  <2>4. (menus = [x \in Rows |-> menus[x]])'
    BY <1>2 DEF DeleteMenu, Rows
  <2>5. MenusLinked'
    <3>1. \A x \in Rows' : Parent(x)' \in Rows' \cup {MenuRoot}
      BY <2>1, <2>2 DEF MenuTreeInv, MenusLinked
    <3> QED
      BY <3>1 DEF MenusLinked
  <2>6. MenusForest'
    <3> SUFFICES ASSUME NEW S \in SUBSET Rows', S # {} PROVE \E x \in S : Parent(x)' \notin S
      BY DEF MenusForest
    <3>1. PICK x \in S : Parent(x) \notin S
      BY <2>1 DEF MenuTreeInv, MenusForest
    <3> QED
      BY <2>2, <3>1
  <2>7. RowsDistinct'
    <3> SUFFICES ASSUME NEW x \in Rows', NEW y \in Rows', x # y, menus'[x].type # "button", menus'[y].type # "button",
                        {x, y} \notin overlooked'
                 PROVE  /\ EffectiveName(menus'[x]) # EffectiveName(menus'[y])
                        /\ Parent(x)' = Parent(y)' => menus'[x].path # menus'[y].path
      BY DEF RowsDistinct
    <3>1. {x, y} \notin overlooked
      BY <2>1
    <3> QED
      BY <2>1, <2>2, <3>1 DEF RowsDistinct
  <2>8. MenuTreeInv'
    BY <2>1, <2>5, <2>6 DEF MenuTreeInv
  <2> QED
    BY <2>3, <2>4, <2>7, <2>8
<1>3. CASE UNCHANGED menuVars
  BY <1>3 DEF menuVars, MenusTypeOK, MenuTreeInv, MenusLinked, MenusForest, RowsDistinct, Rows, Parent
<1>4. CASE MenusNext
  <2>1. PICK id \in MenuIds :
           \/ \E form \in Forms, p \in MenuOrRoot :
                create(id, WithParent(form, p)) \/ UpdateMenu(id, WithParent(form, p))
           \/ DeleteMenu(id)
    BY <1>4 DEF MenusNext, MenuOrRoot
  <2> QED
    BY <1>1, <1>2, <2>1
<1> QED
  BY <1>3, <1>4

\* Rows of the menus have the form of a request and a parent, whatever was created,
\* moved and deleted (internal/service/menu.go).
THEOREM MenusTypeCorrect == MenusSpec => []MenusTypeOK
<1>1. MenusInv => MenusTypeOK
  BY DEF MenusInv
<1> QED
  BY <1>1, MenusStart, MenusKeep, PTL DEF MenusSpec

\* After any sequence of writes that menuWriteMu orders, two routes of a user have
\* one name only if one of their menus was created by a request that carried the
\* other's id and neither was edited since; the trees show every menu they should,
\* and the page of a role restores what the role has (internal/service/menu.go,
\* repository/menu.go).
THEOREM MenusAlwaysConsistent == MenusSpec => []MenusConsistent
<1>1. MenusInv => MenusConsistent
  BY RoutesAreDistinct, NothingIsHidden, ChoiceIsRestored DEF MenusInv, MenusConsistent
<1> QED
  BY <1>1, MenusStart, MenusKeep, PTL DEF MenusSpec

=============================================================================

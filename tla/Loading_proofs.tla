--------------------------- MODULE Loading_proofs ---------------------------
(***************************************************************************)
(* The loading of any definition: the search reports real cycles only and  *)
(* misses none, so a built graph is what the other modules take as given;  *)
(* what the templates of its nodes can miss when they run; that the        *)
(* members of a mapped node miss nothing that the node has; and that the   *)
(* firings of a schedule lie apart.                                        *)
(***************************************************************************)
EXTENDS Loading, FiniteSetTheorems, SequenceTheorems, WellFoundedInduction,
        TLAPS

-----------------------------------------------------------------------------
(* The search, on the positions N with the names nm and the upstreams e:   *)
(* mk, lf and pt are the marks, the names not yet looked at and the path.  *)

Marks == {"unvisited", "active", "done"}

\* The active nodes are those of the path.
OnPath(N, mk, pt) ==
  /\ \A i \in N : mk[i] = "active" <=> \E k \in 1..Len(pt) : pt[k] = i
  /\ \A k, l \in 1..Len(pt) : pt[k] = pt[l] => k = l

\* A node on the path is an upstream of the one before it.
Linked(e, pt) == \A k \in 1..Len(pt) - 1 : pt[k + 1] \in e[pt[k]]

\* An upstream that the search has looked at is done, or next on the path.
Seen(N, nm, e, mk, lf, pt) ==
  \A i \in N : \A j \in e[i] :
    \/ nm[j] \in lf[i]
    \/ mk[j] = "done"
    \/ \E k \in 1..Len(pt) - 1 : pt[k] = i /\ pt[k + 1] = j

\* Nothing that is done is part of a cycle.
DoneSound(N, e, mk, lf) ==
  /\ \A i \in N : mk[i] = "done" => lf[i] = {}
  /\ \A S \in SUBSET {i \in N : mk[i] = "done"} :
       S # {} => \E i \in S : e[i] \cap S = {}

SearchInv(N, nm, e, mk, lf, pt) ==
  /\ mk \in [N -> Marks] /\ pt \in Seq(N)
  /\ \A i, j \in N : nm[j] \in lf[i] => j \in e[i]
  /\ OnPath(N, mk, pt)
  /\ Linked(e, pt)
  /\ Seen(N, nm, e, mk, lf, pt)
  /\ DoneSound(N, e, mk, lf)

LEMMA SearchStarts ==
  ASSUME NEW N, NEW nm, NEW e, NEW lf,
         \A i, j \in N : nm[j] \in lf[i] <=> j \in e[i],
         e \in [N -> SUBSET N]
  PROVE  SearchInv(N, nm, e, [i \in N |-> "unvisited"], lf, <<>>)
<1> DEFINE mk == [i \in N |-> "unvisited"]
<1>1. mk \in [N -> Marks] /\ <<>> \in Seq(N) /\ Len(<<>>) = 0
  BY EmptySeq DEF Marks
<1>2. OnPath(N, mk, <<>>)
  BY <1>1 DEF OnPath
<1>3. Linked(e, <<>>)
  BY <1>1 DEF Linked
<1>4. Seen(N, nm, e, mk, lf, <<>>)
  BY DEF Seen
<1>5. DoneSound(N, e, mk, lf)
  BY DEF DoneSound
<1> QED
  BY <1>1, <1>2, <1>3, <1>4, <1>5 DEF SearchInv

\* The search goes on to a node that is unvisited: a root, or an upstream of
\* the last node on the path, whose name leaves what is left.
LEMMA SearchEnters ==
  ASSUME NEW N, NEW nm, NEW e \in [N -> SUBSET N], NEW mk, NEW lf, NEW pt,
         SearchInv(N, nm, e, mk, lf, pt),
         \A i, j \in N : nm[i] = nm[j] => i = j,
         NEW j \in N, mk[j] = "unvisited",
         pt # <<>> => j \in e[pt[Len(pt)]],
         NEW lf2,
         \/ pt = <<>> /\ lf2 = lf
         \/ /\ pt # <<>> /\ lf \in [N -> SUBSET {nm[i] : i \in N}]
            /\ lf2 = [lf EXCEPT ![pt[Len(pt)]] = lf[pt[Len(pt)]] \ {nm[j]}]
  PROVE  SearchInv(N, nm, e, [mk EXCEPT ![j] = "active"], lf2, Append(pt, j))
<1> DEFINE m == [mk EXCEPT ![j] = "active"]
           q == Append(pt, j)
<1>1. /\ mk \in [N -> Marks] /\ pt \in Seq(N) /\ OnPath(N, mk, pt)
      /\ Linked(e, pt) /\ Seen(N, nm, e, mk, lf, pt) /\ DoneSound(N, e, mk, lf)
      /\ \A i, k \in N : nm[k] \in lf[i] => k \in e[i]
  BY DEF SearchInv
<1>2. /\ Len(pt) \in Nat /\ q \in Seq(N) /\ Len(q) = Len(pt) + 1
      /\ \A k \in 1..Len(pt) : q[k] = pt[k]
      /\ q[Len(pt) + 1] = j
      /\ \A k \in 1..Len(pt) : pt[k] \in N
  BY <1>1, AppendProperties, LenProperties
<1>3. /\ m \in [N -> Marks] /\ m[j] = "active"
      /\ \A i \in N \ {j} : m[i] = mk[i]
  BY <1>1 DEF Marks
<1>4. \A k \in 1..Len(pt) : pt[k] # j
  BY <1>1, <1>2 DEF OnPath
<1>5. \A i \in N : /\ lf2[i] \subseteq lf[i]
                   /\ \A n \in lf[i] \ lf2[i] :
                        /\ n = nm[j] /\ pt # <<>> /\ i = pt[Len(pt)]
  BY <1>2
<1>6. pt # <<>> => Len(pt) \in 1..Len(pt)
  BY <1>1, EmptySeq
<1> HIDE DEF m, q
<1>7. OnPath(N, m, q)
  <2>1. ASSUME NEW i \in N
        PROVE  m[i] = "active" <=> \E k \in 1..Len(q) : q[k] = i
    <3>1. CASE i = j
      BY <1>2, <1>3, <3>1
    <3>2. CASE i # j
      <4>1. \A k \in 1..Len(q) : q[k] = i => k \in 1..Len(pt) /\ pt[k] = i
        BY <1>2, <3>2
      <4>2. \A k \in 1..Len(pt) : pt[k] = i => k \in 1..Len(q) /\ q[k] = i
        BY <1>2
      <4>3. m[i] = "active" <=> \E k \in 1..Len(pt) : pt[k] = i
        BY <1>1, <1>3, <3>2 DEF OnPath
      <4> QED
        BY <4>1, <4>2, <4>3
    <3> QED
      BY <3>1, <3>2
  <2>2. \A k, l \in 1..Len(q) : q[k] = q[l] => k = l
    BY <1>1, <1>2, <1>4 DEF OnPath
  <2> QED
    BY <2>1, <2>2 DEF OnPath
<1>8. Linked(e, q)
  <2> SUFFICES ASSUME NEW k \in 1..Len(q) - 1
               PROVE  q[k + 1] \in e[q[k]]
    BY DEF Linked
  <2>1. CASE k = Len(pt)
    BY <1>1, <1>2, <2>1, EmptySeq
  <2>2. CASE k # Len(pt)
    BY <1>1, <1>2, <2>2 DEF Linked
  <2> QED
    BY <2>1, <2>2
<1>9. Seen(N, nm, e, m, lf2, q)
  <2> SUFFICES ASSUME NEW i \in N, NEW l \in e[i], nm[l] \notin lf2[i], m[l] # "done"
               PROVE  \E k \in 1..Len(q) - 1 : q[k] = i /\ q[k + 1] = l
    BY DEF Seen
  <2>1. l \in N
    OBVIOUS
  <2>2. mk[l] # "done"
    BY <1>3, <2>1
  <2>3. CASE nm[l] \in lf[i]
    <3>1. nm[l] = nm[j] /\ pt # <<>> /\ i = pt[Len(pt)]
      BY <1>5, <2>3
    <3>2. l = j
      BY <2>1, <3>1
    <3> QED
      BY <1>2, <1>6, <3>1, <3>2
  <2>4. CASE nm[l] \notin lf[i]
    <3>1. PICK k \in 1..Len(pt) - 1 : pt[k] = i /\ pt[k + 1] = l
      BY <1>1, <2>2, <2>4 DEF Seen
    <3> QED
      BY <1>2, <3>1
  <2> QED
    BY <2>3, <2>4
<1>10. DoneSound(N, e, m, lf2)
  <2>1. {i \in N : m[i] = "done"} = {i \in N : mk[i] = "done"}
    BY <1>3
  <2>2. \A i \in N : m[i] = "done" => lf2[i] = {}
    BY <1>1, <1>3, <1>5 DEF DoneSound
  <2> QED
    BY <1>1, <2>1, <2>2 DEF DoneSound
<1>11. \A i, k \in N : nm[k] \in lf2[i] => k \in e[i]
  BY <1>1, <1>5
<1> QED
  BY <1>2, <1>3, <1>7, <1>8, <1>9, <1>10, <1>11 DEF SearchInv, m, q

\* The search passes over an upstream that is done.
LEMMA SearchPasses ==
  ASSUME NEW N, NEW nm, NEW e \in [N -> SUBSET N], NEW mk, NEW lf, NEW pt,
         SearchInv(N, nm, e, mk, lf, pt),
         \A i, j \in N : nm[i] = nm[j] => i = j,
         NEW j \in N, mk[j] = "done", NEW t \in N,
         lf \in [N -> SUBSET {nm[i] : i \in N}]
  PROVE  SearchInv(N, nm, e, mk, [lf EXCEPT ![t] = lf[t] \ {nm[j]}], pt)
<1> DEFINE lf2 == [lf EXCEPT ![t] = lf[t] \ {nm[j]}]
<1>1. \A i \in N : lf2[i] \subseteq lf[i] /\ \A n \in lf[i] \ lf2[i] : n = nm[j]
  OBVIOUS
<1> HIDE DEF lf2
<1>2. Seen(N, nm, e, mk, lf2, pt)
  <2> SUFFICES ASSUME NEW i \in N, NEW l \in e[i], nm[l] \notin lf2[i], mk[l] # "done"
               PROVE  \E k \in 1..Len(pt) - 1 : pt[k] = i /\ pt[k + 1] = l
    BY DEF Seen
  <2>1. l \in N
    OBVIOUS
  <2>2. nm[l] \notin lf[i]
    BY <1>1, <2>1
  <2> QED
    BY <2>2 DEF Seen, SearchInv
<1>3. DoneSound(N, e, mk, lf2)
  BY <1>1 DEF DoneSound, SearchInv
<1> QED
  BY <1>1, <1>2, <1>3 DEF SearchInv, lf2

LEMMA OneLess ==
  ASSUME NEW n \in Nat \ {0}, NEW l, l = IF 1 <= n - 1 THEN (n - 1) - 1 + 1 ELSE 0
  PROVE  l = n - 1
<1>1. CASE 1 <= n - 1
  BY <1>1
<1>2. CASE n = 1
  BY <1>2
<1> QED
  BY <1>1, <1>2

\* The search leaves the last node on the path, with nothing left of it.
LEMMA SearchLeaves ==
  ASSUME NEW N, NEW nm, NEW e \in [N -> SUBSET N], NEW mk, NEW lf, NEW pt,
         SearchInv(N, nm, e, mk, lf, pt), pt # <<>>, lf[pt[Len(pt)]] = {}
  PROVE  SearchInv(N, nm, e, [mk EXCEPT ![pt[Len(pt)]] = "done"], lf,
                   SubSeq(pt, 1, Len(pt) - 1))
<1> DEFINE t == pt[Len(pt)]
           m == [mk EXCEPT ![t] = "done"]
           q == SubSeq(pt, 1, Len(pt) - 1)
<1>1. /\ mk \in [N -> Marks] /\ pt \in Seq(N) /\ OnPath(N, mk, pt)
      /\ Linked(e, pt) /\ Seen(N, nm, e, mk, lf, pt) /\ DoneSound(N, e, mk, lf)
      /\ \A i, k \in N : nm[k] \in lf[i] => k \in e[i]
  BY DEF SearchInv
<1>2. Len(pt) \in Nat \ {0} /\ \A k \in 1..Len(pt) : pt[k] \in N
  BY <1>1, EmptySeq, LenProperties
<1>3. /\ q \in Seq(N) /\ Len(q) = Len(pt) - 1
      /\ \A k \in 1..Len(q) : q[k] = pt[k]
  <2>1. /\ \A k \in 1..Len(pt) - 1 : pt[k] \in N
        /\ 1 \in Int /\ Len(pt) - 1 \in Int
    BY <1>2
  <2>2. /\ q \in Seq(N)
        /\ Len(q) = IF 1 <= Len(pt) - 1 THEN (Len(pt) - 1) - 1 + 1 ELSE 0
        /\ \A k \in 1..(Len(pt) - 1) - 1 + 1 : q[k] = pt[1 + k - 1]
    BY <2>1, SubSeqProperties
  <2>3. Len(q) = Len(pt) - 1
    <3> HIDE DEF q
    <3> QED
      BY <1>2, <2>2, OneLess
  <2>4. \A k \in 1..Len(pt) - 1 : q[k] = pt[k]
    <3> HIDE DEF q
    <3> QED
      BY <1>2, <2>2
  <2> QED
    BY <2>2, <2>3, <2>4
<1>4. t \in N /\ mk[t] = "active"
  BY <1>1, <1>2 DEF OnPath
<1>5. /\ m \in [N -> Marks] /\ m[t] = "done"
      /\ \A i \in N \ {t} : m[i] = mk[i]
  BY <1>1, <1>4 DEF Marks
<1>6. \A k \in 1..Len(q) : q[k] # t
  BY <1>1, <1>2, <1>3 DEF OnPath
<1>7. OnPath(N, m, q)
  <2> HIDE DEF m, q
  <2>1. ASSUME NEW i \in N
        PROVE  m[i] = "active" <=> \E k \in 1..Len(q) : q[k] = i
    <3>1. CASE i = t
      BY <1>5, <1>6, <3>1
    <3>2. CASE i # t
      <4>1. \A k \in 1..Len(pt) : pt[k] = i => k \in 1..Len(q)
        BY <1>2, <1>3, <3>2
      <4> QED
        BY <1>1, <1>2, <1>3, <1>5, <3>2, <4>1 DEF OnPath
    <3> QED
      BY <3>1, <3>2
  <2>2. \A k, l \in 1..Len(q) : q[k] = q[l] => k = l
    BY <1>1, <1>2, <1>3 DEF OnPath
  <2> QED
    BY <2>1, <2>2 DEF OnPath
<1>8. Linked(e, q)
  <2> HIDE DEF q
  <2> QED
    BY <1>1, <1>2, <1>3 DEF Linked
<1>9. Seen(N, nm, e, m, lf, q)
  <2> SUFFICES ASSUME NEW i \in N, NEW l \in e[i], nm[l] \notin lf[i], m[l] # "done"
               PROVE  \E k \in 1..Len(q) - 1 : q[k] = i /\ q[k + 1] = l
    BY DEF Seen
  <2>1. l \in N /\ l # t /\ mk[l] # "done"
    BY <1>5
  <2>2. PICK k \in 1..Len(pt) - 1 : pt[k] = i /\ pt[k + 1] = l
    BY <1>1, <2>1 DEF Seen
  <2>3. k + 1 # Len(pt)
    BY <2>1, <2>2
  <2>4. k \in 1..Len(q) - 1 /\ k \in 1..Len(q) /\ k + 1 \in 1..Len(q)
    BY <1>2, <1>3, <2>2, <2>3
  <2> HIDE DEF q, m, t
  <2> QED
    BY <1>3, <2>2, <2>4
\* The upstreams of the node that is left are done.
<1>10. \A l \in e[t] : mk[l] = "done"
  <2> SUFFICES ASSUME NEW l \in e[t], mk[l] # "done" PROVE FALSE
    OBVIOUS
  <2>1. PICK k \in 1..Len(pt) - 1 : pt[k] = t
    BY <1>1, <1>4 DEF Seen
  <2> QED
    BY <1>1, <1>2, <2>1 DEF OnPath
\* So are those of a node that is done.
<1>11. \A i \in N : mk[i] = "done" => \A l \in e[i] : mk[l] = "done"
  <2> SUFFICES ASSUME NEW i \in N, mk[i] = "done", NEW l \in e[i], mk[l] # "done"
               PROVE  FALSE
    OBVIOUS
  <2>1. nm[l] \notin lf[i]
    BY <1>1 DEF DoneSound
  <2>2. PICK k \in 1..Len(pt) - 1 : pt[k] = i
    BY <1>1, <2>1 DEF Seen
  <2> QED
    BY <1>1, <1>2, <2>2 DEF OnPath
<1>12. DoneSound(N, e, m, lf)
  <2> DEFINE D == {i \in N : mk[i] = "done"}
  <2>1. {i \in N : m[i] = "done"} = D \cup {t}
    BY <1>4, <1>5
  <2>2. \A i \in N : m[i] = "done" => lf[i] = {}
    BY <1>1, <1>5 DEF DoneSound
  <2>3. ASSUME NEW S \in SUBSET (D \cup {t}), S # {}
        PROVE  \E i \in S : e[i] \cap S = {}
    <3>1. t \notin D
      BY <1>4
    <3>2. CASE S \cap D # {}
      <4>1. PICK i \in S \cap D : e[i] \cap (S \cap D) = {}
        <5>1. S \cap D \in SUBSET D
          OBVIOUS
        <5> QED
          BY <1>1, <3>2, <5>1 DEF DoneSound
      <4>2. e[i] \subseteq D
        BY <1>11, <4>1
      <4> QED
        BY <4>1, <4>2
    <3>3. CASE S \cap D = {}
      <4>1. S = {t} /\ e[t] \subseteq D
        BY <1>4, <1>10, <2>3, <3>3
      <4> QED
        BY <3>1, <4>1
    <3> QED
      BY <3>2, <3>3
  <2> QED
    BY <2>1, <2>2, <2>3 DEF DoneSound
<1> QED
  BY <1>1, <1>3, <1>5, <1>7, <1>8, <1>9, <1>12 DEF SearchInv

-----------------------------------------------------------------------------
(* The search of the loading *)

\* The names and the upstreams by position.
NameAt == [i \in Nodes |-> file.nodes[i].name]
Above == [i \in Nodes |->
            {j \in Nodes : file.nodes[j].name \in Upstreams(file.nodes[i])}]
Unique == \A i, j \in Nodes : NameAt[i] = NameAt[j] => i = j
Searching == {"search"} \cup Loaded

LoadInv ==
  /\ file \in Files
  /\ at \in {"check", "refused"} \cup Searching
  /\ at = "check" => path = <<>> /\ marks = [i \in Nodes |-> "unvisited"]
  /\ at \in Searching =>
       /\ Unique /\ BuildProblems = {}
       /\ left \in [Nodes -> SUBSET {NameAt[i] : i \in Nodes}]
       /\ SearchInv(Nodes, NameAt, Above, marks, left, path)
  /\ at \in Loaded =>
       graph = Built /\ path = <<>> /\ \A i \in Nodes : marks[i] = "done"
  /\ at = "refused" /\ path # <<>> =>
       \E first \in 1..Len(path) - 1 :
         /\ path[first] = Top
         /\ \A k \in first..Len(path) - 1 : path[k + 1] \in Above[path[k]]
  /\ path \in Seq(Nodes)

LEMMA FileStays ==
  ASSUME file' = file
  PROVE  /\ Nodes' = Nodes /\ NameAt' = NameAt /\ Above' = Above
         /\ BuildProblems' = BuildProblems /\ Built' = Built
         /\ (Unique <=> Unique')
<1>1. Nodes' = Nodes
  BY DEF Nodes
<1>2. NameAt' = NameAt
  BY DEF Nodes, NameAt
<1>3. Above' = Above
  BY DEF Nodes, Above, Upstreams, IsAsset, Producers, NodeNames
<1>4. BuildProblems' = BuildProblems
  BY DEF BuildProblems, ScheduleProblems, NameProblems, AssetProblems, NodeProblems,
         UpstreamProblems, EachProblems, TextProblems, Upstreams, Producers, Assets,
         NodeNames, Nodes, IsAsset, FiresTwice, PartitionOf
<1>5. Built' = Built
  BY DEF Built, NodeNames, Nodes, Upstreams, Producers, IsAsset, Section, RuleOf,
         PositionOf
<1> QED
  BY <1>1, <1>2, <1>3, <1>4, <1>5 DEF Unique

LEMMA FileFacts ==
  ASSUME file \in Files
  PROVE  /\ Len(file.nodes) \in Nat /\ Nodes = 1..Len(file.nodes)
         /\ Above \in [Nodes -> SUBSET Nodes]
         /\ NodeNames = {NameAt[i] : i \in Nodes}
         /\ \A i \in Nodes : Upstreams(file.nodes[i]) \subseteq NodeNames
         /\ \A i, j \in Nodes : NameAt[j] \in Upstreams(file.nodes[i]) <=> j \in Above[i]
<1>1. Len(file.nodes) \in Nat /\ Nodes = 1..Len(file.nodes)
  BY FilesAssumption DEF Nodes
<1>2. NodeNames = {NameAt[i] : i \in Nodes}
  BY DEF NodeNames, NameAt
<1>3. \A i \in Nodes : Upstreams(file.nodes[i]) \subseteq NodeNames
  <2>1. \A asset : Producers(asset) \subseteq NodeNames
    BY DEF Producers, NodeNames
  <2> QED
    BY <2>1 DEF Upstreams
<1> QED
  BY <1>1, <1>2, <1>3 DEF Above, NameAt

\* The names that the search has left lead to the positions of the upstreams.
LEMMA PositionFacts ==
  ASSUME NEW n \in NodeNames
  PROVE  PositionOf(n) \in Nodes /\ NameAt[PositionOf(n)] = n
<1>1. \E i \in Nodes : file.nodes[i].name = n
  BY DEF NodeNames
<1>2. PositionOf(n) \in Nodes /\ file.nodes[PositionOf(n)].name = n
  BY <1>1 DEF PositionOf
<1> QED
  BY <1>2 DEF NameAt

LEMMA NamesAreUnique ==
  ASSUME file \in Files, BuildProblems = {}
  PROVE  Unique
<1>1. NameProblems = {}
  BY DEF BuildProblems
<1>2. {Problem("DuplicateNode", file.nodes[i].name) : i \in
         {j \in Nodes : \E k \in Nodes : k < j /\ file.nodes[k].name = file.nodes[j].name}}
      = {}
  BY <1>1 DEF NameProblems
<1>3. ~ \E i, k \in Nodes : k < i /\ file.nodes[k].name = file.nodes[i].name
  BY <1>2
<1>4. Nodes \subseteq Nat
  BY FileFacts
<1> QED
  BY <1>3, <1>4 DEF Unique, NameAt

LEMMA InitLoad == Init => LoadInv
<1> SUFFICES ASSUME Init PROVE LoadInv
  OBVIOUS
<1>1. path = <<>> /\ path \in Seq(Nodes)
  BY EmptySeq DEF Init
<1> QED
  BY <1>1 DEF Init, LoadInv, Searching, Loaded

LEMMA CheckStep ==
  ASSUME LoadInv, Check
  PROVE  LoadInv'
<1>1. /\ file' = file /\ file \in Files /\ path' = <<>> /\ marks' = marks
      /\ marks = [i \in Nodes |-> "unvisited"]
      /\ at' \in {"search", "refused"}
      /\ left' = [i \in Nodes |-> Upstreams(file.nodes[i])]
  BY DEF Check, LoadInv
<1>2. /\ Nodes' = Nodes /\ NameAt' = NameAt /\ Above' = Above
      /\ BuildProblems' = BuildProblems /\ (Unique <=> Unique')
  BY <1>1, FileStays
<1>3. path' \in Seq(Nodes)
  BY <1>1, EmptySeq
<1>4. left' \in [Nodes -> SUBSET {NameAt[i] : i \in Nodes}]
  BY <1>1, FileFacts
<1>5. SearchInv(Nodes, NameAt, Above, marks, left', <<>>)
  <2>1. Above \in [Nodes -> SUBSET Nodes]
    BY <1>1, FileFacts
  <2>2. \A i, j \in Nodes : NameAt[j] \in left'[i] <=> j \in Above[i]
    BY <1>1, FileFacts
  <2> QED
    BY <1>1, <2>1, <2>2, SearchStarts
<1>6. at' = "search" => BuildProblems = {} /\ Unique
  BY <1>1, NamesAreUnique DEF Check
<1>7. SearchInv(Nodes', NameAt', Above', marks', left', path')
  BY <1>1, <1>2, <1>5
<1>8. /\ at' \in {"check", "refused"} \cup Searching
      /\ at' # "check" /\ at' \notin Loaded
  BY <1>1 DEF Searching, Loaded
<1>9. /\ file' \in Files
      /\ left' \in [Nodes' -> SUBSET {NameAt'[i] : i \in Nodes'}]
      /\ path' = <<>> /\ path' \in Seq(Nodes')
  BY <1>1, <1>2, <1>3, <1>4
<1>10. at' \in Searching => Unique' /\ BuildProblems' = {}
  BY <1>1, <1>2, <1>6, <1>8 DEF Searching
<1> QED
  BY <1>7, <1>8, <1>9, <1>10 DEF LoadInv

LEMMA VisitRootStep ==
  ASSUME LoadInv, NEW i \in Nodes, VisitRoot(i)
  PROVE  LoadInv'
<1>1. /\ file' = file /\ file \in Files /\ path = <<>> /\ path' = <<i>>
      /\ at = "search" /\ at' = at /\ left' = left /\ marks[i] = "unvisited"
      /\ marks' = [marks EXCEPT ![i] = "active"]
      /\ Unique /\ BuildProblems = {}
      /\ left \in [Nodes -> SUBSET {NameAt[j] : j \in Nodes}]
      /\ SearchInv(Nodes, NameAt, Above, marks, left, path)
  BY DEF VisitRoot, LoadInv, Searching, IsLeast
<1>2. /\ Nodes' = Nodes /\ NameAt' = NameAt /\ Above' = Above
      /\ BuildProblems' = BuildProblems /\ (Unique <=> Unique')
  BY <1>1, FileStays
<1>3. Above \in [Nodes -> SUBSET Nodes]
  BY <1>1, FileFacts
<1>4. path' = Append(path, i)
  BY <1>1
<1>5. SearchInv(Nodes, NameAt, Above, marks', left', path')
  <2>1. SearchInv(Nodes, NameAt, Above, marks, left, <<>>)
    BY <1>1
  <2>2. \A k, l \in Nodes : NameAt[k] = NameAt[l] => k = l
    BY <1>1 DEF Unique
  <2>3. SearchInv(Nodes, NameAt, Above, [marks EXCEPT ![i] = "active"], left,
                  Append(<<>>, i))
    BY <1>1, <1>3, <2>1, <2>2, SearchEnters
  <2> QED
    BY <1>1, <2>3
<1> QED
  BY <1>1, <1>2, <1>5 DEF LoadInv, Searching, Loaded, SearchInv

LEMMA LookStep ==
  ASSUME LoadInv, NEW n \in left[Top], path # <<>>, Look(n)
  PROVE  LoadInv'
<1> DEFINE j == PositionOf(n)
<1>1. /\ file' = file /\ file \in Files
      /\ at = "search" /\ left' = [left EXCEPT ![Top] = left[Top] \ {n}]
      /\ Unique /\ BuildProblems = {}
      /\ left \in [Nodes -> SUBSET {NameAt[i] : i \in Nodes}]
      /\ SearchInv(Nodes, NameAt, Above, marks, left, path)
  BY DEF Look, LoadInv, Searching
<1>2. /\ Nodes' = Nodes /\ NameAt' = NameAt /\ Above' = Above
      /\ BuildProblems' = BuildProblems /\ (Unique <=> Unique')
  BY <1>1, FileStays
<1>3. Above \in [Nodes -> SUBSET Nodes]
  BY <1>1, FileFacts
<1>4. /\ path \in Seq(Nodes) /\ Len(path) \in Nat \ {0} /\ Len(path) \in 1..Len(path)
      /\ Top \in Nodes /\ Top = path[Len(path)]
      /\ \A k \in 1..Len(path) : path[k] \in Nodes
  BY EmptySeq, LenProperties DEF LoadInv, Top
<1>5. /\ j \in Nodes /\ NameAt[j] = n
  <2>1. n \in NodeNames
    BY <1>1, <1>4, FileFacts
  <2> QED
    BY <2>1, PositionFacts
<1>6. j \in Above[Top]
  BY <1>1, <1>4, <1>5 DEF SearchInv
<1>7. left' \in [Nodes -> SUBSET {NameAt[i] : i \in Nodes}]
  BY <1>1, <1>4
<1>8. marks[j] \in Marks
  BY <1>1, <1>5 DEF SearchInv
<1> HIDE DEF j
<1>9. CASE marks[j] = "done"
  <2>1. at' = at /\ marks' = marks /\ path' = path
    BY <1>9 DEF Look, j
  <2>2. SearchInv(Nodes, NameAt, Above, marks', left', path')
    BY <1>1, <1>3, <1>4, <1>5, <1>9, <2>1, SearchPasses DEF Unique
  <2> QED
    BY <1>1, <1>2, <1>4, <1>7, <2>1, <2>2 DEF LoadInv, Searching, Loaded
<1>10. CASE marks[j] = "unvisited"
  <2>1. /\ at' = at /\ marks' = [marks EXCEPT ![j] = "active"]
        /\ path' = Append(path, j)
    BY <1>10 DEF Look, j
  <2>2. SearchInv(Nodes, NameAt, Above, marks', left', path')
    BY <1>1, <1>3, <1>4, <1>5, <1>6, <1>10, <2>1, SearchEnters DEF Unique
  <2>3. path' \in Seq(Nodes)
    BY <1>4, <1>5, <2>1, AppendProperties
  <2> QED
    BY <1>1, <1>2, <1>7, <2>1, <2>2, <2>3 DEF LoadInv, Searching, Loaded
<1>11. CASE marks[j] = "active"
  <2>1. at' = "refused" /\ path' = Append(path, j)
    BY <1>11 DEF Look, j
  <2>2. /\ path' \in Seq(Nodes) /\ Len(path') = Len(path) + 1
        /\ \A k \in 1..Len(path) : path'[k] = path[k]
        /\ path'[Len(path) + 1] = j
    BY <1>4, <1>5, <2>1, AppendProperties
  <2>3. PICK first \in 1..Len(path) : path[first] = j
    BY <1>1, <1>5, <1>11 DEF SearchInv, OnPath
  <2>4. Top' = j
    BY <1>4, <2>2 DEF Top
  <2>5. ASSUME NEW k \in first..Len(path)
        PROVE  path'[k + 1] \in Above[path'[k]]
    <3>1. CASE k = Len(path)
      BY <1>4, <1>6, <2>2, <3>1
    <3>2. CASE k # Len(path)
      <4>1. k \in 1..Len(path) - 1 /\ k \in 1..Len(path) /\ k + 1 \in 1..Len(path)
        BY <1>4, <2>3, <3>2
      <4>2. path[k + 1] \in Above[path[k]]
        BY <1>1, <4>1 DEF SearchInv, Linked
      <4> QED
        BY <2>2, <4>1, <4>2
    <3> QED
      BY <3>1, <3>2
  <2>6. \E f \in 1..Len(path') - 1 :
          /\ path'[f] = Top'
          /\ \A k \in f..Len(path') - 1 : path'[k + 1] \in Above'[path'[k]]
    <3>1. first \in 1..Len(path') - 1 /\ Len(path') - 1 = Len(path)
      BY <1>4, <2>2, <2>3
    <3>2. path'[first] = Top'
      BY <2>2, <2>3, <2>4
    <3> QED
      BY <1>2, <2>5, <3>1, <3>2
  <2> QED
    BY <1>1, <1>2, <2>1, <2>2, <2>6 DEF LoadInv, Searching, Loaded
<1> QED
  BY <1>8, <1>9, <1>10, <1>11 DEF Marks

LEMMA LeaveStep ==
  ASSUME LoadInv, Leave
  PROVE  LoadInv'
<1>1. /\ file' = file /\ file \in Files /\ left' = left
      /\ at = "search" /\ at' = at /\ path # <<>> /\ left[Top] = {}
      /\ Unique /\ BuildProblems = {}
      /\ left \in [Nodes -> SUBSET {NameAt[i] : i \in Nodes}]
      /\ SearchInv(Nodes, NameAt, Above, marks, left, path)
      /\ marks' = [marks EXCEPT ![path[Len(path)]] = "done"]
      /\ path' = SubSeq(path, 1, Len(path) - 1)
      /\ left[path[Len(path)]] = {}
  BY DEF Leave, LoadInv, Searching, Top
<1>2. /\ Nodes' = Nodes /\ NameAt' = NameAt /\ Above' = Above
      /\ BuildProblems' = BuildProblems /\ (Unique <=> Unique')
  BY <1>1, FileStays
<1>3. Above \in [Nodes -> SUBSET Nodes]
  BY <1>1, FileFacts
<1>4. SearchInv(Nodes, NameAt, Above, marks', left', path')
  BY <1>1, <1>3, SearchLeaves
<1> QED
  BY <1>1, <1>2, <1>4 DEF LoadInv, Searching, Loaded, SearchInv

\* The steps after the search leave the search alone.
LEMMA BuildStep ==
  ASSUME LoadInv, Build \/ RunMember \/ (\E n \in graph.nodes : Submit(n))
                  \/ UNCHANGED vars
  PROVE  LoadInv'
<1>1. /\ file' = file /\ path' = path /\ marks' = marks /\ left' = left
  BY DEF Build, RunMember, Submit, vars
<1>2. /\ Nodes' = Nodes /\ NameAt' = NameAt /\ Above' = Above
      /\ BuildProblems' = BuildProblems /\ (Unique <=> Unique')
      /\ Built' = Built /\ Top' = Top
  BY <1>1, FileStays DEF Top
<1>3. CASE Build
  BY <1>1, <1>2, <1>3 DEF Build, LoadInv, Searching, Loaded
<1>4. CASE RunMember \/ (\E n \in graph.nodes : Submit(n)) \/ UNCHANGED vars
  <2>1. /\ graph' = graph
        /\ at' = at \/ (at \in Loaded /\ at' \in Loaded)
    BY <1>4 DEF RunMember, Submit, vars, Loaded
  <2> QED
    BY <1>1, <1>2, <2>1 DEF LoadInv, Searching, Loaded
<1> QED
  BY <1>3, <1>4

LEMMA NextLoad == LoadInv /\ [Next]_vars => LoadInv'
  BY CheckStep, VisitRootStep, LookStep, LeaveStep, BuildStep DEF Next

LEMMA LoadHolds == Spec => []LoadInv
  BY InitLoad, NextLoad, PTL DEF Spec

\* For any definition, the active nodes of the search are those on its path,
\* and a cycle that it reports is one: each node is an upstream of the one
\* before it (find_cycle).
THEOREM ReportedCyclesAreReal == Spec => []CyclesAreReal
<1>1. LoadInv => CyclesAreReal
  <2> SUFFICES ASSUME LoadInv PROVE CyclesAreReal
    OBVIOUS
  <2>1. DOMAIN path = 1..Len(path) /\ \A k \in 1..Len(path) : path[k] \in Nodes
    BY LenProperties DEF LoadInv
  <2>2. at = "search" => \A i \in Nodes :
          (marks[i] = "active") <=> \E k \in DOMAIN path : path[k] = i
    BY <2>1 DEF LoadInv, Searching, SearchInv, OnPath
  <2>3. ASSUME at = "refused", path # <<>>
        PROVE  \E first \in 1..Len(path) - 1 :
                 /\ path[first] = Top
                 /\ \A k \in first..Len(path) - 1 :
                      file.nodes[path[k + 1]].name \in Upstreams(file.nodes[path[k]])
    <3>1. PICK first \in 1..Len(path) - 1 :
            /\ path[first] = Top
            /\ \A k \in first..Len(path) - 1 : path[k + 1] \in Above[path[k]]
      BY <2>3 DEF LoadInv
    <3>2. Len(path) \in Nat
      BY LenProperties DEF LoadInv
    <3>3. \A k \in first..Len(path) - 1 : path[k] \in Nodes
      BY <2>1, <3>2
    <3> QED
      BY <3>1, <3>3 DEF Above
  <2> QED
    BY <2>2, <2>3 DEF CyclesAreReal
<1> QED
  BY LoadHolds, <1>1, PTL

-----------------------------------------------------------------------------
(* The built graph *)

\* A definition whose sections are at fault is not built.
ProblemsKept ==
  /\ at \in Searching => FileProblems \subseteq problems
  /\ at \in Loaded => problems = {}

LEMMA LookSearches ==
  ASSUME LoadInv, path # <<>>, NEW n \in left[Top], Look(n)
  PROVE  at' \in {"search", "refused"}
<1>1. /\ at = "search" /\ file \in Files /\ path \in Seq(Nodes)
      /\ left \in [Nodes -> SUBSET {NameAt[i] : i \in Nodes}]
      /\ marks \in [Nodes -> Marks]
  BY DEF Look, LoadInv, Searching, SearchInv
<1>2. Top \in Nodes
  BY <1>1, EmptySeq, LenProperties DEF Top
<1>3. n \in NodeNames
  BY <1>1, <1>2, FileFacts
<1>4. marks[PositionOf(n)] \in Marks
  BY <1>1, <1>3, PositionFacts
<1> QED
  BY <1>1, <1>4 DEF Look, Marks

LEMMA ProblemsHold == Spec => []ProblemsKept
<1>1. Init => ProblemsKept
  BY DEF Init, ProblemsKept, Searching, Loaded
<1>2. LoadInv /\ ProblemsKept /\ [Next]_vars => ProblemsKept'
  <2> SUFFICES ASSUME LoadInv, ProblemsKept, [Next]_vars PROVE ProblemsKept'
    OBVIOUS
  <2>1. file' = file => FileProblems' = FileProblems
    BY DEF FileProblems, SectionProblems, IsAsset, Nodes
  <2>2. CASE Check
    BY <2>1, <2>2 DEF Check, ProblemsKept, Searching, Loaded
  <2>3. CASE Build
    BY <2>1, <2>3 DEF Build, ProblemsKept, Searching, Loaded
  <2>4. CASE \/ (\E i \in Nodes : VisitRoot(i)) \/ Leave
             \/ (path # <<>> /\ \E n \in left[Top] : Look(n))
    <3>1. /\ file' = file /\ problems' = problems /\ at = "search"
          /\ at' \in {"search", "refused"}
      <4>1. CASE \E i \in Nodes : VisitRoot(i)
        BY <4>1 DEF VisitRoot
      <4>2. CASE Leave
        BY <4>2 DEF Leave
      <4>3. CASE path # <<>> /\ \E n \in left[Top] : Look(n)
        BY <4>3, LookSearches DEF Look
      <4> QED
        BY <2>4, <4>1, <4>2, <4>3
    <3> QED
      BY <2>1, <3>1 DEF ProblemsKept, Searching, Loaded
  <2>5. CASE (\E n \in graph.nodes : Submit(n)) \/ RunMember \/ UNCHANGED vars
    <3>1. /\ file' = file /\ problems' = problems
          /\ at' = at \/ (at \in Loaded /\ at' \in Loaded)
      BY <2>5 DEF Submit, RunMember, vars, Loaded
    <3> QED
      BY <2>1, <3>1 DEF ProblemsKept, Searching
  <2> QED
    BY <2>2, <2>3, <2>4, <2>5 DEF Next
<1> QED
  BY LoadHolds, <1>1, <1>2, PTL DEF Spec

\* The section of a name.
LEMMA SectionFacts ==
  ASSUME file \in Files, Unique
  PROVE  /\ \A n \in NodeNames : Section(n) = file.nodes[PositionOf(n)]
         /\ \A i \in Nodes : PositionOf(NameAt[i]) = i
         /\ \A m, n \in NodeNames : PositionOf(m) = PositionOf(n) => m = n
<1>1. \A n : Section(n) = file.nodes[PositionOf(n)]
  BY DEF Section, PositionOf
<1>2. \A i \in Nodes : PositionOf(NameAt[i]) = i
  <2> SUFFICES ASSUME NEW i \in Nodes PROVE PositionOf(NameAt[i]) = i
    OBVIOUS
  <2>1. NameAt[i] \in NodeNames
    BY DEF NodeNames, NameAt
  <2> QED
    BY <2>1, PositionFacts DEF Unique
<1>3. \A m, n \in NodeNames : PositionOf(m) = PositionOf(n) => m = n
  BY PositionFacts
<1> QED
  BY <1>1, <1>2, <1>3

\* With every node done the graph has no cycle.
LEMMA BuiltIsGraph ==
  ASSUME file \in Files, Unique, \A i \in Nodes : marks[i] = "done",
         DoneSound(Nodes, Above, marks, left)
  PROVE  IsGraph(Built)
<1>1. /\ Built.nodes = NodeNames
      /\ Built.up = [n \in NodeNames |-> Upstreams(Section(n))]
      /\ Built.rule = [n \in NodeNames |-> RuleOf(Section(n))]
      /\ Built.pos = [n \in NodeNames |-> PositionOf(n)]
  BY DEF Built
<1>2. \A n \in NodeNames :
        /\ Section(n) = file.nodes[PositionOf(n)]
        /\ PositionOf(n) \in Nodes /\ NameAt[PositionOf(n)] = n
  <2>1. \A n \in NodeNames : PositionOf(n) \in Nodes /\ NameAt[PositionOf(n)] = n
    BY PositionFacts
  <2>2. \A n \in NodeNames : Section(n) = file.nodes[PositionOf(n)]
    BY SectionFacts
  <2> QED
    BY <2>1, <2>2
<1>3. Built.up \in [NodeNames -> SUBSET NodeNames]
  <2>1. \A i \in Nodes : Upstreams(file.nodes[i]) \subseteq NodeNames
    BY FileFacts
  <2>2. \A n \in NodeNames : Upstreams(Section(n)) \subseteq NodeNames
    BY <1>2, <2>1
  <2> QED
    BY <1>1, <2>2
<1>4. Built.rule \in [NodeNames -> Rules]
  <2> SUFFICES ASSUME NEW n \in NodeNames PROVE RuleOf(Section(n)) \in Rules
    BY <1>1
  <2>1. Section(n).rule \in Rules \cup {NoRule}
    BY <1>2, FilesAssumption DEF Nodes
  <2> QED
    BY <2>1 DEF RuleOf, Rules
<1>5. Built.pos \in [NodeNames -> Nat]
  <2>1. Nodes \subseteq Nat
    BY FileFacts
  <2> QED
    BY <1>1, <1>2, <2>1
<1>6. \A m, n \in NodeNames : Built.pos[m] = Built.pos[n] => m = n
  BY <1>1, SectionFacts
<1>7. ASSUME NEW S \in SUBSET NodeNames, S # {}
      PROVE  \E n \in S : Built.up[n] \cap S = {}
  <2> DEFINE P == {PositionOf(n) : n \in S}
  <2>1. P \in SUBSET {i \in Nodes : marks[i] = "done"} /\ P # {}
    BY <1>2, <1>7
  <2>2. PICK i \in P : Above[i] \cap P = {}
    BY <2>1 DEF DoneSound
  <2>3. PICK n \in S : i = PositionOf(n)
    BY <2>2
  <2>4. ASSUME NEW m \in Upstreams(Section(n)) \cap S PROVE FALSE
    <3>1. PositionOf(m) \in P /\ PositionOf(m) \in Nodes
      BY <1>2
    <3>2. NameAt[PositionOf(m)] \in Upstreams(file.nodes[i])
      BY <1>2, <2>3
    <3>3. PositionOf(m) \in Above[i]
      BY <1>2, <2>3, <3>1, <3>2, FileFacts
    <3> QED
      BY <2>2, <3>1, <3>3
  <2>5. Built.up[n] = Upstreams(Section(n))
    BY <1>1
  <2> QED
    BY <2>4, <2>5
<1> QED
  BY <1>1, <1>3, <1>4, <1>5, <1>6, <1>7 DEF IsGraph

LEMMA NamesAreCounted ==
  ASSUME file \in Files, Unique
  PROVE  Cardinality(NodeNames) = Len(file.nodes)
<1>1. /\ Len(file.nodes) \in Nat /\ Nodes = 1..Len(file.nodes)
      /\ NodeNames = {NameAt[i] : i \in Nodes}
  BY FileFacts
<1>2. NameAt \in Bijection(Nodes, NodeNames)
  <2>1. NameAt \in [Nodes -> NodeNames]
    BY <1>1 DEF NameAt
  <2>2. \A i, j \in Nodes : NameAt[i] = NameAt[j] => i = j
    BY DEF Unique
  <2>3. \A n \in NodeNames : \E i \in Nodes : NameAt[i] = n
    BY <1>1
  <2> QED
    BY <2>1, <2>2, <2>3 DEF Bijection, Injection, IsInjective, Surjection
<1>3. ExistsBijection(1..Len(file.nodes), NodeNames)
  BY <1>1, <1>2 DEF ExistsBijection
<1> QED
  BY <1>1, <1>3, FS_CountingElements

LEMMA OneProducer ==
  ASSUME BuildProblems = {}, NEW i \in Nodes, NEW j \in Nodes, i # j,
         IsAsset(file.nodes[i])
  PROVE  file.nodes[i].produces # file.nodes[j].produces
<1> SUFFICES ASSUME file.nodes[i].produces = file.nodes[j].produces PROVE FALSE
  OBVIOUS
<1> DEFINE asset == file.nodes[i].produces
           Twice == {a \in Assets : \E k, l \in Nodes :
                       k # l /\ file.nodes[k].produces = a /\ file.nodes[l].produces = a}
<1>1. asset \in Twice
  BY DEF Assets, IsAsset
<1>2. {Problem("DuplicateAsset", a) : a \in Twice} = {}
  <2>1. AssetProblems = {}
    BY DEF BuildProblems
  <2> QED
    BY <2>1 DEF AssetProblems
<1> HIDE DEF asset, Twice
<1> QED
  BY <1>1, <1>2

\* A task node that consumes an asset is a fault.
LEMMA ConsumersAreAssets ==
  ASSUME FileProblems = {}, NEW i \in Nodes, NEW asset \in file.nodes[i].consumes
  PROVE  IsAsset(file.nodes[i])
<1> SUFFICES ASSUME ~IsAsset(file.nodes[i]) PROVE FALSE
  OBVIOUS
<1>1. Problem("TaskNodeConsumes", file.nodes[i].name) \in SectionProblems(file.nodes[i])
  BY DEF SectionProblems
<1>2. SectionProblems(file.nodes[i]) \subseteq FileProblems
  BY DEF FileProblems
<1> QED
  BY <1>1, <1>2

\* An asset node that is after others is a fault.
LEMMA FollowersAreTasks ==
  ASSUME FileProblems = {}, NEW i \in Nodes, IsAsset(file.nodes[i])
  PROVE  file.nodes[i].after = {}
<1> SUFFICES ASSUME file.nodes[i].after # {} PROVE FALSE
  OBVIOUS
<1>1. Problem("AssetNodeAfter", file.nodes[i].name) \in SectionProblems(file.nodes[i])
  BY DEF SectionProblems
<1>2. SectionProblems(file.nodes[i]) \subseteq FileProblems
  BY DEF FileProblems
<1> QED
  BY <1>1, <1>2

\* An asset that nothing produces and a node that is not there are faults.
LEMMA UpstreamsAreThere ==
  ASSUME BuildProblems = {}, NEW i \in Nodes
  PROVE  /\ IsAsset(file.nodes[i]) =>
              \A asset \in file.nodes[i].consumes : Producers(asset) # {}
         /\ ~IsAsset(file.nodes[i]) => file.nodes[i].after \subseteq NodeNames
<1> DEFINE s == file.nodes[i]
<1>1. UpstreamProblems(s) = {}
  <2>1. UpstreamProblems(s) \subseteq NodeProblems(s)
    BY DEF NodeProblems
  <2>2. NodeProblems(s) \subseteq BuildProblems
    BY DEF BuildProblems
  <2> QED
    BY <2>1, <2>2
<1>2. ASSUME IsAsset(s), NEW asset \in s.consumes, Producers(asset) = {}
      PROVE  FALSE
  <2>1. Problem("UnknownAsset", s.name) \in UpstreamProblems(s)
    BY <1>2 DEF UpstreamProblems
  <2> QED
    BY <1>1, <2>1
<1>3. ASSUME ~IsAsset(s), NEW n \in s.after \ NodeNames
      PROVE  FALSE
  <2>1. Problem("UnknownNode", s.name) \in UpstreamProblems(s)
    BY <1>3 DEF UpstreamProblems
  <2> QED
    BY <1>1, <2>1
<1> QED
  BY <1>2, <1>3

\* For any definition, a graph that is built has unique names, no cycle, for every
\* node the upstreams of its section and no others, and one producer of an asset
\* (Graph::build); the theorems about schedulers assume no more of a graph.
THEOREM BuiltGraphIsSound == Spec => []GraphIsSound
<1>1. LoadInv /\ ProblemsKept => GraphIsSound
  <2> SUFFICES ASSUME LoadInv, ProblemsKept, at \in Loaded PROVE GraphIsSound
    BY DEF GraphIsSound
  <2>1. /\ file \in Files /\ Unique /\ BuildProblems = {} /\ graph = Built
        /\ \A i \in Nodes : marks[i] = "done"
        /\ DoneSound(Nodes, Above, marks, left)
    BY DEF LoadInv, Searching, SearchInv
  <2>2. FileProblems = {}
    BY DEF ProblemsKept, Searching
  <2>3. IsGraph(graph)
    BY <2>1, BuiltIsGraph
  <2>4. Cardinality(graph.nodes) = Len(file.nodes)
    BY <2>1, NamesAreCounted DEF Built
  <2>5. ASSUME NEW j \in Nodes
        PROVE  /\ \A asset \in file.nodes[j].consumes : Producers(asset) # {}
               /\ graph.up[file.nodes[j].name] =
                    file.nodes[j].after \cup
                      UNION {Producers(asset) : asset \in file.nodes[j].consumes}
    <3> DEFINE s == file.nodes[j]
    <3>1. s.name \in NodeNames /\ NameAt[j] = s.name
      BY DEF NodeNames, NameAt
    <3>2. Section(s.name) = s
      BY <2>1, <3>1, SectionFacts
    <3>3. graph.up[s.name] = Upstreams(s)
      BY <2>1, <3>1, <3>2 DEF Built
    <3>4. CASE IsAsset(s)
      <4>1. s.after = {}
        BY <2>2, <3>4, FollowersAreTasks
      <4>2. \A asset \in s.consumes : Producers(asset) # {}
        BY <2>1, <3>4, UpstreamsAreThere
      <4>3. Upstreams(s) = UNION {Producers(asset) : asset \in s.consumes}
        BY <3>4 DEF Upstreams
      <4> QED
        BY <3>3, <4>1, <4>2, <4>3
    <3>5. CASE ~IsAsset(s)
      <4>1. s.consumes = {}
        BY <2>2, <3>5, ConsumersAreAssets
      <4>2. s.after \subseteq NodeNames
        BY <2>1, <3>5, UpstreamsAreThere
      <4>3. Upstreams(s) = s.after \cap NodeNames
        BY <3>5 DEF Upstreams
      <4>4. UNION {Producers(asset) : asset \in s.consumes} = {}
        BY <4>1
      <4> QED
        BY <3>3, <4>1, <4>2, <4>3, <4>4
    <3> QED
      BY <3>4, <3>5
  <2>6. \A i, j \in Nodes : IsAsset(file.nodes[i]) /\ i # j =>
          file.nodes[i].produces # file.nodes[j].produces
    BY <2>1, OneProducer
  <2> QED
    BY <2>3, <2>4, <2>5, <2>6 DEF GraphIsSound
<1> QED
  BY LoadHolds, ProblemsHold, <1>1, PTL

-----------------------------------------------------------------------------
(* What a template can miss *)

Faults == {"MissingUpstream", "MissingPath", "MissingItem", "MissingItemPath",
           "MissingEnv"}

LEMMA ErrorFacts ==
  ASSUME NEW text, NEW ctx, NEW fault \in Errors(text, ctx)
  PROVE  /\ fault \in Faults
         /\ fault = "MissingUpstream" =>
              \E node \in UpstreamNodes(text) : node \notin DOMAIN ctx.inputs
         /\ fault = "MissingItem" => RefersToItem(text) /\ ctx.item = NoItem
<1>1. text.parses /\ \E ref \in text.refs : fault = ErrorOf(ref, ctx) /\ fault # "none"
  BY DEF Errors
<1>2. PICK ref \in text.refs : fault = ErrorOf(ref, ctx) /\ fault # "none"
  BY <1>1
<1>3. CASE ref.of = "upstream"
  <2>1. \/ fault = "MissingUpstream" /\ ref.node \notin DOMAIN ctx.inputs
        \/ fault = "MissingPath"
    BY <1>2, <1>3 DEF ErrorOf
  <2>2. ref.node \in UpstreamNodes(text)
    BY <1>3 DEF UpstreamNodes
  <2> QED
    BY <2>1, <2>2 DEF Faults
<1>4. CASE ref.of = "item"
  <2>1. \/ fault = "MissingItem" /\ ctx.item = NoItem
        \/ fault = "MissingItemPath"
    BY <1>2, <1>4 DEF ErrorOf
  <2> QED
    BY <1>4, <2>1 DEF Faults, RefersToItem
<1>5. CASE ref.of \notin {"upstream", "item"}
  BY <1>2, <1>5 DEF ErrorOf, Faults
<1> QED
  BY <1>3, <1>4, <1>5

\* The texts of a definition without faults.
LEMMA TextFacts ==
  ASSUME BuildProblems = {}, NEW i \in Nodes
  PROVE  LET s == file.nodes[i]
         IN  /\ \A text \in s.params :
                  /\ text.parses /\ UpstreamNodes(text) \subseteq Upstreams(s)
                  /\ s.each = NoText => ~RefersToItem(text)
             /\ s.each # NoText =>
                  /\ UpstreamNodes(s.each) \subseteq Upstreams(s)
                  /\ ~RefersToItem(s.each)
<1> DEFINE s == file.nodes[i]
<1>1. NodeProblems(s) = {}
  BY DEF BuildProblems
<1>2. EachProblems(s) = {} /\ \A text \in s.params : TextProblems(s, text) = {}
  BY <1>1 DEF NodeProblems
<1> HIDE DEF s
<1>3. ASSUME NEW text \in s.params
      PROVE  /\ text.parses /\ UpstreamNodes(text) \subseteq Upstreams(s)
             /\ s.each = NoText => ~RefersToItem(text)
  <2>1. TextProblems(s, text) = {}
    BY <1>2
  <2>2. text.parses
    BY <2>1 DEF TextProblems
  <2>3. /\ {Problem("UnknownTemplateUpstream", s.name) :
              u \in UpstreamNodes(text) \ Upstreams(s)} = {}
        /\ {Problem("ItemWithoutEach", s.name) :
              r \in {t \in {text} : s.each = NoText /\ RefersToItem(t)}} = {}
    BY <2>1, <2>2 DEF TextProblems
  <2>4. UpstreamNodes(text) \subseteq Upstreams(s)
    BY <2>3
  <2>5. {t \in {text} : s.each = NoText /\ RefersToItem(t)} = {}
    BY <2>3
  <2> QED
    BY <2>2, <2>4, <2>5
<1>4. ASSUME s.each # NoText
      PROVE  UpstreamNodes(s.each) \subseteq Upstreams(s) /\ ~RefersToItem(s.each)
  <2>1. /\ {Problem("EachRefersToItem", s.name) :
              t \in {u \in {s.each} : RefersToItem(u)}} = {}
        /\ {Problem("UnknownEachUpstream", s.name) :
              u \in UpstreamNodes(s.each) \ Upstreams(s)} = {}
    BY <1>2, <1>4 DEF EachProblems
  <2>2. {u \in {s.each} : RefersToItem(u)} = {}
    BY <2>1
  <2> QED
    BY <2>1, <2>2
<1> QED
  BY <1>3, <1>4 DEF s

\* The node runs when every upstream has succeeded.
Complete(n) == graph.rule[n] = "all_succeeded"

\* A task has the outputs of its upstreams, and a member those it refers to.
InputKept ==
  /\ at \in {"task", "member"} =>
       /\ task.node \in graph.nodes
       /\ task.input.params = Section(task.node).params
  /\ at = "task" =>
       /\ task = [node |-> task.node, input |-> task.input]
       /\ task.input =
            [params |-> task.input.params, each |-> task.input.each,
             item |-> task.input.item, inputs |-> task.input.inputs,
             upstreams |-> task.input.upstreams]
       /\ task.input.each = Section(task.node).each
       /\ Complete(task.node) =>
            graph.up[task.node] \subseteq DOMAIN task.input.inputs
  /\ at = "member" =>
       /\ task.input.item # NoItem
       /\ Complete(task.node) =>
            graph.up[task.node] \cap ReferredUpstreams(task.input.params)
              \subseteq DOMAIN task.input.inputs

LEMMA SubmitKeepsInput ==
  ASSUME NEW n \in graph.nodes, Submit(n)
  PROVE  InputKept'
<1>1. /\ file' = file /\ graph' = graph /\ at' = "task"
      /\ \E status \in [graph.up[n] -> Terminal \cup {"absent"}],
            output \in [graph.up[n] -> Values] :
           LET recs == [m \in graph.nodes |->
                          [NoRecord(graph) EXCEPT !.status =
                             IF m \in graph.up[n] THEN status[m] ELSE "absent"]]
               outputs == [m \in graph.up[n] |-> [output[m] EXCEPT !.from = m]]
           IN /\ IsReady(graph, n, recs)
              /\ task' = [node |-> n,
                          input |-> TaskInput(graph, n, Section(n).params,
                                              Section(n).each, recs, outputs)]
  BY DEF Submit
<1>2. PICK recs, outputs :
        /\ IsReady(graph, n, recs)
        /\ task' = [node |-> n,
                    input |-> TaskInput(graph, n, Section(n).params,
                                        Section(n).each, recs, outputs)]
  BY <1>1
<1>3. Section(n)' = Section(n)
  BY <1>1 DEF Section, Nodes
<1>4. Complete(n) => \A u \in graph.up[n] : recs[u].status = "succeeded"
  BY <1>2 DEF IsReady, Complete
<1>5. /\ task'.node = n
      /\ task'.input = [params |-> Section(n).params, each |-> Section(n).each,
           item |-> NoItem,
           inputs |-> [u \in {v \in graph.up[n] : recs[v].status = "succeeded"} |->
                         outputs[u]],
           upstreams |-> [u \in {v \in graph.up[n] : recs[v].status # "absent"} |->
                            recs[u].status]]
      /\ task' = [node |-> task'.node, input |-> task'.input]
  BY <1>2 DEF TaskInput
<1>6. Complete(n) => DOMAIN task'.input.inputs = graph.up[n]
  BY <1>4, <1>5
<1>7. /\ task'.input.params = Section(n).params
      /\ task'.input.each = Section(n).each
      /\ task'.input =
           [params |-> task'.input.params, each |-> task'.input.each,
            item |-> task'.input.item, inputs |-> task'.input.inputs,
            upstreams |-> task'.input.upstreams]
  BY <1>5
<1>8. Section(task.node)' = Section(n) /\ Complete(task.node)' = Complete(n)
  BY <1>1, <1>3, <1>5 DEF Section, Nodes, Complete
<1> QED
  BY <1>1, <1>5, <1>6, <1>7, <1>8 DEF InputKept

LEMMA MemberFields ==
  ASSUME NEW a, NEW b, NEW c, NEW d, NEW e, NEW input, NEW item,
         input = [params |-> a, each |-> b, item |-> c, inputs |-> d, upstreams |-> e]
  PROVE  /\ Member(input, item).params = a
         /\ Member(input, item).item = item
         /\ Member(input, item).inputs =
              [u \in DOMAIN d \cap ReferredUpstreams(a) |-> d[u]]
<1> DEFINE inputs == [u \in DOMAIN d \cap ReferredUpstreams(a) |-> d[u]]
           r == [[params |-> a, each |-> b, item |-> c, inputs |-> d, upstreams |-> e]
                   EXCEPT !.each = NoText, !.item = item, !.inputs = inputs]
<1>1. input.params = a /\ input.inputs = d
  OBVIOUS
<1>2. Member(input, item) =
        [input EXCEPT !.each = NoText, !.item = item, !.inputs = inputs]
  BY <1>1 DEF Member
<1>3. Member(input, item) = r
  BY <1>2
<1> HIDE DEF inputs
<1>4. r.params = a /\ r.item = item /\ r.inputs = inputs
  OBVIOUS
<1> QED
  BY <1>3, <1>4 DEF inputs

LEMMA MemberKeepsInput ==
  ASSUME InputKept, RunMember
  PROVE  InputKept'
<1>1. PICK item \in Values :
        task' = [task EXCEPT !.input = Member(@, [item EXCEPT !.from = "item"])]
  BY DEF RunMember
<1> DEFINE in == task.input
           it == [item EXCEPT !.from = "item"]
<1>2. /\ at = "task" /\ at' = "member" /\ file' = file /\ graph' = graph
      /\ task.node \in graph.nodes /\ in.params = Section(task.node).params
      /\ task = [node |-> task.node, input |-> in]
      /\ in = [params |-> in.params, each |-> in.each, item |-> in.item,
               inputs |-> in.inputs, upstreams |-> in.upstreams]
      /\ Complete(task.node) => graph.up[task.node] \subseteq DOMAIN in.inputs
  BY DEF RunMember, InputKept
<1>3. it # NoItem
  BY ItemsAssumption
<1>4. task'.node = task.node /\ task'.input = Member(in, it)
  <2> HIDE DEF it
  <2>1. task' = [task EXCEPT !.input = Member(task.input, it)]
    BY <1>1 DEF it
  <2> QED
    BY <1>2, <2>1
<1> HIDE DEF it
<1>5. /\ Member(in, it).params = in.params /\ Member(in, it).item = it
      /\ Member(in, it).inputs =
           [u \in DOMAIN in.inputs \cap ReferredUpstreams(in.params) |-> in.inputs[u]]
  BY <1>2, MemberFields
<1>6. /\ task'.input.params = in.params /\ task'.input.item = it
      /\ DOMAIN task'.input.inputs = DOMAIN in.inputs \cap ReferredUpstreams(in.params)
  BY <1>4, <1>5
<1>7. Section(task.node)' = Section(task.node) /\ (Complete(task.node))' = Complete(task.node)
  BY <1>2, <1>4 DEF Section, Nodes, Complete
<1> QED
  BY <1>2, <1>3, <1>4, <1>6, <1>7 DEF InputKept

LEMMA InputHolds == Spec => []InputKept
<1>1. Init => InputKept
  BY DEF Init, InputKept
<1>2. LoadInv /\ InputKept /\ [Next]_vars => InputKept'
  <2> SUFFICES ASSUME LoadInv, InputKept, [Next]_vars PROVE InputKept'
    OBVIOUS
  <2>1. CASE Check \/ (\E i \in Nodes : VisitRoot(i)) \/ Leave \/ Build
    <3>1. at' \notin {"task", "member"}
      BY <2>1 DEF Check, VisitRoot, Leave, Build
    <3> QED
      BY <3>1 DEF InputKept
  <2>2. CASE path # <<>> /\ \E n \in left[Top] : Look(n)
    BY <2>2, LookSearches DEF InputKept
  <2>3. CASE \E n \in graph.nodes : Submit(n)
    BY <2>3, SubmitKeepsInput
  <2>4. CASE RunMember
    BY <2>4, MemberKeepsInput
  <2>5. CASE UNCHANGED vars
    BY <2>5 DEF InputKept, vars, Section, Nodes, Complete
  <2> QED
    BY <2>1, <2>2, <2>3, <2>4, <2>5 DEF Next
<1> QED
  BY LoadHolds, <1>1, <1>2, PTL DEF Spec

\* For any definition and any output, a template of a built graph misses no
\* more than a path or a variable, or an output under a rule that does not ask
\* for every success (check_templates, check_each, TaskInput).
THEOREM TemplatesMissOnlyPaths == Spec => []OnlyPathsAreMissing
<1>1. LoadInv /\ InputKept => OnlyPathsAreMissing
  <2> SUFFICES ASSUME LoadInv, InputKept, at \in {"task", "member"}
               PROVE  OnlyPathsAreMissing
    BY DEF OnlyPathsAreMissing
  <2> DEFINE n == task.node
             s == Section(n)
             in == task.input
  <2>1. /\ file \in Files /\ Unique /\ BuildProblems = {} /\ graph = Built
        /\ n \in NodeNames /\ in.params = s.params
    BY DEF LoadInv, InputKept, Searching, Loaded, Built
  <2>2. /\ \A text \in s.params :
             /\ text.parses /\ UpstreamNodes(text) \subseteq Upstreams(s)
             /\ s.each = NoText => ~RefersToItem(text)
        /\ s.each # NoText =>
             /\ UpstreamNodes(s.each) \subseteq Upstreams(s)
             /\ ~RefersToItem(s.each)
    <3>1. PositionOf(n) \in Nodes
      BY <2>1, PositionFacts
    <3>2. s = file.nodes[PositionOf(n)]
      BY <2>1, SectionFacts
    <3> QED
      BY <2>1, <3>1, <3>2, TextFacts
  <2>3. graph.up[n] = Upstreams(s)
    BY <2>1 DEF Built
  <2>4. \A text \in s.params : UpstreamNodes(text) \subseteq ReferredUpstreams(in.params)
    BY <2>1, <2>2 DEF ReferredUpstreams
  <2>5. ASSUME NEW fault \in Errors(in.each, in), at = "task", in.each # NoText
        PROVE  /\ fault \in Faults /\ fault # "MissingItem"
               /\ Complete(n) => fault # "MissingUpstream"
    <3>1. in.each = s.each /\ (Complete(n) => Upstreams(s) \subseteq DOMAIN in.inputs)
      BY <2>3, <2>5 DEF InputKept
    <3> QED
      BY <2>2, <2>5, <3>1, ErrorFacts
  <2>6. ASSUME NEW text \in s.params, NEW fault \in Errors(text, in),
               at = "task" => in.each = NoText
        PROVE  /\ fault \in Faults /\ fault # "MissingItem"
               /\ Complete(n) => fault # "MissingUpstream"
    <3>1. Complete(n) => UpstreamNodes(text) \subseteq DOMAIN in.inputs
      BY <2>2, <2>3, <2>4 DEF InputKept
    <3>2. RefersToItem(text) => in.item # NoItem
      BY <2>2, <2>6 DEF InputKept
    <3> QED
      BY <2>6, <3>1, <3>2, ErrorFacts
  <2>7. \A fault \in Faults \ {"MissingItem"} :
          /\ fault \in Missable \cup {"MissingUpstream"}
          /\ fault # "MissingUpstream" => fault \in Missable
    BY DEF Faults, Missable
  <2>8. CASE at = "task" /\ in.each # NoText
    BY <2>5, <2>7, <2>8 DEF OnlyPathsAreMissing, Complete
  <2>9. CASE ~(at = "task" /\ in.each # NoText)
    <3>1. \A fault \in ParamErrors(in) :
            /\ fault \in Faults \ {"MissingItem"}
            /\ Complete(n) => fault # "MissingUpstream"
      BY <2>1, <2>6, <2>9 DEF ParamErrors
    <3> QED
      BY <2>7, <2>9, <3>1 DEF OnlyPathsAreMissing, Complete
  <2> QED
    BY <2>8, <2>9
<1> QED
  BY LoadHolds, InputHolds, <1>1, PTL

-----------------------------------------------------------------------------
(* The members of a mapped node *)

\* Two contexts in which the references of a text find the same.
Alike(text, c, d) ==
  /\ c.item = d.item
  /\ \A ref \in text.refs : ref.of = "upstream" =>
       /\ ref.node \in DOMAIN c.inputs <=> ref.node \in DOMAIN d.inputs
       /\ ref.node \in DOMAIN c.inputs => c.inputs[ref.node] = d.inputs[ref.node]

LEMMA ErrorsAlike ==
  ASSUME NEW text, NEW c, NEW d, text.parses => Alike(text, c, d)
  PROVE  Errors(text, c) = Errors(text, d)
<1>1. CASE text.parses
  <2>1. ASSUME NEW ref \in text.refs
        PROVE  ErrorOf(ref, c) = ErrorOf(ref, d)
    <3>1. CASE ref.of = "upstream"
      <4>1. /\ ref.node \in DOMAIN c.inputs <=> ref.node \in DOMAIN d.inputs
            /\ ref.node \in DOMAIN c.inputs => c.inputs[ref.node] = d.inputs[ref.node]
        BY <1>1, <3>1 DEF Alike
      <4> QED
        BY <3>1, <4>1 DEF ErrorOf
    <3>2. CASE ref.of = "item"
      BY <1>1, <3>2 DEF ErrorOf, Alike
    <3>3. CASE ref.of \notin {"upstream", "item"}
      BY <3>3 DEF ErrorOf
    <3> QED
      BY <3>1, <3>2, <3>3
  <2>2. {ErrorOf(ref, c) : ref \in text.refs} = {ErrorOf(ref, d) : ref \in text.refs}
    BY <2>1
  <2> QED
    BY <2>2 DEF Errors
<1>2. CASE ~text.parses
  BY <1>2 DEF Errors
<1> QED
  BY <1>1, <1>2

LEMMA RenderedAlike ==
  ASSUME NEW text, NEW c, NEW d, text.parses => Alike(text, c, d), Errors(text, c) = {}
  PROVE  Rendered(text, c) = Rendered(text, d)
<1> DEFINE refs == IF text.parses THEN text.refs ELSE {}
           Value(ref, ctx) ==
             CASE ref.of = "upstream" -> At(ctx.inputs[ref.node], ref.path)
               [] ref.of = "item" -> At(ctx.item, ref.path)
               [] OTHER -> <<ref.of, ref.path>>
<1>1. ASSUME NEW ref \in refs
      PROVE  Value(ref, c) = Value(ref, d)
  <2>1. text.parses /\ ref \in text.refs /\ Alike(text, c, d)
    BY <1>1
  <2>2. CASE ref.of = "upstream"
    <3>1. ErrorOf(ref, c) = "none"
      BY <2>1 DEF Errors
    <3>2. ref.node \in DOMAIN c.inputs
      BY <2>2, <3>1 DEF ErrorOf
    <3>3. c.inputs[ref.node] = d.inputs[ref.node]
      BY <2>1, <2>2, <3>2 DEF Alike
    <3> QED
      BY <2>2, <3>3
  <2>3. CASE ref.of = "item"
    BY <2>1, <2>3 DEF Alike
  <2>4. CASE ref.of \notin {"upstream", "item"}
    BY <2>4
  <2> QED
    BY <2>2, <2>3, <2>4
<1>2. Rendered(text, c) = [ref \in refs |-> Value(ref, c)]
  BY DEF Rendered
<1>3. Rendered(text, d) = [ref \in refs |-> Value(ref, d)]
  BY DEF Rendered
<1> HIDE DEF refs, Value
<1> QED
  BY <1>1, <1>2, <1>3

LEMMA WholeFields ==
  ASSUME NEW a, NEW b, NEW c, NEW d, NEW e, NEW input, NEW item,
         input = [params |-> a, each |-> b, item |-> c, inputs |-> d, upstreams |-> e]
  PROVE  /\ [input EXCEPT !.item = item].params = a
         /\ [input EXCEPT !.item = item].item = item
         /\ [input EXCEPT !.item = item].inputs = d
OBVIOUS

\* The parameters of a member find in the outputs that it keeps what they would
\* find in those of the node.
LEMMA MemberAlike ==
  ASSUME NEW m, NEW whole, NEW d, NEW params,
         m.params = params, whole.params = params, m.item = whole.item,
         whole.inputs = d,
         m.inputs = [u \in DOMAIN d \cap ReferredUpstreams(params) |-> d[u]]
  PROVE  /\ ParamErrors(m) = ParamErrors(whole)
         /\ ParamErrors(whole) = {} => RenderedParams(m) = RenderedParams(whole)
<1>1. ASSUME NEW text \in params, text.parses
      PROVE  Alike(text, m, whole) /\ Alike(text, whole, m)
  <2>1. UpstreamNodes(text) \subseteq ReferredUpstreams(params)
    BY <1>1 DEF ReferredUpstreams
  <2>2. \A ref \in text.refs : ref.of = "upstream" =>
          ref.node \in ReferredUpstreams(params)
    BY <2>1 DEF UpstreamNodes
  <2>3. /\ DOMAIN m.inputs = DOMAIN d \cap ReferredUpstreams(params)
        /\ \A u \in DOMAIN m.inputs : m.inputs[u] = d[u]
    OBVIOUS
  <2> QED
    BY <2>2, <2>3 DEF Alike
<1>2. \A text \in params : Errors(text, m) = Errors(text, whole)
  BY <1>1, ErrorsAlike
<1>3. ParamErrors(m) = ParamErrors(whole)
  BY <1>2 DEF ParamErrors
<1>4. ASSUME ParamErrors(whole) = {}
      PROVE  RenderedParams(m) = RenderedParams(whole)
  <2>1. \A text \in params : Errors(text, m) = {}
    BY <1>2, <1>4 DEF ParamErrors
  <2>2. \A text \in params : Rendered(text, m) = Rendered(text, whole)
    BY <1>1, <2>1, RenderedAlike
  <2>3. RenderedParams(m) = [text \in params |-> Rendered(text, m)]
    BY DEF RenderedParams
  <2>4. RenderedParams(whole) = [text \in params |-> Rendered(text, whole)]
    BY DEF RenderedParams
  <2> QED
    BY <2>2, <2>3, <2>4
<1> QED
  BY <1>3, <1>4

\* For any definition and any outputs, a member renders its parameters as it
\* would with every output of its node, also where it fails to
\* (TaskInput::member, referred_upstreams).
THEOREM MembersAreRenderedAlike == Spec => MembersRenderAlike
<1>1. LoadInv /\ InputKept /\ [Next]_vars =>
        [at = "task" /\ at' = "member" =>
           LET whole == [task.input EXCEPT !.item = task'.input.item]
           IN /\ ParamErrors(task'.input) = ParamErrors(whole)
              /\ ParamErrors(whole) = {} =>
                   RenderedParams(task'.input) = RenderedParams(whole)]_vars
  <2> SUFFICES ASSUME LoadInv, InputKept, [Next]_vars, at = "task", at' = "member"
               PROVE  LET whole == [task.input EXCEPT !.item = task'.input.item]
                      IN /\ ParamErrors(task'.input) = ParamErrors(whole)
                         /\ ParamErrors(whole) = {} =>
                              RenderedParams(task'.input) = RenderedParams(whole)
    OBVIOUS
  <2>1. RunMember
    BY DEF Next, vars, Check, VisitRoot, Look, Leave, Build, Submit
  <2>2. PICK item \in Values :
          task' = [task EXCEPT !.input = Member(@, [item EXCEPT !.from = "item"])]
    BY <2>1 DEF RunMember
  <2> DEFINE in == task.input
             it == [item EXCEPT !.from = "item"]
  <2>3. /\ task = [node |-> task.node, input |-> in]
        /\ in = [params |-> in.params, each |-> in.each, item |-> in.item,
                 inputs |-> in.inputs, upstreams |-> in.upstreams]
    BY DEF InputKept
  <2>4. task'.input = Member(in, it)
    <3> HIDE DEF it
    <3>1. task' = [task EXCEPT !.input = Member(task.input, it)]
      BY <2>2 DEF it
    <3> QED
      BY <2>3, <3>1
  <2> HIDE DEF it
  <2>5. /\ Member(in, it).params = in.params /\ Member(in, it).item = it
        /\ Member(in, it).inputs =
             [u \in DOMAIN in.inputs \cap ReferredUpstreams(in.params) |-> in.inputs[u]]
    BY <2>3, MemberFields
  <2> DEFINE whole == [in EXCEPT !.item = task'.input.item]
  <2>6. /\ whole.params = in.params /\ whole.item = task'.input.item
        /\ whole.inputs = in.inputs
    BY <2>3, WholeFields
  <2> HIDE DEF whole
  <2>7. /\ ParamErrors(task'.input) = ParamErrors(whole)
        /\ ParamErrors(whole) = {} => RenderedParams(task'.input) = RenderedParams(whole)
    BY <2>4, <2>5, <2>6, MemberAlike
  <2> QED
    BY <2>7 DEF whole
<1> QED
  BY LoadHolds, InputHolds, <1>1, PTL DEF Spec, MembersRenderAlike

-----------------------------------------------------------------------------
(* The firings of a schedule lie apart.  The check of a schedule looks at    *)
(* the neighbours of one firing.  That decides for all of them because the   *)
(* time fields of an expression apply on every day that it fires: a block of *)
(* length L with two firings has their copies in every block with a firing,  *)
(* so in that of the first one after the epoch.                              *)

\* The firings of a block are those of any other, at its place.
Repeats(S, L) == \A t, u \in S : L * (u \div L) + (t % L) \in S

\* Every schedule is one of cron fields: what the comment of
\* fires_twice_within_a_partition says of an expression.
SchedulesRepeat ==
  /\ Epoch \in Nat /\ MinutesPerHour \in Nat \ {0} /\ HoursPerDay \in Nat \ {0}
  /\ \A f \in Files : f.schedule \notin {NoSchedule, BadSchedule} =>
       /\ f.schedule \in SUBSET Nat
       /\ f.partition \in {"none", "hourly", "daily"}
       /\ \A t \in f.schedule : \E u \in f.schedule : u > Epoch
       /\ Repeats(f.schedule, MinutesPerHour)
       /\ Repeats(f.schedule, MinutesPerHour * HoursPerDay)

LEMMA LeastExists ==
  ASSUME NEW S \in SUBSET Nat, S # {}
  PROVE  \E x \in S : \A y \in S : x <= y
<1>1. PICK x \in S : \A y \in S : ~(<<y, x>> \in OpToRel(<, Nat))
  BY NatLessThanWellFounded, WFMin
<1>2. \A y \in S : x <= y
  <2> SUFFICES ASSUME NEW y \in S, y < x PROVE FALSE
    OBVIOUS
  <2>1. <<y, x>> \in OpToRel(<, Nat)
    BY DEF OpToRel
  <2> QED
    BY <1>1, <2>1
<1> QED
  BY <1>2

\* The greatest element below a number.
LEMMA GreatestExists ==
  ASSUME NEW S \in SUBSET Nat, NEW f \in Nat, NEW w \in S, w < f
  PROVE  \E x \in S : x < f /\ \A y \in S : y < f => y <= x
<1> DEFINE D == {d \in Nat : \E y \in S : y < f /\ d = f - y}
<1>1. f - w \in D
  OBVIOUS
<1>2. PICK d \in D : \A e \in D : d <= e
  BY <1>1, LeastExists
<1>3. PICK x \in S : x < f /\ d = f - x
  BY <1>2
<1>4. ASSUME NEW y \in S, y < f PROVE y <= x
  <2>1. f - y \in D
    BY <1>4
  <2>2. d <= f - y
    BY <1>2, <2>1
  <2>3. x \in Nat /\ y \in Nat /\ d = f - x
    BY <1>3, <1>4
  <2> HIDE DEF D
  <2> QED
    BY <2>2, <2>3
<1> QED
  BY <1>3, <1>4

LEMMA Products ==
  ASSUME NEW L \in Nat \ {0}, NEW a \in Int, NEW b \in Int, a > b
  PROVE  L * a >= L * b + L
<1>1. a - b - 1 \in Nat
  OBVIOUS
<1>2. L * (a - b - 1) >= 0
  BY <1>1
<1>3. L * (a - b - 1) = L * a - L * b - L
  OBVIOUS
<1> QED
  BY <1>2, <1>3

LEMMA Division ==
  ASSUME NEW L \in Nat \ {0}, NEW a \in Nat
  PROVE  /\ a \div L \in Nat /\ a % L \in 0..L - 1
         /\ a = L * (a \div L) + (a % L)
OBVIOUS

LEMMA Quotients ==
  ASSUME NEW L \in Nat \ {0}, NEW q \in Nat, NEW a \in Nat,
         L * q <= a, a < L * q + L
  PROVE  a \div L = q
<1>1. /\ a \div L \in Nat /\ L * (a \div L) <= a /\ a < L * (a \div L) + L
  BY Division
<1>2. ~(a \div L > q)
  BY <1>1, Products
<1>3. ~(q > a \div L)
  BY <1>1, Products
<1> QED
  BY <1>1, <1>2, <1>3

\* A number between two of a block is of the block.
LEMMA Between ==
  ASSUME NEW L \in Nat \ {0}, NEW a \in Nat, NEW b \in Nat, NEW x \in Nat,
         a <= x, x <= b, a \div L = b \div L
  PROVE  x \div L = a \div L
<1> DEFINE q == a \div L
<1>1. /\ q \in Nat /\ L * q <= a /\ b < L * q + L /\ L * q \in Nat
  <2>1. /\ q \in Nat /\ a % L \in 0..L - 1 /\ a = L * q + (a % L)
        /\ b % L \in 0..L - 1 /\ b = L * q + (b % L)
    BY Division
  <2> HIDE DEF q
  <2>2. L * q \in Nat
    BY <2>1
  <2> QED
    BY <2>1, <2>2
<1> HIDE DEF q
<1>2. L * q <= x /\ x < L * q + L
  BY <1>1
<1>3. x \div L = q
  BY <1>1, <1>2, Quotients
<1> QED
  BY <1>3 DEF q

\* Two firings of one block show beside any firing.
LEMMA TwiceEverywhere ==
  ASSUME NEW L \in Nat \ {0}, NEW S \in SUBSET Nat, Repeats(S, L),
         NEW t \in S, NEW u \in S, t # u, t \div L = u \div L,
         NEW f \in S
  PROVE  \E w \in S : w # f /\ w \div L = f \div L
<1> DEFINE q == f \div L
           a == L * q + (t % L)
           b == L * q + (u % L)
<1>1. a \in S /\ b \in S
  BY DEF Repeats
<1>2. /\ q \in Nat /\ t % L \in 0..L - 1 /\ u % L \in 0..L - 1
  BY Division
<1>3. t % L # u % L
  <2>1. t = L * (t \div L) + (t % L) /\ u = L * (u \div L) + (u % L)
    BY Division
  <2> QED
    BY <2>1
<1> HIDE DEF q
<1>4. L * q \in Nat
  BY <1>2
<1>5. /\ L * q <= a /\ a < L * q + L /\ L * q <= b /\ b < L * q + L /\ a # b
  BY <1>2, <1>3, <1>4
<1>6. a \in Nat /\ b \in Nat
  BY <1>1
<1> HIDE DEF a, b
<1>7. a \div L = q /\ b \div L = q
  BY <1>2, <1>5, <1>6, Quotients
<1>8. a # f \/ b # f
  BY <1>5
<1> QED
  BY <1>1, <1>7, <1>8 DEF q

\* A neighbour of the first firing after e is in its block.
Neighbours(S, L, e) ==
  \E first \in S :
    /\ first > e /\ \A x \in S : x > e => first <= x
    /\ \E x \in S :
         /\ \/ x < first /\ \A y \in S : y < first => y <= x
            \/ x > first /\ \A y \in S : y > first => x <= y
         /\ x \div L = first \div L

LEMMA NeighboursDecide ==
  ASSUME NEW L \in Nat \ {0}, NEW S \in SUBSET Nat, Repeats(S, L),
         NEW e \in Nat, NEW v \in S, v > e,
         NEW t \in S, NEW u \in S, t # u, t \div L = u \div L
  PROVE  Neighbours(S, L, e)
<1>1. PICK first \in {x \in S : x > e} : \A x \in {z \in S : z > e} : first <= x
  <2>1. {x \in S : x > e} # {} /\ {x \in S : x > e} \in SUBSET Nat
    OBVIOUS
  <2> QED
    BY <2>1, LeastExists
<1>2. PICK w \in S : w # first /\ w \div L = first \div L
  BY <1>1, TwiceEverywhere
<1>3. first \in Nat /\ w \in Nat
  BY <1>1, <1>2
<1>4. CASE w < first
  <2>1. PICK x \in S : x < first /\ \A y \in S : y < first => y <= x
    BY <1>3, <1>4, GreatestExists
  <2>2. x \div L = first \div L
    <3>1. x \in Nat /\ w <= x /\ x <= first
      BY <1>3, <1>4, <2>1
    <3> QED
      BY <1>2, <1>3, <3>1, Between
  <2> QED
    BY <1>1, <2>1, <2>2 DEF Neighbours
<1>5. CASE w > first
  <2> DEFINE T == {x \in S : x > first}
  <2>1. w \in T /\ T \in SUBSET Nat
    BY <1>5
  <2>2. PICK x \in T : \A y \in T : x <= y
    BY <2>1, LeastExists
  <2>3. x \in S /\ x > first /\ x <= w
    BY <2>1, <2>2
  <2>4. x \div L = first \div L
    <3>1. x \in Nat /\ first <= x
      BY <1>3, <2>3
    <3> QED
      BY <1>2, <1>3, <2>3, <3>1, Between
  <2> QED
    BY <1>1, <2>2, <2>3, <2>4 DEF Neighbours
<1> QED
  BY <1>2, <1>3, <1>4, <1>5

\* The check refuses every schedule with two firings in a partition.
LEMMA FiringsChecked ==
  ASSUME SchedulesRepeat, file \in Files, BuildProblems = {}
  PROVE  FiringsApart
<1> SUFFICES ASSUME file.schedule # NoSchedule,
                    NEW t \in file.schedule, NEW u \in file.schedule,
                    PartitionOf(t) = PartitionOf(u), t # u
             PROVE  FALSE
  BY DEF FiringsApart
<1> DEFINE S == file.schedule
           L == IF file.partition = "hourly" THEN MinutesPerHour
                ELSE MinutesPerHour * HoursPerDay
<1>1. ScheduleProblems = {}
  BY DEF BuildProblems
<1>2. S # BadSchedule /\ file.partition # "none" /\ ~FiresTwice(S)
  <2>1. \A k \in {"InvalidSchedule", "ScheduleWithinPartition", "ScheduleWithoutPartition"} :
          ~ /\ file.schedule # NoSchedule
            /\ \/ k = "InvalidSchedule" /\ file.schedule = BadSchedule
               \/ k = "ScheduleWithinPartition" /\ file.schedule # BadSchedule
                    /\ FiresTwice(file.schedule)
               \/ k = "ScheduleWithoutPartition" /\ file.partition = "none"
    BY <1>1 DEF ScheduleProblems
  <2> QED
    BY <2>1
<1>3. /\ S \in SUBSET Nat /\ Epoch \in Nat /\ L \in Nat \ {0} /\ Repeats(S, L)
      /\ \E v \in S : v > Epoch
  BY <1>2 DEF SchedulesRepeat
<1>4. file.partition \in {"hourly", "daily"}
  BY <1>2 DEF SchedulesRepeat
<1>5. \A x : PartitionOf(x) = x \div L
  BY <1>4 DEF PartitionOf
<1> HIDE DEF S, L
<1>6. t \in S /\ u \in S /\ t \div L = u \div L
  BY <1>5 DEF S
<1>7. PICK v \in S : v > Epoch
  BY <1>3
<1>8. Neighbours(S, L, Epoch)
  BY <1>3, <1>6, <1>7, NeighboursDecide
<1>9. FiresTwice(S)
  BY <1>2, <1>5, <1>8 DEF FiresTwice, Neighbours
<1> QED
  BY <1>2, <1>9

\* When every schedule is of cron fields, a graph that is built is sound and
\* no two firings of it are of one partition: the neighbours of one firing
\* decide for every firing (Graph::build, fires_twice_within_a_partition).
THEOREM BuiltFiringsAreApart ==
  ASSUME SchedulesRepeat
  PROVE  Spec => []BuiltIsSound
<1>1. LoadInv => (at \in Loaded => FiringsApart)
  BY FiringsChecked DEF LoadInv, Searching
<1> QED
  BY LoadHolds, BuiltGraphIsSound, <1>1, PTL DEF BuiltIsSound
=============================================================================

----------------------------- MODULE SccProofs -----------------------------
(***************************************************************************)
(* Whichever algorithm strong_components runs, on whatever digraph, the    *)
(* components are right, each comes once, and after those that it leads    *)
(* to.                                                                     *)
(*                                                                         *)
(* The first part is about depth-first searches, without the variables of  *)
(* any algorithm: an invariant of what a search that finds the components  *)
(* at once knows, and what each kind of step makes of it; then Kosaraju's  *)
(* two searches: what the order of the first one says, and what the second *)
(* one takes from it.  In the second part are the steps of each algorithm, *)
(* which keep these invariants, and the theorems.                          *)
(***************************************************************************)
EXTENDS Scc, Reachability, FiniteSetTheorems, SequenceTheorems, TLAPS

-----------------------------------------------------------------------------
(* Paths. *)

\* A path may be empty.
LEMMA ReachesSelf ==
  ASSUME NEW G, NEW s
  PROVE  Reaches(G, s, s)
BY DEF Reaches

\* An arc is a path.
LEMMA ReachesSuccessor ==
  ASSUME NEW G, NEW s, NEW t \in Successors(G, s)
  PROVE  Reaches(G, s, t)
BY DEF Reaches, Closed

\* Two paths make one.
LEMMA ReachesTransitive ==
  ASSUME NEW G, NEW s, NEW t, NEW u, Reaches(G, s, t), Reaches(G, t, u)
  PROVE  Reaches(G, s, u)
<1>. SUFFICES ASSUME NEW C \in SUBSET (G.node \ {u}), s \in C, Closed(G, C)
              PROVE  FALSE
  BY DEF Reaches
<1>1. CASE t \in C
  BY <1>1 DEF Reaches
<1>2. CASE t \notin C
  <2>1. C \in SUBSET (G.node \ {t})
    BY <1>2
  <2>. QED
    BY <2>1 DEF Reaches
<1>. QED
  BY <1>1, <1>2

\* No path leaves a set that no arc leaves.
LEMMA ReachesInside ==
  ASSUME NEW G, NEW C \in SUBSET G.node, Closed(G, C),
         NEW s \in C, NEW t, Reaches(G, s, t)
  PROVE  t \in C
<1>. SUFFICES ASSUME t \notin C
              PROVE  FALSE
  OBVIOUS
<1>1. C \in SUBSET (G.node \ {t})
  OBVIOUS
<1>. QED
  BY <1>1 DEF Reaches

\* A component is found when its members reach each other, and no arc leaves
\* it but to what was closed before.
LEMMA ComponentLemma ==
  ASSUME NEW G, NEW F \in SUBSET G.node, NEW C \in SUBSET G.node, NEW s \in C,
         Closed(G, F), Closed(G, F \union C), F \intersect C = {},
         \A t \in C : Reaches(G, s, t) /\ Reaches(G, t, s)
  PROVE  C = Component(G, s)
<1>1. ASSUME NEW t \in G.node, Reaches(G, s, t), Reaches(G, t, s)
      PROVE  t \in C
  <2>1. t \in F \union C
    BY <1>1, ReachesInside
  <2>2. CASE t \in F
    <3>1. s \in F
      BY <1>1, <2>2, ReachesInside
    <3>. QED
      BY <3>1
  <2>. QED
    BY <2>1, <2>2
<1>. QED
  BY <1>1 DEF Component

-----------------------------------------------------------------------------
(* The invariant.  num is the order of the visits, low what is known of    *)
(* the ways back.  The search path is path[1], ..., path[n]; todo[i] are   *)
(* the destinations that path[i] has not seen yet.  F is the set of the    *)
(* states of the components found so far; the others are pending.          *)

\* The states that are numbered, and in no component yet.
Pending(nums, F) == DOMAIN nums \ F

\* The pending states that are not older than p.
NotOlder(nums, F, p) == {r \in Pending(nums, F) : nums[p] <= nums[r]}

\* The numbers grow along the path, and no two states have the same one.
Numbered(G, nums, n, path, unseen, F) ==
  /\ n \in Nat
  /\ DOMAIN nums \subseteq G.node
  /\ F \subseteq DOMAIN nums
  /\ nums \in [DOMAIN nums -> Nat]
  /\ \A s \in DOMAIN nums : nums[s] < Cardinality(DOMAIN nums)
  /\ \A s, t \in DOMAIN nums : nums[s] = nums[t] => s = t
  /\ \A i \in 1 .. n : path[i] \in Pending(nums, F)
  /\ \A i \in 1 .. n : unseen[i] \subseteq Successors(G, path[i])
  /\ \A i, j \in 1 .. n : i < j => nums[path[i]] < nums[path[j]]

\* A state of the path reaches all that was visited since; every pending
\* state reaches one of the path that is not younger.
Connected(G, nums, n, path, F) ==
  /\ \A i \in 1 .. n : \A s \in Pending(nums, F) :
       nums[path[i]] <= nums[s] => Reaches(G, path[i], s)
  /\ \A s \in Pending(nums, F) :
       \E i \in 1 .. n : nums[path[i]] <= nums[s] /\ Reaches(G, s, path[i])

\* low promises no way back that does not exist...
WayBack(G, nums, lows, F) ==
  \A s \in Pending(nums, F) :
    /\ lows[s] \in Nat
    /\ lows[s] <= nums[s]
    /\ \E t \in Pending(nums, F) : nums[t] = lows[s] /\ Reaches(G, s, t)

\* ... a state of the path has as low as those that left the path since...
LowestOnPath(nums, lows, n, path, F) ==
  \A i \in 1 .. n : \A s \in Pending(nums, F) :
    nums[path[i]] <= nums[s] /\ (i = n \/ nums[s] < nums[path[i + 1]])
      => lows[path[i]] <= lows[s]

\* ... and forgets no arc that was seen.
Explored(G, nums, lows, n, path, unseen, F) ==
  \A s \in DOMAIN nums : \A t \in Successors(G, s) :
    (\A i \in 1 .. n : path[i] = s => t \notin unseen[i])
      => /\ t \in DOMAIN nums
         /\ s \in Pending(nums, F) /\ t \in Pending(nums, F) => lows[s] <= nums[t]

\* All that a search knows, and that no component found so far leads out of F.
Search(G, nums, lows, n, path, unseen, F) ==
  /\ Numbered(G, nums, n, path, unseen, F)
  /\ Connected(G, nums, n, path, F)
  /\ WayBack(G, nums, lows, F)
  /\ LowestOnPath(nums, lows, n, path, F)
  /\ Explored(G, nums, lows, n, path, unseen, F)
  /\ Closed(G, F)

\* At first nothing is known.
LEMMA SearchInit ==
  ASSUME NEW G, NEW lows, NEW path, NEW unseen
  PROVE  Search(G, <<>>, lows, 0, path, unseen, {})
<1>1. DOMAIN <<>> = {} /\ <<>> \in [{} -> Nat]
  OBVIOUS
<1>. QED
  BY <1>1 DEF Search, Numbered, Connected, WayBack, LowestOnPath, Explored,
              Closed, Pending

\* A state is visited: it gets the next number and joins the path.
Visits(G, F, nums, lows, n, path, unseen, s, num2, low2, path2, todo2) ==
  /\ s \in G.node /\ s \notin DOMAIN nums /\ (n = 0 \/ s \in unseen[n])
  /\ num2 \in [DOMAIN nums \union {s} -> Nat]
  /\ num2[s] = Cardinality(DOMAIN nums)
  /\ \A r \in DOMAIN nums : num2[r] = nums[r]
  /\ \A r \in Pending(nums, F) : low2[r] = lows[r]
  /\ low2[s] = Cardinality(DOMAIN nums)
  /\ \A i \in 1 .. n : path2[i] = path[i]
  /\ \A i \in 1 .. n : todo2[i] = IF i = n THEN unseen[i] \ {s} ELSE unseen[i]
  /\ path2[n + 1] = s
  /\ todo2[n + 1] = Successors(G, s)

\* A visit keeps the invariant: what is pending and not older than a state of
\* the path is reached through the end of the path.
LEMMA VisitLemma ==
  ASSUME NEW G, IsFiniteSet(G.node), NEW F,
         NEW nums, NEW lows, NEW n, NEW path, NEW unseen,
         Search(G, nums, lows, n, path, unseen, F),
         NEW s, NEW num2, NEW low2, NEW path2, NEW todo2,
         Visits(G, F, nums, lows, n, path, unseen, s, num2, low2, path2, todo2)
  PROVE  Search(G, num2, low2, n + 1, path2, todo2, F)
<1>. USE DEF Visits
<1>. DEFINE c  == Cardinality(DOMAIN nums)
            W  == Pending(nums, F)
            W2 == Pending(num2, F)
<1>1. /\ Numbered(G, nums, n, path, unseen, F)
      /\ Connected(G, nums, n, path, F)
      /\ WayBack(G, nums, lows, F)
      /\ LowestOnPath(nums, lows, n, path, F)
      /\ Explored(G, nums, lows, n, path, unseen, F)
      /\ Closed(G, F)
  BY DEF Search
<1>2. n \in Nat /\ 1 .. n + 1 = (1 .. n) \union {n + 1} /\ n + 1 \notin 1 .. n
  BY <1>1 DEF Numbered
<1>3. /\ c \in Nat
      /\ Cardinality(DOMAIN nums \union {s}) = c + 1
  <2>1. IsFiniteSet(DOMAIN nums)
    BY <1>1, FS_Subset DEF Numbered
  <2>. QED
    BY <2>1, FS_CardinalityType, FS_AddElement
<1>4. /\ DOMAIN num2 = DOMAIN nums \union {s}
      /\ num2[s] = c
      /\ \A r \in DOMAIN nums : num2[r] = nums[r] /\ nums[r] \in Nat /\ nums[r] < c
      /\ num2 \in [DOMAIN num2 -> Nat]
  BY <1>1, <1>3 DEF Numbered
<1>5. /\ s \notin F
      /\ W2 = W \union {s}
      /\ W \subseteq DOMAIN nums
  BY <1>1, <1>4 DEF Numbered, Pending
<1>6. /\ \A i \in 1 .. n : path2[i] = path[i] /\ path[i] \in W
      /\ path2[n + 1] = s
  BY <1>1 DEF Numbered
<1>. HIDE DEF c, W, W2
<1>7. Numbered(G, num2, n + 1, path2, todo2, F)
  <2>1. \A i \in 1 .. n + 1 : path2[i] \in W2
    BY <1>2, <1>5, <1>6
  <2>2. ASSUME NEW i \in 1 .. n + 1
        PROVE  todo2[i] \subseteq Successors(G, path2[i])
    <3>1. CASE i = n + 1
      BY <3>1, <1>6
    <3>2. CASE i \in 1 .. n
      <4>1. todo2[i] \subseteq unseen[i]
        BY <3>2
      <4>2. unseen[i] \subseteq Successors(G, path[i])
        BY <3>2, <1>1 DEF Numbered
      <4>. QED
        BY <3>2, <4>1, <4>2, <1>6
    <3>. QED
      BY <3>1, <3>2, <1>2
  <2>3. ASSUME NEW i \in 1 .. n + 1, NEW j \in 1 .. n + 1, i < j
        PROVE  num2[path2[i]] < num2[path2[j]]
    <3>1. i \in 1 .. n
      BY <2>3, <1>2
    <3>2. CASE j = n + 1
      BY <3>1, <3>2, <1>4, <1>5, <1>6
    <3>3. CASE j \in 1 .. n
      BY <2>3, <3>1, <3>3, <1>1, <1>4, <1>5, <1>6 DEF Numbered
    <3>. QED
      BY <1>2, <3>2, <3>3
  <2>4. \A r \in DOMAIN num2 : num2[r] < Cardinality(DOMAIN num2)
    BY <1>3, <1>4
  <2>5. \A r, t \in DOMAIN num2 : num2[r] = num2[t] => r = t
    BY <1>1, <1>3, <1>4 DEF Numbered
  <2>6. n + 1 \in Nat /\ DOMAIN num2 \subseteq G.node /\ F \subseteq DOMAIN num2
    BY <1>1, <1>2, <1>4 DEF Numbered
  <2>. QED
    BY <1>4, <2>1, <2>2, <2>3, <2>4, <2>5, <2>6 DEF Numbered, W2
<1>8. \A i \in 1 .. n : Reaches(G, path[i], s)
  <2>. SUFFICES ASSUME NEW i \in 1 .. n
                PROVE  Reaches(G, path[i], s)
    OBVIOUS
  <2>1. n \in 1 .. n /\ s \in Successors(G, path[n])
    BY <1>1, <1>2 DEF Numbered
  <2>2. nums[path[i]] <= nums[path[n]]
    BY <1>1, <1>2, <1>4, <1>5, <1>6, <2>1 DEF Numbered
  <2>3. Reaches(G, path[i], path[n])
    BY <1>1, <1>6, <2>1, <2>2 DEF Connected, W
  <2>. QED
    BY <2>1, <2>3, ReachesSuccessor, ReachesTransitive
<1>9. Connected(G, num2, n + 1, path2, F)
  <2>1. ASSUME NEW i \in 1 .. n + 1, NEW r \in W2, num2[path2[i]] <= num2[r]
        PROVE  Reaches(G, path2[i], r)
    <3>1. CASE r = s
      BY <3>1, <1>2, <1>6, <1>8, ReachesSelf
    <3>2. CASE r # s /\ i \in 1 .. n
      BY <2>1, <3>2, <1>1, <1>4, <1>5, <1>6 DEF Connected, W
    <3>3. CASE r # s /\ i = n + 1
      <4>1. r \in DOMAIN nums
        BY <3>3, <1>5
      <4>. QED
        BY <2>1, <3>3, <4>1, <1>3, <1>4, <1>6
    <3>. QED
      BY <3>1, <3>2, <3>3, <1>2
  <2>2. ASSUME NEW r \in W2
        PROVE  \E i \in 1 .. n + 1 : num2[path2[i]] <= num2[r] /\ Reaches(G, r, path2[i])
    <3>1. CASE r = s
      <4>1. n + 1 \in 1 .. n + 1 /\ num2[path2[n + 1]] <= num2[r]
        BY <3>1, <1>2, <1>3, <1>4, <1>6
      <4>. QED
        BY <3>1, <4>1, <1>6, ReachesSelf
    <3>2. CASE r # s
      BY <3>2, <1>1, <1>2, <1>4, <1>5, <1>6 DEF Connected, W
    <3>. QED
      BY <3>1, <3>2
  <2>. QED
    BY <2>1, <2>2 DEF Connected, W2
<1>10. /\ \A r \in W : low2[r] = lows[r] /\ lows[r] \in Nat /\ lows[r] <= nums[r]
       /\ low2[s] = c
  BY <1>1 DEF WayBack, W, c
<1>11. WayBack(G, num2, low2, F)
  <2>. SUFFICES ASSUME NEW r \in W2
                PROVE  /\ low2[r] \in Nat /\ low2[r] <= num2[r]
                       /\ \E t \in W2 : num2[t] = low2[r] /\ Reaches(G, r, t)
    BY DEF WayBack, W2
  <2>1. CASE r = s
    BY <2>1, <1>3, <1>4, <1>5, <1>10, ReachesSelf
  <2>2. CASE r # s
    BY <2>2, <1>1, <1>4, <1>5, <1>10 DEF WayBack, W
  <2>. QED
    BY <2>1, <2>2
<1>12. LowestOnPath(num2, low2, n + 1, path2, F)
  <2>. SUFFICES ASSUME NEW i \in 1 .. n + 1, NEW r \in W2, num2[path2[i]] <= num2[r],
                       i = n + 1 \/ num2[r] < num2[path2[i + 1]]
                PROVE  low2[path2[i]] <= low2[r]
    BY DEF LowestOnPath, W2
  <2>1. CASE r = s
    <3>1. CASE i = n + 1
      BY <2>1, <3>1, <1>3, <1>6, <1>10
    <3>2. CASE i \in 1 .. n
      BY <2>1, <3>2, <1>3, <1>4, <1>5, <1>6, <1>10
    <3>. QED
      BY <3>1, <3>2, <1>2
  <2>2. CASE r # s
    <3>1. r \in W /\ num2[r] = nums[r] /\ nums[r] < c /\ nums[r] \in Nat
      BY <2>2, <1>4, <1>5
    <3>2. i \in 1 .. n
      BY <3>1, <1>2, <1>3, <1>4, <1>6
    <3>3. i = n \/ nums[r] < nums[path[i + 1]]
      BY <3>1, <3>2, <1>2, <1>4, <1>5, <1>6
    <3>. QED
      BY <3>1, <3>2, <3>3, <1>1, <1>4, <1>5, <1>6, <1>10 DEF LowestOnPath, W
  <2>. QED
    BY <2>1, <2>2
<1>13. Explored(G, num2, low2, n + 1, path2, todo2, F)
  <2>. SUFFICES ASSUME NEW r \in DOMAIN num2, NEW t \in Successors(G, r),
                       \A i \in 1 .. n + 1 : path2[i] = r => t \notin todo2[i]
                PROVE  /\ t \in DOMAIN num2
                       /\ r \in W2 /\ t \in W2 => low2[r] <= num2[t]
    BY DEF Explored, W2
  <2>1. r # s
    BY <1>2, <1>6
  <2>2. r \in DOMAIN nums
    BY <2>1, <1>4
  <2>3. CASE t = s
    <3>1. r \in W => low2[r] <= c
      BY <1>3, <1>4, <1>5, <1>10
    <3>. QED
      BY <2>1, <2>3, <3>1, <1>4, <1>5
  <2>4. CASE t # s
    <3>1. \A i \in 1 .. n : path[i] = r => t \notin unseen[i]
      BY <2>4, <1>2, <1>6
    <3>2. t \in DOMAIN nums /\ (r \in W /\ t \in W => lows[r] <= nums[t])
      BY <2>2, <3>1, <1>1 DEF Explored, W
    <3>. QED
      BY <2>1, <2>4, <3>2, <1>4, <1>5, <1>10
  <2>. QED
    BY <2>3, <2>4
<1>. QED
  BY <1>1, <1>7, <1>9, <1>11, <1>12, <1>13 DEF Search

\* Only the path itself and the pending states matter.
SamePath(F, nums, lows, n, path, unseen, low2, path2, todo2) ==
  /\ \A r \in Pending(nums, F) : low2[r] = lows[r]
  /\ \A i \in 1 .. n : path2[i] = path[i] /\ todo2[i] = unseen[i]

\* What low says of the finished states does not matter, nor what lies beyond
\* the end of the path.
LEMMA SearchSame ==
  ASSUME NEW G, NEW F, NEW nums, NEW lows, NEW n, NEW path, NEW unseen,
         Search(G, nums, lows, n, path, unseen, F),
         NEW low2, NEW path2, NEW todo2,
         SamePath(F, nums, lows, n, path, unseen, low2, path2, todo2)
  PROVE  Search(G, nums, low2, n, path2, todo2, F)
<1>. USE DEF SamePath
<1>. DEFINE W == Pending(nums, F)
<1>1. /\ Numbered(G, nums, n, path, unseen, F)
      /\ Connected(G, nums, n, path, F)
      /\ WayBack(G, nums, lows, F)
      /\ LowestOnPath(nums, lows, n, path, F)
      /\ Explored(G, nums, lows, n, path, unseen, F)
      /\ Closed(G, F)
  BY DEF Search
<1>2. n \in Nat /\ \A i \in 1 .. n : path[i] \in W /\ path2[i] = path[i] /\ (i # n => i + 1 \in 1 .. n)
  BY <1>1 DEF Numbered
<1>. HIDE DEF W
<1>3. Numbered(G, nums, n, path2, todo2, F)
  BY <1>1, <1>2 DEF Numbered, W
<1>4. Connected(G, nums, n, path2, F)
  BY <1>1, <1>2 DEF Connected, W
<1>5. WayBack(G, nums, low2, F)
  BY <1>1, <1>2 DEF WayBack, W
<1>6. LowestOnPath(nums, low2, n, path2, F)
  BY <1>1, <1>2 DEF LowestOnPath, W
<1>7. Explored(G, nums, low2, n, path2, todo2, F)
  BY <1>1, <1>2 DEF Explored, W
<1>. QED
  BY <1>1, <1>3, <1>4, <1>5, <1>6, <1>7 DEF Search

\* A known destination of the last state of the path has been seen: lows may
\* go down, this one has to be as low as the destination is old.
Sees(G, F, nums, lows, n, path, unseen, d, low2, todo2) ==
  /\ n # 0 /\ d \in unseen[n] /\ d \in DOMAIN nums
  /\ \A r \in Pending(nums, F) : low2[r] \in Nat /\ low2[r] <= lows[r]
  /\ WayBack(G, nums, low2, F)
  /\ LowestOnPath(nums, low2, n, path, F)
  /\ d \in Pending(nums, F) => low2[path[n]] <= nums[d]
  /\ \A i \in 1 .. n : todo2[i] = IF i = n THEN unseen[i] \ {d} ELSE unseen[i]

\* A destination that is in a component, or that low already accounts for,
\* changes nothing.
LEMMA KnownLemma ==
  ASSUME NEW G, NEW F, NEW nums, NEW lows, NEW n, NEW path, NEW unseen,
         Search(G, nums, lows, n, path, unseen, F),
         NEW d, NEW low2, NEW todo2,
         Sees(G, F, nums, lows, n, path, unseen, d, low2, todo2)
  PROVE  Search(G, nums, low2, n, path, todo2, F)
<1>. USE DEF Sees
<1>. DEFINE W == Pending(nums, F)
<1>1. /\ Numbered(G, nums, n, path, unseen, F)
      /\ Connected(G, nums, n, path, F)
      /\ WayBack(G, nums, lows, F)
      /\ Explored(G, nums, lows, n, path, unseen, F)
      /\ Closed(G, F)
  BY DEF Search
<1>2. /\ n \in Nat /\ n \in 1 .. n
      /\ \A i \in 1 .. n : path[i] \in W
      /\ \A i \in 1 .. n : todo2[i] \subseteq unseen[i]
      /\ W \subseteq DOMAIN nums
      /\ nums \in [DOMAIN nums -> Nat]
  <2>1. \A i \in 1 .. n : todo2[i] \subseteq unseen[i]
    OBVIOUS
  <2>. QED
    BY <1>1, <2>1 DEF Numbered, Pending
<1>3. \A r \in W : low2[r] \in Nat /\ lows[r] \in Nat /\ low2[r] <= lows[r]
  BY <1>1 DEF WayBack
<1>. HIDE DEF W
<1>4. Numbered(G, nums, n, path, todo2, F)
  <2>1. \A i \in 1 .. n : todo2[i] \subseteq Successors(G, path[i])
    BY <1>1, <1>2 DEF Numbered
  <2>. QED
    BY <1>1, <2>1 DEF Numbered
<1>5. Explored(G, nums, low2, n, path, todo2, F)
  <2>. SUFFICES ASSUME NEW r \in DOMAIN nums, NEW t \in Successors(G, r),
                       \A i \in 1 .. n : path[i] = r => t \notin todo2[i]
                PROVE  /\ t \in DOMAIN nums
                       /\ r \in W /\ t \in W => low2[r] <= nums[t]
    BY DEF Explored, W
  <2>1. CASE r = path[n] /\ t = d
    BY <2>1 DEF W
  <2>2. CASE ~ (r = path[n] /\ t = d)
    <3>1. \A i \in 1 .. n : path[i] = r => t \notin unseen[i]
      BY <2>2
    <3>2. t \in DOMAIN nums /\ (r \in W /\ t \in W => lows[r] <= nums[t])
      BY <3>1, <1>1 DEF Explored, W
    <3>. QED
      BY <3>2, <1>2, <1>3
  <2>. QED
    BY <2>1, <2>2
<1>. QED
  BY <1>1, <1>4, <1>5 DEF Search

\* Tarjan's way: the low of the last state of the path goes down to that of
\* a pending destination, or to its number.
Lowers(F, nums, lows, n, path, unseen, d, low2, todo2) ==
  /\ n # 0 /\ d \in unseen[n] /\ d \in DOMAIN nums
  /\ \A r \in Pending(nums, F) \ {path[n]} : low2[r] = lows[r]
  /\ low2[path[n]] <= lows[path[n]]
  /\ \/ low2[path[n]] = lows[path[n]]
     \/ d \in Pending(nums, F) /\ low2[path[n]] \in {lows[d], nums[d]}
  /\ d \in Pending(nums, F) => low2[path[n]] <= nums[d]
  /\ \A i \in 1 .. n : todo2[i] = IF i = n THEN unseen[i] \ {d} ELSE unseen[i]

\* A known destination that is pending: low of the end of the path is lowered
\* with its number, or with its low.
LEMMA LowerLemma ==
  ASSUME NEW G, NEW F, NEW nums, NEW lows, NEW n, NEW path, NEW unseen,
         Search(G, nums, lows, n, path, unseen, F),
         NEW d, NEW low2, NEW todo2,
         Lowers(F, nums, lows, n, path, unseen, d, low2, todo2)
  PROVE  Search(G, nums, low2, n, path, todo2, F)
<1>. USE DEF Lowers
<1>. DEFINE W == Pending(nums, F)
            p == path[n]
<1>1. /\ Numbered(G, nums, n, path, unseen, F)
      /\ WayBack(G, nums, lows, F)
      /\ LowestOnPath(nums, lows, n, path, F)
  BY DEF Search
<1>2. /\ n \in Nat /\ n \in 1 .. n
      /\ \A i \in 1 .. n : path[i] \in W
      /\ \A i, j \in 1 .. n : i < j => nums[path[i]] < nums[path[j]]
      /\ W \subseteq DOMAIN nums
      /\ \A r \in W : nums[r] \in Nat
      /\ d \in Successors(G, p)
      /\ p \in W
  BY <1>1 DEF Numbered, Pending
<1>3. \A r \in W : lows[r] \in Nat /\ lows[r] <= nums[r]
  BY <1>1 DEF WayBack
<1>. HIDE DEF W, p
<1>4. \A r \in W : low2[r] \in Nat /\ low2[r] <= lows[r] /\ low2[r] <= nums[r]
  BY <1>2, <1>3 DEF W, p
<1>5. WayBack(G, nums, low2, F)
  <2>. SUFFICES ASSUME NEW r \in W
                PROVE  \E t \in W : nums[t] = low2[r] /\ Reaches(G, r, t)
    BY <1>4 DEF WayBack, W
  <2>1. CASE low2[r] = lows[r]
    BY <2>1, <1>1 DEF WayBack, W
  <2>2. CASE r = p /\ d \in W /\ low2[p] = nums[d]
    BY <2>2, <1>2, ReachesSuccessor
  <2>3. CASE r = p /\ d \in W /\ low2[p] = lows[d]
    <3>1. PICK t \in W : nums[t] = lows[d] /\ Reaches(G, d, t)
      BY <2>3, <1>1 DEF WayBack, W
    <3>. QED
      BY <2>3, <3>1, <1>2, ReachesSuccessor, ReachesTransitive
  <2>. QED
    BY <2>1, <2>2, <2>3 DEF W, p
<1>6. LowestOnPath(nums, low2, n, path, F)
  <2>. SUFFICES ASSUME NEW i \in 1 .. n, NEW r \in W, nums[path[i]] <= nums[r],
                       i = n \/ nums[r] < nums[path[i + 1]]
                PROVE  low2[path[i]] <= low2[r]
    BY DEF LowestOnPath, W
  <2>1. lows[path[i]] <= lows[r]
    BY <1>1 DEF LowestOnPath, W
  <2>2. CASE i = n
    <3>1. CASE r = p
      BY <2>2, <3>1, <1>2, <1>4 DEF p
    <3>2. CASE r # p
      <4>1. low2[r] = lows[r]
        BY <3>2 DEF W, p
      <4>. QED
        BY <2>1, <2>2, <4>1, <1>2, <1>3, <1>4
    <3>. QED
      BY <3>1, <3>2
  <2>3. CASE i # n
    <3>1. i + 1 \in 1 .. n /\ nums[path[i + 1]] <= nums[p]
      <4>1. i + 1 \in 1 .. n /\ (i + 1 = n \/ i + 1 < n)
        BY <2>3, <1>2
      <4>. QED
        BY <4>1, <1>2 DEF p
    <3>2. r # p
      BY <2>3, <3>1, <1>2
    <3>3. low2[r] = lows[r]
      BY <3>2 DEF W, p
    <3>. QED
      BY <2>1, <3>3, <1>2, <1>3, <1>4
  <2>. QED
    BY <2>2, <2>3
<1>7. Sees(G, F, nums, lows, n, path, unseen, d, low2, todo2)
  BY <1>4, <1>5, <1>6 DEF W, Sees
<1>. QED
  BY <1>7, KnownLemma

-----------------------------------------------------------------------------
(* The end of a state. *)

\* The path reaches its last state, which is the youngest.
LEMMA PathLemma ==
  ASSUME NEW G, NEW F, NEW nums, NEW lows, NEW n, NEW path, NEW unseen,
         Search(G, nums, lows, n, path, unseen, F), n # 0
  PROVE  /\ n \in Nat /\ n - 1 \in Nat /\ n \in 1 .. n
         /\ 1 .. n = (1 .. n - 1) \union {n} /\ n \notin 1 .. n - 1
         /\ Pending(nums, F) \subseteq DOMAIN nums
         /\ DOMAIN nums \subseteq G.node /\ F \subseteq DOMAIN nums
         /\ \A r \in DOMAIN nums : nums[r] \in Nat
         /\ \A i \in 1 .. n : path[i] \in Pending(nums, F)
         /\ \A i \in 1 .. n - 1 : nums[path[i]] < nums[path[n]]
         /\ \A i \in 1 .. n : Reaches(G, path[i], path[n])
<1>1. /\ Numbered(G, nums, n, path, unseen, F)
      /\ Connected(G, nums, n, path, F)
  BY DEF Search
<1>2. /\ n \in Nat /\ n - 1 \in Nat /\ n \in 1 .. n
      /\ 1 .. n = (1 .. n - 1) \union {n} /\ n \notin 1 .. n - 1
  BY <1>1 DEF Numbered
<1>3. /\ \A i \in 1 .. n : path[i] \in Pending(nums, F)
      /\ Pending(nums, F) \subseteq DOMAIN nums
      /\ DOMAIN nums \subseteq G.node /\ F \subseteq DOMAIN nums
      /\ \A r \in DOMAIN nums : nums[r] \in Nat
      /\ \A i, j \in 1 .. n : i < j => nums[path[i]] < nums[path[j]]
  BY <1>1 DEF Numbered, Pending
<1>4. \A i \in 1 .. n - 1 : i \in 1 .. n /\ i < n
  BY <1>2
<1>5. \A i \in 1 .. n - 1 : nums[path[i]] < nums[path[n]]
  BY <1>2, <1>3, <1>4
<1>6. \A i \in 1 .. n : nums[path[i]] <= nums[path[n]]
  BY <1>2, <1>3, <1>5
<1>7. \A i \in 1 .. n : Reaches(G, path[i], path[n])
  BY <1>1, <1>2, <1>3, <1>6 DEF Connected
<1>. QED
  BY <1>2, <1>3, <1>5, <1>7

\* A state that is no root leaves the path: its parent is told how low it
\* got, and everything that reached it reaches an older one.
Departs(F, nums, lows, n, path, unseen, low2) ==
  /\ n # 0 /\ unseen[n] = {} /\ lows[path[n]] # nums[path[n]]
  /\ \A r \in Pending(nums, F) :
       low2[r] = IF n # 1 /\ r = path[n - 1] /\ lows[path[n]] < lows[r]
                 THEN lows[path[n]] ELSE lows[r]

\* The parent stands for the state that leaves: what was visited since reaches
\* an older state of the path through it.
LEMMA FinishLemma ==
  ASSUME NEW G, NEW F, NEW nums, NEW lows, NEW n, NEW path, NEW unseen,
         Search(G, nums, lows, n, path, unseen, F),
         NEW low2, Departs(F, nums, lows, n, path, unseen, low2)
  PROVE  Search(G, nums, low2, n - 1, path, unseen, F)
<1>. USE DEF Departs
<1>. DEFINE W == Pending(nums, F)
            p == path[n]
<1>1. /\ Numbered(G, nums, n, path, unseen, F)
      /\ Connected(G, nums, n, path, F)
      /\ WayBack(G, nums, lows, F)
      /\ LowestOnPath(nums, lows, n, path, F)
      /\ Explored(G, nums, lows, n, path, unseen, F)
      /\ Closed(G, F)
  BY DEF Search
<1>2. /\ n \in Nat /\ n - 1 \in Nat /\ n \in 1 .. n
      /\ 1 .. n = (1 .. n - 1) \union {n} /\ n \notin 1 .. n - 1
      /\ W \subseteq DOMAIN nums
      /\ \A r \in W : nums[r] \in Nat
      /\ \A i \in 1 .. n : path[i] \in W
      /\ \A i \in 1 .. n - 1 : nums[path[i]] < nums[p]
      /\ \A i \in 1 .. n : Reaches(G, path[i], p)
  BY PathLemma
<1>3. \A r \in W : lows[r] \in Nat /\ lows[r] <= nums[r]
  BY <1>1 DEF WayBack
<1>4. \A r, t \in W : nums[r] = nums[t] => r = t
  BY <1>1, <1>2 DEF Numbered
<1>. HIDE DEF W, p
<1>5. Numbered(G, nums, n - 1, path, unseen, F)
  <2>1. \A i, j \in 1 .. n - 1 : i \in 1 .. n /\ j \in 1 .. n
    BY <1>2
  <2>. QED
    BY <1>1, <1>2, <2>1 DEF Numbered, W
<1>6. PICK j \in 1 .. n - 1 : nums[path[j]] < nums[p] /\ Reaches(G, p, path[j])
  <2>1. PICK t \in W : nums[t] = lows[p] /\ Reaches(G, p, t)
    BY <1>1, <1>2 DEF WayBack, W, p
  <2>2. nums[t] < nums[p]
    BY <2>1, <1>2, <1>3 DEF p
  <2>3. PICK i \in 1 .. n : nums[path[i]] <= nums[t] /\ Reaches(G, t, path[i])
    BY <2>1, <1>1 DEF Connected, W
  <2>4. i # n
    BY <2>2, <2>3, <1>2 DEF p
  <2>. QED
    BY <2>1, <2>3, <2>4, <1>2, ReachesTransitive
<1>7. Connected(G, nums, n - 1, path, F)
  <2>1. \A i \in 1 .. n - 1 : \A r \in W : nums[path[i]] <= nums[r] => Reaches(G, path[i], r)
    BY <1>1, <1>2 DEF Connected, W
  <2>2. ASSUME NEW r \in W
        PROVE  \E i \in 1 .. n - 1 : nums[path[i]] <= nums[r] /\ Reaches(G, r, path[i])
    <3>1. PICK i \in 1 .. n : nums[path[i]] <= nums[r] /\ Reaches(G, r, path[i])
      BY <1>1 DEF Connected, W
    <3>2. CASE i \in 1 .. n - 1
      BY <3>1, <3>2
    <3>3. CASE i = n
      <4>1. Reaches(G, r, path[j])
        BY <3>1, <3>3, <1>6, ReachesTransitive DEF p
      <4>2. nums[path[j]] <= nums[r]
        <5>1. nums[p] <= nums[r] /\ nums[path[j]] < nums[p]
          BY <3>1, <3>3, <1>6 DEF p
        <5>2. nums[p] \in Nat /\ nums[r] \in Nat /\ nums[path[j]] \in Nat
          BY <1>2 DEF p
        <5>. QED
          BY <5>1, <5>2
      <4>. QED
        BY <4>1, <4>2
    <3>. QED
      BY <3>2, <3>3, <1>2
  <2>. QED
    BY <2>1, <2>2 DEF Connected, W
<1>8. \A r \in W : low2[r] \in Nat /\ low2[r] <= lows[r] /\ low2[r] <= nums[r]
  BY <1>2, <1>3 DEF W, p
<1>9. WayBack(G, nums, low2, F)
  <2>. SUFFICES ASSUME NEW r \in W
                PROVE  \E t \in W : nums[t] = low2[r] /\ Reaches(G, r, t)
    BY <1>8 DEF WayBack, W
  <2>1. CASE low2[r] = lows[r]
    BY <2>1, <1>1 DEF WayBack, W
  <2>2. CASE low2[r] # lows[r]
    <3>1. n # 1 /\ r = path[n - 1] /\ low2[r] = lows[p]
      BY <2>2 DEF W, p
    <3>2. Reaches(G, r, p)
      <4>1. n - 1 \in 1 .. n
        BY <3>1, <1>2
      <4>. QED
        BY <3>1, <4>1, <1>2
    <3>3. PICK t \in W : nums[t] = lows[p] /\ Reaches(G, p, t)
      BY <1>1, <1>2 DEF WayBack, W, p
    <3>. QED
      BY <3>1, <3>2, <3>3, ReachesTransitive
  <2>. QED
    BY <2>1, <2>2
<1>10. LowestOnPath(nums, low2, n - 1, path, F)
  <2>. SUFFICES ASSUME NEW i \in 1 .. n - 1, NEW r \in W, nums[path[i]] <= nums[r],
                       i = n - 1 \/ nums[r] < nums[path[i + 1]]
                PROVE  low2[path[i]] <= low2[r]
    BY DEF LowestOnPath, W
  <2>1. /\ i \in 1 .. n /\ i # n /\ i + 1 \in 1 .. n
        /\ path[i] \in W /\ p \in W
    BY <1>2 DEF p
  <2>2. CASE i = n - 1
    <3>1. low2[path[i]] <= lows[p] /\ low2[path[i]] <= lows[path[i]]
      <4>1. n # 1 /\ path[i] = path[n - 1]
        BY <2>2, <2>1, <1>2
      <4>2. low2[path[i]] = IF lows[p] < lows[path[i]] THEN lows[p] ELSE lows[path[i]]
        BY <4>1, <2>1 DEF W, p
      <4>. QED
        BY <4>2, <2>1, <1>3
    <3>2. CASE r = path[i]
      BY <3>2, <2>1, <1>8
    <3>3. CASE r # path[i]
      <4>1. low2[r] = lows[r]
        BY <3>3, <2>2 DEF W
      <4>2. CASE nums[r] < nums[p]
        <5>1. lows[path[i]] <= lows[r]
          BY <4>2, <2>1, <2>2, <1>1, <1>2 DEF LowestOnPath, W, p
        <5>. QED
          BY <5>1, <4>1, <3>1, <2>1, <1>3, <1>8
      <4>3. CASE nums[p] <= nums[r]
        <5>1. lows[p] <= lows[r]
          BY <4>3, <2>1, <1>1, <1>2 DEF LowestOnPath, W, p
        <5>. QED
          BY <5>1, <4>1, <3>1, <2>1, <1>3, <1>8
      <4>. QED
        BY <4>2, <4>3, <2>1, <1>2
    <3>. QED
      BY <3>2, <3>3
  <2>3. CASE i # n - 1
    <3>1. i + 1 \in 1 .. n - 1 /\ n - 1 \in 1 .. n - 1 /\ n # 1
      BY <2>1, <2>3, <1>2
    <3>2. nums[path[i + 1]] <= nums[path[n - 1]]
      <4>1. i + 1 = n - 1 \/ i + 1 < n - 1
        BY <3>1, <1>2
      <4>2. nums[path[n - 1]] \in Nat /\ nums[path[i + 1]] \in Nat
        BY <3>1, <1>2
      <4>3. i + 1 < n - 1 => nums[path[i + 1]] < nums[path[n - 1]]
        BY <3>1, <1>5 DEF Numbered
      <4>. QED
        BY <4>1, <4>2, <4>3
    <3>3. r # path[n - 1] /\ path[i] # path[n - 1]
      <4>1. nums[r] < nums[path[n - 1]]
        <5>1. /\ nums[r] \in Nat /\ nums[path[i + 1]] \in Nat
              /\ nums[path[n - 1]] \in Nat
          BY <3>1, <2>1, <1>2
        <5>. QED
          BY <5>1, <2>3, <3>2
      <4>2. nums[path[i]] < nums[path[n - 1]]
        BY <3>1, <2>1, <2>3, <1>5 DEF Numbered
      <4>3. nums[path[n - 1]] \in Nat
        BY <3>1, <1>2
      <4>. QED
        BY <4>1, <4>2, <4>3
    <3>4. low2[r] = lows[r] /\ low2[path[i]] = lows[path[i]]
      BY <3>3, <2>1 DEF W
    <3>. QED
      BY <3>4, <2>1, <2>3, <1>1 DEF LowestOnPath, W
  <2>. QED
    BY <2>2, <2>3
<1>11. Explored(G, nums, low2, n - 1, path, unseen, F)
  <2>. SUFFICES ASSUME NEW r \in DOMAIN nums, NEW t \in Successors(G, r),
                       \A i \in 1 .. n - 1 : path[i] = r => t \notin unseen[i]
                PROVE  /\ t \in DOMAIN nums
                       /\ r \in W /\ t \in W => low2[r] <= nums[t]
    BY DEF Explored, W
  <2>1. \A i \in 1 .. n : path[i] = r => t \notin unseen[i]
    BY <1>2
  <2>2. t \in DOMAIN nums /\ (r \in W /\ t \in W => lows[r] <= nums[t])
    BY <2>1, <1>1 DEF Explored, W
  <2>. QED
    BY <2>2, <1>2, <1>3, <1>8
<1>. QED
  BY <1>1, <1>5, <1>7, <1>9, <1>10, <1>11 DEF Search

\* The state that ends is the root of a component: all that is pending and
\* not older than it.
Ends(nums, lows, n, path, unseen, F, p, C, F2) ==
  /\ n # 0 /\ unseen[n] = {} /\ p = path[n] /\ lows[p] = nums[p]
  /\ C = NotOlder(nums, F, p)
  /\ F2 = F \union C

\* What ends is a component: nothing pending that is not older leads to an
\* older one, or the low of the root would show it.
LEMMA EmitLemma ==
  ASSUME NEW G, NEW F, NEW nums, NEW lows, NEW n, NEW path, NEW unseen,
         Search(G, nums, lows, n, path, unseen, F),
         NEW p, NEW C, NEW F2, Ends(nums, lows, n, path, unseen, F, p, C, F2)
  PROVE  /\ Search(G, nums, lows, n - 1, path, unseen, F2)
         /\ \A r \in Pending(nums, F2) : nums[r] < nums[p]
         /\ p \in C
         /\ C = Component(G, p)
         /\ C \intersect F = {}
         /\ AllSuccessors(G, C) \subseteq C \union F
<1>. USE DEF NotOlder, Ends
<1>. DEFINE W == Pending(nums, F)
            W2 == Pending(nums, F2)
<1>1. /\ Numbered(G, nums, n, path, unseen, F)
      /\ Connected(G, nums, n, path, F)
      /\ WayBack(G, nums, lows, F)
      /\ LowestOnPath(nums, lows, n, path, F)
      /\ Explored(G, nums, lows, n, path, unseen, F)
      /\ Closed(G, F)
  BY DEF Search
<1>2. /\ n \in Nat /\ n - 1 \in Nat /\ n \in 1 .. n
      /\ 1 .. n = (1 .. n - 1) \union {n} /\ n \notin 1 .. n - 1
      /\ W \subseteq DOMAIN nums
      /\ DOMAIN nums \subseteq G.node /\ F \subseteq DOMAIN nums
      /\ \A r \in W : nums[r] \in Nat
      /\ \A i \in 1 .. n : path[i] \in W
      /\ \A i \in 1 .. n - 1 : nums[path[i]] < nums[p]
      /\ \A i \in 1 .. n : Reaches(G, path[i], p)
      /\ p \in W
  BY PathLemma
<1>3. \A r \in W : lows[r] \in Nat /\ lows[r] <= nums[r]
  BY <1>1 DEF WayBack
<1>4. /\ p \in C /\ C \subseteq W /\ C \intersect F = {}
      /\ C \subseteq G.node /\ F \subseteq G.node
      /\ F2 \subseteq DOMAIN nums
  BY <1>2 DEF Pending
<1>5. W2 = {r \in W : nums[r] < nums[p]} /\ W2 \subseteq W
  BY <1>2 DEF Pending
<1>6. \A r \in C : r \in W /\ nums[p] <= nums[r]
  OBVIOUS
<1>7. \A r \in DOMAIN nums : r \in W \/ r \in F
  BY DEF Pending
<1>8. \A r \in W : r \notin C => r \in W2
  BY <1>2, <1>5
<1>. HIDE DEF W, W2
<1>9. \A r \in C : Reaches(G, p, r) /\ Reaches(G, r, p)
  <2>. SUFFICES ASSUME NEW r \in C
                PROVE  Reaches(G, p, r) /\ Reaches(G, r, p)
    OBVIOUS
  <2>1. Reaches(G, p, r)
    BY <1>1, <1>2, <1>6 DEF Connected, W
  <2>2. PICK i \in 1 .. n : Reaches(G, r, path[i])
    BY <1>1, <1>6 DEF Connected, W
  <2>. QED
    BY <2>1, <2>2, <1>2, ReachesTransitive
<1>10. ASSUME NEW r \in C, NEW t \in Successors(G, r)
       PROVE  t \in F2
  <2>1. \A i \in 1 .. n : path[i] = r => t \notin unseen[i]
    <3>. SUFFICES ASSUME NEW i \in 1 .. n, path[i] = r
                  PROVE  i = n
      OBVIOUS
    <3>1. nums[p] <= nums[path[i]]
      BY <1>6
    <3>2. nums[p] \in Nat /\ nums[path[i]] \in Nat
      BY <1>2
    <3>. QED
      BY <3>1, <3>2, <1>2
  <2>2. t \in DOMAIN nums /\ (t \in W => lows[r] <= nums[t])
    BY <2>1, <1>1, <1>2, <1>6 DEF Explored, W
  <2>3. lows[p] <= lows[r]
    BY <1>1, <1>2, <1>6 DEF LowestOnPath, W
  <2>4. CASE t \in W
    <3>1. nums[p] <= nums[t]
      <4>1. /\ lows[p] = nums[p] /\ lows[r] <= nums[t] /\ nums[p] \in Nat
            /\ lows[r] \in Nat /\ nums[t] \in Nat
        BY <2>2, <2>4, <1>2, <1>3, <1>6
      <4>. QED
        BY <4>1, <2>3
    <3>. QED
      BY <2>4, <3>1 DEF W
  <2>5. CASE t \in F
    BY <2>5
  <2>. QED
    BY <2>2, <2>4, <2>5, <1>7
<1>11. Closed(G, F2)
  BY <1>1, <1>10 DEF Closed
<1>12. C = Component(G, p)
  <2>1. F \in SUBSET G.node /\ C \in SUBSET G.node /\ F \intersect C = {}
    BY <1>4
  <2>2. Closed(G, F) /\ Closed(G, F \union C)
    BY <1>1, <1>11
  <2>. QED
    BY <1>4, <1>9, <2>1, <2>2, ComponentLemma
<1>13. AllSuccessors(G, C) \subseteq C \union F
  BY <1>10 DEF AllSuccessors
<1>14. Numbered(G, nums, n - 1, path, unseen, F2)
  <2>1. \A i \in 1 .. n - 1 : path[i] \in W2 /\ unseen[i] \subseteq Successors(G, path[i])
    BY <1>1, <1>2, <1>5 DEF Numbered
  <2>2. \A i, j \in 1 .. n - 1 : i < j => nums[path[i]] < nums[path[j]]
    BY <1>1, <1>2 DEF Numbered
  <2>. QED
    BY <1>1, <1>2, <1>4, <2>1, <2>2 DEF Numbered, W2
<1>15. Connected(G, nums, n - 1, path, F2)
  <2>1. \A i \in 1 .. n - 1 : \A r \in W2 : nums[path[i]] <= nums[r] => Reaches(G, path[i], r)
    BY <1>1, <1>2, <1>5 DEF Connected, W
  <2>2. ASSUME NEW r \in W2
        PROVE  \E i \in 1 .. n - 1 : nums[path[i]] <= nums[r] /\ Reaches(G, r, path[i])
    <3>1. PICK i \in 1 .. n : nums[path[i]] <= nums[r] /\ Reaches(G, r, path[i])
      BY <1>1, <1>5 DEF Connected, W
    <3>2. nums[r] < nums[p] /\ nums[r] \in Nat /\ nums[p] \in Nat
      BY <1>2, <1>5
    <3>3. i # n
      BY <3>1, <3>2
    <3>. QED
      BY <3>1, <3>3, <1>2
  <2>. QED
    BY <2>1, <2>2 DEF Connected, W2
<1>16. WayBack(G, nums, lows, F2)
  <2>. SUFFICES ASSUME NEW r \in W2
                PROVE  \E t \in W2 : nums[t] = lows[r] /\ Reaches(G, r, t)
    BY <1>3, <1>5 DEF WayBack, W2
  <2>1. PICK t \in W : nums[t] = lows[r] /\ Reaches(G, r, t)
    BY <1>1, <1>5 DEF WayBack, W
  <2>2. nums[t] < nums[p]
    BY <2>1, <1>2, <1>3, <1>5
  <2>. QED
    BY <2>1, <2>2, <1>5
<1>17. LowestOnPath(nums, lows, n - 1, path, F2)
  <2>. SUFFICES ASSUME NEW i \in 1 .. n - 1, NEW r \in W2, nums[path[i]] <= nums[r],
                       i = n - 1 \/ nums[r] < nums[path[i + 1]]
                PROVE  lows[path[i]] <= lows[r]
    BY DEF LowestOnPath, W2
  <2>1. i \in 1 .. n /\ (i = n - 1 => i + 1 = n)
    BY <1>2
  <2>2. nums[r] < nums[path[i + 1]]
    BY <2>1, <1>5
  <2>. QED
    BY <2>1, <2>2, <1>1, <1>5 DEF LowestOnPath, W
<1>18. Explored(G, nums, lows, n - 1, path, unseen, F2)
  <2>. SUFFICES ASSUME NEW r \in DOMAIN nums, NEW t \in Successors(G, r),
                       \A i \in 1 .. n - 1 : path[i] = r => t \notin unseen[i]
                PROVE  /\ t \in DOMAIN nums
                       /\ r \in W2 /\ t \in W2 => lows[r] <= nums[t]
    BY DEF Explored, W2
  <2>1. \A i \in 1 .. n : path[i] = r => t \notin unseen[i]
    BY <1>2
  <2>. QED
    BY <2>1, <1>1, <1>5 DEF Explored, W
<1>. QED
  BY <1>4, <1>5, <1>11, <1>12, <1>13, <1>14, <1>15, <1>16, <1>17, <1>18
     DEF Search, W2, W

\* When the path is empty, every known state has a component.
LEMMA NoPathLemma ==
  ASSUME NEW G, NEW F, NEW nums, NEW lows, NEW path, NEW unseen,
         Search(G, nums, lows, 0, path, unseen, F)
  PROVE  Pending(nums, F) = {} /\ DOMAIN nums = F
<1>1. Pending(nums, F) = {}
  BY DEF Search, Connected
<1>. QED
  BY <1>1 DEF Search, Numbered, Pending

-----------------------------------------------------------------------------
(* Sequences: the search path as the source stores it, a sequence of       *)
(* frames, and the stack of the pending states.                            *)

\* What a sequence is made of.
LEMMA SeqLemma ==
  ASSUME NEW S, NEW q \in Seq(S)
  PROVE  /\ Len(q) \in Nat /\ DOMAIN q = 1 .. Len(q)
         /\ \A i \in 1 .. Len(q) : q[i] \in S
         /\ q \in [1 .. Len(q) -> S]
         /\ q # <<>> => Len(q) # 0 /\ Len(q) \in 1 .. Len(q)
         /\ q = <<>> => Len(q) = 0
BY EmptySeq, LenProperties, ElementOfSeq

\* A function from 1 .. n is a sequence of length n.
LEMMA IsSeqLemma ==
  ASSUME NEW S, NEW n \in Nat, NEW q \in [1 .. n -> S]
  PROVE  q \in Seq(S) /\ Len(q) = n
BY SeqDef, LenProperties

\* A sequence with one more element.
LEMMA AppendLemma ==
  ASSUME NEW S, NEW q \in Seq(S), NEW e \in S
  PROVE  /\ Append(q, e) \in Seq(S) /\ Append(q, e) # <<>>
         /\ Len(Append(q, e)) = Len(q) + 1
         /\ \A i \in 1 .. Len(q) : Append(q, e)[i] = q[i]
         /\ Append(q, e)[Len(q) + 1] = e
         /\ Range(Append(q, e)) = Range(q) \union {e}
<1>1. /\ Append(q, e) \in Seq(S)
      /\ Len(Append(q, e)) = Len(q) + 1
      /\ \A i \in 1 .. Len(q) : Append(q, e)[i] = q[i]
      /\ Append(q, e)[Len(q) + 1] = e
  BY AppendProperties
<1>2. /\ Len(q) \in Nat /\ DOMAIN q = 1 .. Len(q)
      /\ DOMAIN Append(q, e) = 1 .. Len(q) + 1
      /\ 1 .. Len(q) + 1 = (1 .. Len(q)) \union {Len(q) + 1}
  BY <1>1, SeqLemma
<1>3. Range(Append(q, e)) = Range(q) \union {e}
  BY <1>1, <1>2 DEF Range
<1>4. Append(q, e) # <<>>
  BY <1>1, <1>2, EmptySeq
<1>. QED
  BY <1>1, <1>3, <1>4

\* The first k elements.
LEMMA PrefixLemma ==
  ASSUME NEW S, NEW q \in Seq(S), NEW k \in 0 .. Len(q)
  PROVE  /\ SubSeq(q, 1, k) \in Seq(S)
         /\ Len(SubSeq(q, 1, k)) = k
         /\ \A i \in 1 .. k : SubSeq(q, 1, k)[i] = q[i]
         /\ Range(SubSeq(q, 1, k)) = {q[i] : i \in 1 .. k}
<1>1. Len(q) \in Nat /\ \A i \in 1 .. k : q[i] \in S
  BY SeqLemma
<1>2. /\ SubSeq(q, 1, k) \in Seq(S)
      /\ Len(SubSeq(q, 1, k)) = IF 1 <= k THEN k - 1 + 1 ELSE 0
      /\ \A i \in 1 .. k - 1 + 1 : SubSeq(q, 1, k)[i] = q[1 + i - 1]
  BY <1>1, SubSeqProperties
<1>3. /\ SubSeq(q, 1, k) \in Seq(S)
      /\ Len(SubSeq(q, 1, k)) = k
      /\ \A i \in 1 .. k : SubSeq(q, 1, k)[i] = q[i]
  BY <1>1, <1>2
<1>4. DOMAIN SubSeq(q, 1, k) = 1 .. k
  BY <1>3, SeqLemma
<1>. QED
  BY <1>3, <1>4 DEF Range

\* A sequence without its last element.
LEMMA FrontLemma ==
  ASSUME NEW S, NEW q \in Seq(S), q # <<>>
  PROVE  /\ Front(q) \in Seq(S)
         /\ Len(Front(q)) = Len(q) - 1
         /\ \A i \in 1 .. Len(q) - 1 : Front(q)[i] = q[i]
<1>1. Len(q) - 1 \in 0 .. Len(q)
  BY SeqLemma
<1>. QED
  BY <1>1, PrefixLemma DEF Front

\* The stack holds the pending states, oldest first.
Stacked(nums, F, pile) ==
  /\ pile \in Seq(DOMAIN nums)
  /\ Range(pile) = Pending(nums, F)
  /\ \A i, j \in DOMAIN pile : i < j => nums[pile[i]] < nums[pile[j]]

\* A visited state is pushed.
LEMMA StackVisitLemma ==
  ASSUME NEW nums, NEW F, NEW pile, Stacked(nums, F, pile),
         nums \in [DOMAIN nums -> Nat], F \subseteq DOMAIN nums,
         NEW s, s \notin DOMAIN nums, NEW c \in Nat, \A r \in DOMAIN nums : nums[r] < c,
         NEW num2 \in [DOMAIN nums \union {s} -> Nat],
         num2[s] = c, \A r \in DOMAIN nums : num2[r] = nums[r]
  PROVE  Stacked(num2, F, Append(pile, s))
<1>1. /\ pile \in Seq(DOMAIN nums) /\ pile \in Seq(DOMAIN num2)
      /\ \A i \in 1 .. Len(pile) : pile[i] \in DOMAIN nums
      /\ Len(pile) \in Nat /\ DOMAIN pile = 1 .. Len(pile)
  <2>1. pile \in Seq(DOMAIN nums)
    BY DEF Stacked
  <2>2. /\ Len(pile) \in Nat /\ DOMAIN pile = 1 .. Len(pile)
        /\ \A i \in 1 .. Len(pile) : pile[i] \in DOMAIN nums
        /\ pile \in [1 .. Len(pile) -> DOMAIN nums]
    BY <2>1, SeqLemma
  <2>3. pile \in [1 .. Len(pile) -> DOMAIN num2]
    BY <2>2
  <2>. QED
    BY <2>1, <2>2, <2>3, IsSeqLemma
<1>2. /\ Append(pile, s) \in Seq(DOMAIN num2)
      /\ Len(Append(pile, s)) = Len(pile) + 1
      /\ \A i \in 1 .. Len(pile) : Append(pile, s)[i] = pile[i]
      /\ Append(pile, s)[Len(pile) + 1] = s
      /\ Range(Append(pile, s)) = Range(pile) \union {s}
  <2>1. s \in DOMAIN num2
    OBVIOUS
  <2>. QED
    BY <1>1, <2>1, AppendLemma
<1>3. DOMAIN Append(pile, s) = 1 .. Len(pile) + 1
  BY <1>2, SeqLemma
<1>4. Range(Append(pile, s)) = Pending(num2, F)
  BY <1>2 DEF Stacked, Pending
<1>5. ASSUME NEW i \in DOMAIN Append(pile, s), NEW j \in DOMAIN Append(pile, s), i < j
      PROVE  num2[Append(pile, s)[i]] < num2[Append(pile, s)[j]]
  <2>1. i \in 1 .. Len(pile) /\ (j \in 1 .. Len(pile) \/ j = Len(pile) + 1)
    BY <1>1, <1>3, <1>5
  <2>2. pile[i] \in DOMAIN nums /\ num2[pile[i]] = nums[pile[i]]
    BY <1>1, <2>1
  <2>3. CASE j = Len(pile) + 1
    BY <1>2, <2>1, <2>2, <2>3
  <2>4. CASE j \in 1 .. Len(pile)
    <3>1. num2[pile[j]] = nums[pile[j]]
      BY <1>1, <2>4
    <3>2. nums[pile[i]] < nums[pile[j]]
      BY <1>1, <1>5, <2>1, <2>4 DEF Stacked
    <3>. QED
      BY <1>2, <2>1, <2>2, <2>4, <3>1, <3>2
  <2>. QED
    BY <2>1, <2>3, <2>4
<1>. QED
  BY <1>2, <1>4, <1>5 DEF Stacked

\* What is on the stack from position k on.
Above(pile, k) == {pile[i] : i \in k .. Len(pile)}

\* These are the youngest pending states.
LEMMA StackCutLemma ==
  ASSUME NEW nums, NEW F, NEW pile, Stacked(nums, F, pile),
         nums \in [DOMAIN nums -> Nat], F \subseteq DOMAIN nums,
         NEW p \in Pending(nums, F), NEW k \in DOMAIN pile, pile[k] = p,
         NEW C, C = Above(pile, k), NEW F2, F2 = F \union C
  PROVE  /\ C = NotOlder(nums, F, p)
         /\ Stacked(nums, F2, SubSeq(pile, 1, k - 1))
<1>. USE DEF NotOlder, Above
<1>1. /\ pile \in Seq(DOMAIN nums)
      /\ Range(pile) = Pending(nums, F)
      /\ \A i, j \in DOMAIN pile : i < j => nums[pile[i]] < nums[pile[j]]
  BY DEF Stacked
<1>2. /\ Len(pile) \in Nat /\ DOMAIN pile = 1 .. Len(pile)
      /\ \A i \in 1 .. Len(pile) : pile[i] \in DOMAIN nums /\ nums[pile[i]] \in Nat
  BY <1>1, SeqLemma
<1>3. k \in 1 .. Len(pile) /\ pile[k] = p /\ nums[p] \in Nat
  BY <1>2
<1>4. \A i \in 1 .. Len(pile) : nums[p] <= nums[pile[i]] <=> k <= i
  <2>. SUFFICES ASSUME NEW i \in 1 .. Len(pile)
                PROVE  nums[p] <= nums[pile[i]] <=> k <= i
    OBVIOUS
  <2>1. k < i \/ k = i \/ i < k
    BY <1>2, <1>3
  <2>2. k < i => nums[p] < nums[pile[i]]
    BY <1>1, <1>2, <1>3
  <2>3. i < k => nums[pile[i]] < nums[p]
    BY <1>1, <1>2, <1>3
  <2>. QED
    BY <1>2, <1>3, <2>1, <2>2, <2>3
<1>5. C = {r \in Pending(nums, F) : nums[p] <= nums[r]}
  <2>1. \A i \in k .. Len(pile) : i \in 1 .. Len(pile) /\ k <= i
    BY <1>2, <1>3
  <2>2. \A i \in 1 .. Len(pile) : k <= i => i \in k .. Len(pile)
    BY <1>2, <1>3
  <2>3. \A r \in Pending(nums, F) : \E i \in 1 .. Len(pile) : pile[i] = r
    BY <1>1, <1>2 DEF Range
  <2>4. \A i \in 1 .. Len(pile) : pile[i] \in Pending(nums, F)
    BY <1>1, <1>2 DEF Range
  <2>5. ASSUME NEW r \in C
        PROVE  r \in Pending(nums, F) /\ nums[p] <= nums[r]
    BY <1>4, <2>1, <2>4
  <2>6. ASSUME NEW r \in Pending(nums, F), nums[p] <= nums[r]
        PROVE  r \in C
    BY <1>4, <2>2, <2>3, <2>6
  <2>. QED
    BY <2>5, <2>6
<1>6. /\ SubSeq(pile, 1, k - 1) \in Seq(DOMAIN nums)
      /\ Len(SubSeq(pile, 1, k - 1)) = k - 1
      /\ \A i \in 1 .. k - 1 : SubSeq(pile, 1, k - 1)[i] = pile[i]
      /\ Range(SubSeq(pile, 1, k - 1)) = {pile[i] : i \in 1 .. k - 1}
  <2>1. k - 1 \in 0 .. Len(pile)
    BY <1>2, <1>3
  <2>. QED
    BY <1>1, <2>1, PrefixLemma
<1>7. DOMAIN SubSeq(pile, 1, k - 1) = 1 .. k - 1
  BY <1>6, SeqLemma
<1>8. \A i \in 1 .. k - 1 : i \in 1 .. Len(pile) /\ i < k
  BY <1>2, <1>3
<1>9. {pile[i] : i \in 1 .. k - 1} = Pending(nums, F \union C)
  <2>1. \A i \in 1 .. Len(pile) : ~ (k <= i) => i \in 1 .. k - 1
    BY <1>2, <1>3
  <2>2. \A i \in 1 .. k - 1 : pile[i] \in Pending(nums, F) /\ pile[i] \notin C
    <3>1. \A i \in 1 .. k - 1 : pile[i] \in Pending(nums, F)
      BY <1>1, <1>2, <1>8 DEF Range
    <3>2. \A i \in 1 .. k - 1 : ~ (nums[p] <= nums[pile[i]])
      <4>. SUFFICES ASSUME NEW i \in 1 .. k - 1
                    PROVE  ~ (nums[p] <= nums[pile[i]])
        OBVIOUS
      <4>1. i \in 1 .. Len(pile) /\ ~ (k <= i)
        BY <1>2, <1>3, <1>8
      <4>. QED
        BY <4>1, <1>4
    <3>. QED
      BY <1>5, <3>1, <3>2
  <2>3. \A r \in Pending(nums, F) : r \notin C => \E i \in 1 .. k - 1 : pile[i] = r
    BY <1>1, <1>2, <1>4, <1>5, <2>1 DEF Range
  <2>4. Pending(nums, F \union C) = Pending(nums, F) \ C
    BY DEF Pending
  <2>5. \A r \in Pending(nums, F) \ C : r \in {pile[i] : i \in 1 .. k - 1}
    BY <2>3
  <2>6. \A r \in {pile[i] : i \in 1 .. k - 1} : r \in Pending(nums, F) \ C
    BY <2>2
  <2>. QED
    BY <2>4, <2>5, <2>6
<1>10. \A i, j \in 1 .. k - 1 : i < j => nums[pile[i]] < nums[pile[j]]
  BY <1>1, <1>2, <1>8
<1>11. Stacked(nums, F \union C, SubSeq(pile, 1, k - 1))
  <2>. DEFINE below == SubSeq(pile, 1, k - 1)
  <2>1. /\ \A i \in 1 .. k - 1 : below[i] = pile[i]
        /\ DOMAIN below = 1 .. k - 1
        /\ Range(below) = Pending(nums, F \union C)
    BY <1>6, <1>7, <1>9
  <2>2. below \in Seq(DOMAIN nums)
    BY <1>6
  <2>. HIDE DEF below
  <2>3. \A i, j \in DOMAIN below : i < j => nums[below[i]] < nums[below[j]]
    BY <1>10, <2>1
  <2>4. Stacked(nums, F \union C, below)
    BY <2>1, <2>2, <2>3 DEF Stacked
  <2>. QED
    BY <2>4 DEF below
<1>. QED
  BY <1>5, <1>11

\* Where the source looks for the state that it has to pop last.
LEMMA StackAtLemma ==
  ASSUME NEW nums, NEW F, NEW pile, Stacked(nums, F, pile),
         NEW p \in Pending(nums, F),
         NEW k, k = CHOOSE i \in DOMAIN pile : pile[i] = p
  PROVE  k \in DOMAIN pile /\ pile[k] = p
<1>1. \E i \in DOMAIN pile : pile[i] = p
  BY DEF Stacked, Range
<1>. QED
  BY <1>1

-----------------------------------------------------------------------------
(* Two searches, without numbers.  The first one, in a digraph H, records  *)
(* in rec the states that leave the path; M is the set of the marked       *)
(* states, the other names are as in Search.                               *)

\* s and t are in one component.
Both(H, s, t) == Reaches(H, s, t) /\ Reaches(H, t, s)

\* h is recorded after all that it reaches.
After(H, rec, h) ==
  \E j \in 1 .. Len(rec) :
    /\ rec[j] = h
    /\ \A t \in H.node : Reaches(H, h, t) => \E i \in 1 .. j : rec[i] = t

\* Every recorded state is in the component of a state that is still on the
\* path, or is recorded after all that it reaches.
Post(H, M, n, path, unseen, rec) ==
  /\ n \in Nat
  /\ M \subseteq H.node
  /\ rec \in Seq(H.node)
  /\ \A j \in 1 .. Len(rec) : rec[j] \in M /\ Successors(H, rec[j]) \subseteq M
  /\ \A i, j \in 1 .. Len(rec) : rec[i] = rec[j] => i = j
  /\ \A i \in 1 .. n : path[i] \in M /\ unseen[i] \subseteq Successors(H, path[i])
  /\ \A i, j \in 1 .. n : path[i] = path[j] => i = j
  /\ \A i, j \in 1 .. n : i <= j => Reaches(H, path[i], path[j])
  /\ \A i \in 1 .. n : \A j \in 1 .. Len(rec) : path[i] # rec[j]
  /\ \A s \in M : (\E i \in 1 .. n : path[i] = s) \/ \E j \in 1 .. Len(rec) : rec[j] = s
  /\ \A i \in 1 .. n : Successors(H, path[i]) \subseteq M \union unseen[i]
  /\ \A k \in 1 .. Len(rec) : \E h \in M :
       /\ Both(H, rec[k], h)
       /\ (\E i \in 1 .. n : path[i] = h) \/ After(H, rec, h)

\* That is an equivalence.
LEMMA BothLemma ==
  ASSUME NEW H
  PROVE  /\ \A s : Both(H, s, s)
         /\ \A s, t, u : Both(H, s, t) /\ Both(H, t, u) => Both(H, s, u)
BY ReachesSelf, ReachesTransitive DEF Both

\* At first nothing is recorded.
LEMMA PostInit ==
  ASSUME NEW H, NEW path, NEW unseen
  PROVE  Post(H, {}, 0, path, unseen, <<>>)
<1>1. <<>> \in Seq(H.node) /\ Len(<<>>) = 0 /\ 1 .. 0 = {}
  OBVIOUS
<1>. QED
  BY <1>1 DEF Post

\* A state is marked, and joins the path.
Marks(H, M, n, path, unseen, s, M2, path2, todo2) ==
  /\ s \in H.node /\ s \notin M /\ (n = 0 \/ s \in unseen[n])
  /\ M2 = M \union {s}
  /\ \A i \in 1 .. n : path2[i] = path[i]
  /\ \A i \in 1 .. n : todo2[i] = IF i = n THEN unseen[i] \ {s} ELSE unseen[i]
  /\ path2[n + 1] = s
  /\ todo2[n + 1] = Successors(H, s)

\* To mark a state keeps what the records say.
LEMMA MarkLemma ==
  ASSUME NEW H, NEW M, NEW n, NEW path, NEW unseen, NEW rec,
         Post(H, M, n, path, unseen, rec),
         NEW s, NEW M2, NEW path2, NEW todo2,
         Marks(H, M, n, path, unseen, s, M2, path2, todo2)
  PROVE  Post(H, M2, n + 1, path2, todo2, rec)
<1>. USE DEF Marks
<1>1. /\ n \in Nat
      /\ M \subseteq H.node
      /\ rec \in Seq(H.node)
      /\ \A j \in 1 .. Len(rec) : rec[j] \in M /\ Successors(H, rec[j]) \subseteq M
      /\ \A i, j \in 1 .. Len(rec) : rec[i] = rec[j] => i = j
  BY DEF Post
<1>2. /\ \A i \in 1 .. n : path[i] \in M /\ unseen[i] \subseteq Successors(H, path[i])
      /\ \A i, j \in 1 .. n : path[i] = path[j] => i = j
      /\ \A i, j \in 1 .. n : i <= j => Reaches(H, path[i], path[j])
      /\ \A i \in 1 .. n : \A j \in 1 .. Len(rec) : path[i] # rec[j]
      /\ \A r \in M : (\E i \in 1 .. n : path[i] = r) \/ \E j \in 1 .. Len(rec) : rec[j] = r
      /\ \A i \in 1 .. n : Successors(H, path[i]) \subseteq M \union unseen[i]
  BY DEF Post
<1>3. \A k \in 1 .. Len(rec) : \E h \in M :
        /\ Both(H, rec[k], h)
        /\ (\E i \in 1 .. n : path[i] = h) \/ After(H, rec, h)
  BY DEF Post
<1>4. /\ n + 1 \in Nat
      /\ 1 .. n + 1 = (1 .. n) \union {n + 1} /\ n + 1 \notin 1 .. n
      /\ n # 0 => n \in 1 .. n
  BY <1>1
<1>5. /\ s \notin M /\ s \in H.node /\ (n = 0 \/ s \in unseen[n])
      /\ M2 = M \union {s} /\ M \subseteq M2
      /\ \A i \in 1 .. n : path2[i] = path[i]
      /\ path2[n + 1] = s
      /\ todo2[n + 1] = Successors(H, s)
  OBVIOUS
<1>6. \A i \in 1 .. n + 1 : path2[i] \in M2 /\ todo2[i] \subseteq Successors(H, path2[i])
  <2>1. \A i \in 1 .. n : todo2[i] \subseteq unseen[i]
    OBVIOUS
  <2>2. \A i \in 1 .. n : path2[i] \in M2 /\ todo2[i] \subseteq Successors(H, path2[i])
    BY <1>2, <1>5, <2>1
  <2>. QED
    BY <1>4, <1>5, <2>2
<1>7. \A i, j \in 1 .. n + 1 : path2[i] = path2[j] => i = j
  BY <1>2, <1>4, <1>5
<1>8. \A i, j \in 1 .. n + 1 : i <= j => Reaches(H, path2[i], path2[j])
  <2>. SUFFICES ASSUME NEW i \in 1 .. n + 1, NEW j \in 1 .. n + 1, i <= j
                PROVE  Reaches(H, path2[i], path2[j])
    OBVIOUS
  <2>1. CASE j \in 1 .. n
    <3>1. i \in 1 .. n
      BY <1>1, <2>1
    <3>. QED
      BY <1>2, <1>5, <2>1, <3>1
  <2>2. CASE j = n + 1 /\ i = n + 1
    BY <2>2, ReachesSelf
  <2>3. CASE j = n + 1 /\ i \in 1 .. n
    <3>1. n \in 1 .. n /\ i <= n
      BY <1>1, <2>3
    <3>2. Reaches(H, path[i], path[n])
      BY <1>2, <2>3, <3>1
    <3>3. s \in Successors(H, path[n])
      BY <1>2, <1>5, <3>1
    <3>4. Reaches(H, path[i], s)
      BY <3>2, <3>3, ReachesSuccessor, ReachesTransitive
    <3>. QED
      BY <1>5, <2>3, <3>4
  <2>. QED
    BY <1>4, <2>1, <2>2, <2>3
<1>9. \A i \in 1 .. n + 1 : \A j \in 1 .. Len(rec) : path2[i] # rec[j]
  BY <1>1, <1>2, <1>4, <1>5
<1>10. \A r \in M2 : \/ \E i \in 1 .. n + 1 : path2[i] = r
                     \/ \E j \in 1 .. Len(rec) : rec[j] = r
  BY <1>2, <1>4, <1>5
<1>11. \A i \in 1 .. n + 1 : Successors(H, path2[i]) \subseteq M2 \union todo2[i]
  <2>1. \A i \in 1 .. n : unseen[i] \subseteq M2 \union todo2[i]
    BY <1>5
  <2>2. \A i \in 1 .. n : Successors(H, path2[i]) \subseteq M2 \union todo2[i]
    BY <1>2, <1>5, <2>1
  <2>. QED
    BY <1>4, <1>5, <2>2
<1>12. \A k \in 1 .. Len(rec) : \E h \in M2 :
         /\ Both(H, rec[k], h)
         /\ (\E i \in 1 .. n + 1 : path2[i] = h) \/ After(H, rec, h)
  BY <1>3, <1>4, <1>5
<1>13. \A j \in 1 .. Len(rec) : rec[j] \in M2 /\ Successors(H, rec[j]) \subseteq M2
  BY <1>1, <1>5
<1>14. M2 \subseteq H.node
  BY <1>1, <1>5
<1>. HIDE DEF Marks
<1>. QED
  BY <1>1, <1>4, <1>6, <1>7, <1>8, <1>9, <1>10, <1>11, <1>12, <1>13, <1>14 DEF Post

\* The last state of the path is recorded.
Records(M, n, path, unseen, rec, rec2) ==
  /\ n # 0 /\ unseen[n] \subseteq M
  /\ Len(rec2) = Len(rec) + 1
  /\ \A i \in 1 .. Len(rec) : rec2[i] = rec[i]
  /\ rec2[Len(rec) + 1] = path[n]

\* To record a state does, too: it is the last of its component to be recorded,
\* or a state of its component is below it on the path.
LEMMA RecordLemma ==
  ASSUME NEW H, NEW M, NEW n, NEW path, NEW unseen, NEW rec,
         Post(H, M, n, path, unseen, rec),
         NEW rec2 \in Seq(H.node), Records(M, n, path, unseen, rec, rec2)
  PROVE  Post(H, M, n - 1, path, unseen, rec2)
<1>. DEFINE m == Len(rec)
            p == path[n]
<1>1. /\ n \in Nat
      /\ M \subseteq H.node
      /\ rec \in Seq(H.node)
      /\ \A j \in 1 .. m : rec[j] \in M /\ Successors(H, rec[j]) \subseteq M
      /\ \A i, j \in 1 .. m : rec[i] = rec[j] => i = j
  BY DEF Post
<1>2. /\ \A i \in 1 .. n : path[i] \in M /\ unseen[i] \subseteq Successors(H, path[i])
      /\ \A i, j \in 1 .. n : path[i] = path[j] => i = j
      /\ \A i, j \in 1 .. n : i <= j => Reaches(H, path[i], path[j])
      /\ \A i \in 1 .. n : \A j \in 1 .. m : path[i] # rec[j]
      /\ \A r \in M : (\E i \in 1 .. n : path[i] = r) \/ \E j \in 1 .. m : rec[j] = r
      /\ \A i \in 1 .. n : Successors(H, path[i]) \subseteq M \union unseen[i]
  BY DEF Post
<1>3. \A k \in 1 .. m : \E h \in M :
        /\ Both(H, rec[k], h)
        /\ (\E i \in 1 .. n : path[i] = h) \/ After(H, rec, h)
  BY DEF Post
<1>4. /\ n # 0 /\ unseen[n] \subseteq M
      /\ Len(rec2) = m + 1
      /\ \A i \in 1 .. m : rec2[i] = rec[i]
      /\ rec2[m + 1] = p
  BY DEF Records
<1>5. /\ n - 1 \in Nat /\ n \in 1 .. n
      /\ 1 .. n = (1 .. n - 1) \union {n} /\ n \notin 1 .. n - 1
      /\ \A i \in 1 .. n - 1 : i <= n
  BY <1>1, <1>4
<1>6. /\ m \in Nat
      /\ 1 .. m + 1 = (1 .. m) \union {m + 1} /\ m + 1 \notin 1 .. m
      /\ m + 1 \in 1 .. m + 1
      /\ \A j \in 1 .. m : \A i \in 1 .. j : i \in 1 .. m
  <2>1. m \in Nat
    BY <1>1, SeqLemma
  <2>. QED
    BY <2>1
<1>. HIDE DEF m, p
<1>7. p \in M /\ Successors(H, p) \subseteq M /\ p \in H.node
  BY <1>1, <1>2, <1>4, <1>5 DEF p
<1>8. \A j \in 1 .. m + 1 : rec2[j] \in M /\ Successors(H, rec2[j]) \subseteq M
  BY <1>1, <1>4, <1>6, <1>7
<1>9. \A i, j \in 1 .. m + 1 : rec2[i] = rec2[j] => i = j
  <2>1. \A j \in 1 .. m : rec[j] # p
    BY <1>2, <1>5 DEF p
  <2>. QED
    BY <1>1, <1>4, <1>6, <2>1
<1>10. \A i \in 1 .. n - 1 : \A j \in 1 .. m + 1 : path[i] # rec2[j]
  <2>1. \A i \in 1 .. n - 1 : path[i] # p
    BY <1>2, <1>5 DEF p
  <2>. QED
    BY <1>2, <1>4, <1>5, <1>6, <2>1
<1>11. \A r \in M : \/ \E i \in 1 .. n - 1 : path[i] = r
                    \/ \E j \in 1 .. m + 1 : rec2[j] = r
  <2>. SUFFICES ASSUME NEW r \in M, \A i \in 1 .. n - 1 : path[i] # r
                PROVE  \E j \in 1 .. m + 1 : rec2[j] = r
    OBVIOUS
  <2>1. r = p \/ \E j \in 1 .. m : rec[j] = r
    BY <1>2, <1>5 DEF p
  <2>. QED
    BY <1>4, <1>6, <2>1
<1>12. \A h : After(H, rec, h) => After(H, rec2, h)
  <2>. SUFFICES ASSUME NEW h, After(H, rec, h)
                PROVE  After(H, rec2, h)
    OBVIOUS
  <2>1. PICK j \in 1 .. m :
          /\ rec[j] = h
          /\ \A t \in H.node : Reaches(H, h, t) => \E i \in 1 .. j : rec[i] = t
    BY DEF After, m
  <2>2. j \in 1 .. Len(rec2) /\ rec2[j] = h
    BY <1>4, <1>6, <2>1
  <2>3. \A t \in H.node : Reaches(H, h, t) => \E i \in 1 .. j : rec2[i] = t
    BY <1>4, <1>6, <2>1
  <2>. QED
    BY <2>2, <2>3 DEF After
<1>13. (\E i \in 1 .. n - 1 : Both(H, p, path[i])) \/ After(H, rec2, p)
  <2>. SUFFICES ASSUME \A i \in 1 .. n - 1 : ~ Both(H, p, path[i])
                PROVE  After(H, rec2, p)
    OBVIOUS
  <2>. DEFINE X == {t \in M : Reaches(H, p, t) /\ \E j \in 1 .. m + 1 : rec2[j] = t}
  <2>1. \A i \in 1 .. n - 1 : ~ Reaches(H, p, path[i])
    <3>1. \A i \in 1 .. n - 1 : Reaches(H, path[i], p)
      BY <1>2, <1>5 DEF p
    <3>. QED
      BY <3>1 DEF Both
  <2>2. ASSUME NEW x \in X, NEW y \in Successors(H, x)
        PROVE  y \in X
    <3>1. y \in M
      BY <1>8
    <3>2. Reaches(H, p, y)
      BY ReachesSuccessor, ReachesTransitive
    <3>3. \E j \in 1 .. m + 1 : rec2[j] = y
      BY <1>11, <2>1, <3>1, <3>2
    <3>. QED
      BY <3>1, <3>2, <3>3
  <2>3. p \in X
    BY <1>4, <1>6, <1>7, ReachesSelf
  <2>4. \A t \in X : \E j \in 1 .. m + 1 : rec2[j] = t
    OBVIOUS
  <2>5. X \in SUBSET H.node
    BY <1>1
  <2>. HIDE DEF X
  <2>6. Closed(H, X)
    BY <2>2 DEF Closed
  <2>7. \A t \in H.node : Reaches(H, p, t) => \E i \in 1 .. m + 1 : rec2[i] = t
    BY <2>3, <2>4, <2>5, <2>6, ReachesInside
  <2>. QED
    BY <1>4, <1>6, <2>7 DEF After
<1>14. ASSUME NEW k \in 1 .. m + 1
       PROVE  \E h \in M : /\ Both(H, rec2[k], h)
                           /\ (\E i \in 1 .. n - 1 : path[i] = h) \/ After(H, rec2, h)
  <2>1. CASE Both(H, rec2[k], p)
    <3>1. CASE After(H, rec2, p)
      BY <1>7, <2>1, <3>1
    <3>2. CASE \E i \in 1 .. n - 1 : Both(H, p, path[i])
      <4>1. PICK i \in 1 .. n - 1 : Both(H, p, path[i])
        BY <3>2
      <4>2. Both(H, rec2[k], path[i])
        BY <2>1, <4>1, BothLemma
      <4>3. path[i] \in M
        BY <1>2, <1>5
      <4>. QED
        BY <4>2, <4>3
    <3>. QED
      BY <1>13, <3>1, <3>2
  <2>2. CASE k = m + 1
    <3>1. Both(H, rec2[k], p)
      BY <1>4, <2>2, BothLemma
    <3>. QED
      BY <2>1, <3>1
  <2>3. CASE k \in 1 .. m
    <3>1. PICK h \in M : /\ Both(H, rec[k], h)
                         /\ (\E i \in 1 .. n : path[i] = h) \/ After(H, rec, h)
      BY <1>3, <2>3
    <3>2. Both(H, rec2[k], h)
      BY <1>4, <2>3, <3>1
    <3>3. CASE After(H, rec, h)
      BY <1>12, <3>2, <3>3
    <3>4. CASE \E i \in 1 .. n - 1 : path[i] = h
      BY <3>2, <3>4
    <3>5. CASE h = p
      BY <2>1, <3>2, <3>5
    <3>. QED
      BY <1>5, <3>1, <3>3, <3>4, <3>5 DEF p
  <2>. QED
    BY <1>6, <2>2, <2>3
<1>15. /\ \A i \in 1 .. n - 1 : path[i] \in M /\ unseen[i] \subseteq Successors(H, path[i])
       /\ \A i, j \in 1 .. n - 1 : path[i] = path[j] => i = j
       /\ \A i, j \in 1 .. n - 1 : i <= j => Reaches(H, path[i], path[j])
       /\ \A i \in 1 .. n - 1 : Successors(H, path[i]) \subseteq M \union unseen[i]
  BY <1>2, <1>5
<1>. QED
  BY <1>1, <1>4, <1>5, <1>8, <1>9, <1>10, <1>11, <1>14, <1>15 DEF Post

-----------------------------------------------------------------------------
(* The second search runs in H, when the first one ran in its transpose.   *)

\* The paths of the transposed digraph are the paths of the digraph, back.
LEMMA TransposeLemma ==
  ASSUME NEW H, H.edge \subseteq H.node \X H.node,
         NEW s \in H.node, NEW t \in H.node
  PROVE  Reaches(Transpose(H), s, t) <=> Reaches(H, t, s)
<1>1. /\ Transpose(H).node = H.node
      /\ \A x, y : y \in Successors(Transpose(H), x) <=> y \in H.node /\ <<y, x>> \in H.edge
  <2>. DEFINE back == {<<e[2], e[1]>> : e \in H.edge}
  <2>1. Transpose(H).node = H.node /\ Transpose(H).edge = back
    BY DEF Transpose
  <2>2. ASSUME NEW x, NEW y
        PROVE  <<x, y>> \in back <=> <<y, x>> \in H.edge
    <3>1. ASSUME <<y, x>> \in H.edge
          PROVE  <<x, y>> \in back
      <4>1. <<x, y>> = <<<<y, x>>[2], <<y, x>>[1]>>
        OBVIOUS
      <4>. QED
        BY <3>1, <4>1
    <3>2. ASSUME <<x, y>> \in back
          PROVE  <<y, x>> \in H.edge
      <4>1. PICK e \in H.edge : <<x, y>> = <<e[2], e[1]>>
        BY <3>2
      <4>2. e = <<y, x>>
        BY <4>1
      <4>. QED
        BY <4>2
    <3>. QED
      BY <3>1, <3>2
  <2>. HIDE DEF back
  <2>. QED
    BY <2>1, <2>2 DEF Successors
<1>2. \A x, y : y \in Successors(H, x) <=> y \in H.node /\ <<x, y>> \in H.edge
  BY DEF Successors
<1>3. ASSUME Reaches(Transpose(H), s, t)
      PROVE  Reaches(H, t, s)
  <2>. SUFFICES ASSUME NEW C \in SUBSET (H.node \ {s}), t \in C, Closed(H, C)
                PROVE  FALSE
    BY DEF Reaches
  <2>1. PICK Z : Z = H.node \ C
    OBVIOUS
  <2>2. Z \in SUBSET (Transpose(H).node \ {t}) /\ s \in Z
    BY <1>1, <2>1
  <2>3. \A x \in Z : Successors(Transpose(H), x) \subseteq Z
    BY <1>1, <1>2, <2>1 DEF Closed
  <2>4. Closed(Transpose(H), Z)
    BY <2>3 DEF Closed
  <2>. QED
    BY <1>3, <2>2, <2>4 DEF Reaches
<1>4. ASSUME Reaches(H, t, s)
      PROVE  Reaches(Transpose(H), s, t)
  <2>. SUFFICES ASSUME NEW C \in SUBSET (H.node \ {t}), s \in C, Closed(Transpose(H), C)
                PROVE  FALSE
    BY <1>1 DEF Reaches
  <2>1. PICK Z : Z = H.node \ C
    OBVIOUS
  <2>2. Z \in SUBSET (H.node \ {s}) /\ t \in Z
    BY <2>1
  <2>3. \A x \in Z : Successors(H, x) \subseteq Z
    BY <1>1, <1>2, <2>1 DEF Closed
  <2>4. Closed(H, Z)
    BY <2>3 DEF Closed
  <2>. QED
    BY <1>4, <2>2, <2>4 DEF Reaches
<1>. QED
  BY <1>3, <1>4

\* h is to come after all that reaches it.
Before(H, rec, h) ==
  \E j \in 1 .. Len(rec) :
    /\ rec[j] = h
    /\ \A t \in H.node : Reaches(H, t, h) => \E i \in 1 .. j : rec[i] = t

\* What the first search leaves to the second, that takes its roots from the
\* last one to the first: M is the set of the states that it marked.
Ahead(H, M, rec) ==
  /\ rec \in Seq(H.node)
  /\ \A i, j \in 1 .. Len(rec) : rec[i] = rec[j] => i = j
  /\ \A s \in H.node : s \in M \/ \E j \in 1 .. Len(rec) : rec[j] = s
  /\ \A k \in 1 .. Len(rec) : \E h \in H.node :
       Both(H, rec[k], h) /\ (h \in M \/ Before(H, rec, h))

\* The turn of the second search.
LEMMA TurnLemma ==
  ASSUME NEW H, H.edge \subseteq H.node \X H.node,
         NEW path, NEW unseen, NEW rec,
         Post(Transpose(H), H.node, 0, path, unseen, rec)
  PROVE  Ahead(H, {}, rec)
<1>. DEFINE T == Transpose(H)
<1>1. T.node = H.node
  BY DEF Transpose
<1>. HIDE DEF T
<1>2. /\ rec \in Seq(H.node)
      /\ \A i, j \in 1 .. Len(rec) : rec[i] = rec[j] => i = j
      /\ \A s \in H.node : \E j \in 1 .. Len(rec) : rec[j] = s
      /\ \A k \in 1 .. Len(rec) : rec[k] \in H.node
  BY <1>1 DEF Post, T
<1>3. ASSUME NEW k \in 1 .. Len(rec)
      PROVE  \E h \in H.node : Both(H, rec[k], h) /\ Before(H, rec, h)
  <2>1. PICK h \in H.node : Both(T, rec[k], h) /\ After(T, rec, h)
    BY <1>1 DEF Post, T
  <2>2. \A s, t \in H.node : Reaches(T, s, t) <=> Reaches(H, t, s)
    BY TransposeLemma DEF T
  <2>3. Both(H, rec[k], h)
    BY <1>2, <2>1, <2>2 DEF Both
  <2>4. Before(H, rec, h)
    BY <1>1, <2>1, <2>2 DEF After, Before
  <2>. QED
    BY <2>3, <2>4
<1>. QED
  BY <1>2, <1>3 DEF Ahead

\* More states are marked.
LEMMA AheadMarkLemma ==
  ASSUME NEW H, NEW M, NEW rec, Ahead(H, M, rec), NEW M2, M \subseteq M2
  PROVE  Ahead(H, M2, rec)
BY DEF Ahead

\* The last state of the list leaves it, as it is marked.
LEMMA AheadPopLemma ==
  ASSUME NEW H, NEW M, NEW rec, Ahead(H, M, rec), rec # <<>>, rec[Len(rec)] \in M
  PROVE  Ahead(H, M, Front(rec))
<1>. DEFINE m == Len(rec)
            rec2 == Front(rec)
<1>1. /\ rec \in Seq(H.node)
      /\ \A i, j \in 1 .. m : rec[i] = rec[j] => i = j
      /\ \A s \in H.node : s \in M \/ \E j \in 1 .. m : rec[j] = s
      /\ \A k \in 1 .. m : \E h \in H.node :
           Both(H, rec[k], h) /\ (h \in M \/ Before(H, rec, h))
      /\ rec[m] \in M
  BY DEF Ahead
<1>2. /\ rec2 \in Seq(H.node)
      /\ Len(rec2) = m - 1
      /\ \A i \in 1 .. m - 1 : rec2[i] = rec[i]
  BY <1>1, FrontLemma
<1>3. m \in Nat /\ m # 0
  BY <1>1, SeqLemma
<1>. HIDE DEF rec2, m
<1>4. /\ 1 .. m = (1 .. m - 1) \union {m}
      /\ \A j \in 1 .. m - 1 : \A i \in 1 .. j : i \in 1 .. m - 1
  BY <1>3
<1>5. \A h : Before(H, rec, h) => h \in M \/ Before(H, rec2, h)
  <2>. SUFFICES ASSUME NEW h, Before(H, rec, h), h \notin M
                PROVE  Before(H, rec2, h)
    OBVIOUS
  <2>1. PICK j \in 1 .. m :
          /\ rec[j] = h
          /\ \A t \in H.node : Reaches(H, t, h) => \E i \in 1 .. j : rec[i] = t
    BY DEF Before, m
  <2>2. j \in 1 .. m - 1
    BY <1>1, <1>4, <2>1
  <2>3. \A t \in H.node : Reaches(H, t, h) => \E i \in 1 .. j : rec2[i] = t
    BY <1>2, <1>4, <2>1, <2>2
  <2>. QED
    BY <1>2, <2>1, <2>2, <2>3 DEF Before
<1>6. \A s \in H.node : s \in M \/ \E j \in 1 .. m - 1 : rec2[j] = s
  BY <1>1, <1>2, <1>4
<1>7. \A i, j \in 1 .. m - 1 : rec2[i] = rec2[j] => i = j
  BY <1>1, <1>2, <1>4
<1>8. \A k \in 1 .. m - 1 : \E h \in H.node :
        Both(H, rec2[k], h) /\ (h \in M \/ Before(H, rec2, h))
  BY <1>1, <1>2, <1>4, <1>5
<1>. QED
  BY <1>2, <1>6, <1>7, <1>8 DEF Ahead, rec2

\* The last state of the list leads only to marked states, and to those that
\* lead to it.
LEMMA BottomLemma ==
  ASSUME NEW H, NEW M, NEW rec, Ahead(H, M, rec),
         M \subseteq H.node, Closed(H, M),
         rec # <<>>, NEW r, r = rec[Len(rec)], r \notin M,
         NEW s \in H.node, Reaches(H, r, s)
  PROVE  s \in M \/ Reaches(H, s, r)
<1>. SUFFICES ASSUME s \notin M
              PROVE  Reaches(H, s, r)
  OBVIOUS
<1>. DEFINE m == Len(rec)
<1>1. /\ rec \in Seq(H.node)
      /\ \A i, j \in 1 .. m : rec[i] = rec[j] => i = j
      /\ \A x \in H.node : x \in M \/ \E j \in 1 .. m : rec[j] = x
      /\ \A k \in 1 .. m : \E h \in H.node :
           Both(H, rec[k], h) /\ (h \in M \/ Before(H, rec, h))
  BY DEF Ahead
<1>2. m \in Nat /\ m \in 1 .. m /\ r = rec[m] /\ r \in H.node
  BY <1>1, SeqLemma
<1>3. PICK h \in H.node : Both(H, s, h) /\ (h \in M \/ Before(H, rec, h))
  BY <1>1
<1>4. h \notin M
  <2>1. Reaches(H, h, s)
    BY <1>3 DEF Both
  <2>. QED
    BY <2>1, ReachesInside
<1>5. PICK j \in 1 .. m :
        /\ rec[j] = h
        /\ \A t \in H.node : Reaches(H, t, h) => \E i \in 1 .. j : rec[i] = t
  BY <1>3, <1>4 DEF Before
<1>. HIDE DEF m
<1>6. Reaches(H, r, h)
  BY <1>3, ReachesTransitive DEF Both
<1>7. PICK i \in 1 .. j : rec[i] = r
  BY <1>2, <1>5, <1>6
<1>8. i = m
  <2>1. i \in 1 .. m
    BY <1>2
  <2>. QED
    BY <1>1, <1>2, <1>7, <2>1
<1>9. j = m
  BY <1>2, <1>8
<1>10. h = r
  BY <1>2, <1>5, <1>9
<1>. QED
  BY <1>3, <1>10 DEF Both

\* The second search: A is what the earlier components have, C is what the
\* component under construction has.  Its root, path[1], leads to all of it
\* and back, and otherwise to A only.
Sweep(H, A, C, n, path, unseen) ==
  /\ n \in Nat
  /\ A \subseteq H.node /\ C \subseteq H.node /\ A \intersect C = {}
  /\ Closed(H, A)
  /\ \A i \in 1 .. n : path[i] \in C /\ unseen[i] \subseteq Successors(H, path[i])
  /\ \A s \in C : \A t \in Successors(H, s) :
       t \in A \union C \/ \E i \in 1 .. n : path[i] = s /\ t \in unseen[i]
  /\ n = 0 => C = {}
  /\ n # 0 => /\ \A t \in C : Both(H, path[1], t)
              /\ \A t \in H.node : Reaches(H, path[1], t) => t \in A \/ Reaches(H, t, path[1])

\* At first there is no component.
LEMMA SweepInit ==
  ASSUME NEW H, NEW path, NEW unseen
  PROVE  Sweep(H, {}, {}, 0, path, unseen)
BY DEF Sweep, Closed

\* A root.
Sets(H, A, path2, todo2, s) ==
  /\ s \in H.node /\ s \notin A
  /\ \A t \in H.node : Reaches(H, s, t) => t \in A \/ Reaches(H, t, s)
  /\ path2[1] = s /\ todo2[1] = Successors(H, s)

\* A root that leads only to its own component and to those that are done may
\* begin a component.
LEMMA SweepRootLemma ==
  ASSUME NEW H, NEW A, NEW C, NEW path, NEW unseen, Sweep(H, A, C, 0, path, unseen),
         NEW path2, NEW todo2, NEW s, Sets(H, A, path2, todo2, s),
         NEW C2, C2 = {s}
  PROVE  Sweep(H, A, C2, 1, path2, todo2)
<1>1. /\ A \subseteq H.node /\ Closed(H, A)
      /\ s \in H.node /\ s \notin A
      /\ \A t \in H.node : Reaches(H, s, t) => t \in A \/ Reaches(H, t, s)
      /\ path2[1] = s /\ todo2[1] = Successors(H, s)
  BY DEF Sweep, Sets
<1>2. 1 \in Nat /\ 1 # 0 /\ 1 \in 1 .. 1 /\ \A i \in 1 .. 1 : i = 1
  OBVIOUS
<1>3. /\ C2 \subseteq H.node /\ A \intersect C2 = {}
      /\ \A t \in C2 : t = s
      /\ s \in C2
  BY <1>1
<1>4. \A t \in C2 : Both(H, path2[1], t)
  BY <1>1, <1>3, BothLemma
<1>5. \A i \in 1 .. 1 : path2[i] \in C2 /\ todo2[i] \subseteq Successors(H, path2[i])
  BY <1>1, <1>2, <1>3
<1>6. \A r \in C2 : \A t \in Successors(H, r) :
        t \in A \union C2 \/ \E i \in 1 .. 1 : path2[i] = r /\ t \in todo2[i]
  BY <1>1, <1>2, <1>3
<1>. QED
  BY <1>1, <1>2, <1>3, <1>4, <1>5, <1>6 DEF Sweep

\* One more state of the component.
Grows(A, C, s, M, C2) == M = A \union C /\ C2 = C \union {s}

\* What a state of the component leads to, and is not done, is in it.
LEMMA SweepMarkLemma ==
  ASSUME NEW H, NEW A, NEW C, NEW n, NEW path, NEW unseen,
         Sweep(H, A, C, n, path, unseen), n # 0,
         NEW M, NEW s, NEW M2, NEW path2, NEW todo2,
         Marks(H, M, n, path, unseen, s, M2, path2, todo2),
         NEW C2, Grows(A, C, s, M, C2)
  PROVE  /\ Sweep(H, A, C2, n + 1, path2, todo2)
         /\ M2 = A \union C2
<1>1. /\ n \in Nat
      /\ A \subseteq H.node /\ C \subseteq H.node /\ A \intersect C = {}
      /\ Closed(H, A)
      /\ \A i \in 1 .. n : path[i] \in C /\ unseen[i] \subseteq Successors(H, path[i])
      /\ \A r \in C : \A t \in Successors(H, r) :
           t \in A \union C \/ \E i \in 1 .. n : path[i] = r /\ t \in unseen[i]
      /\ \A t \in C : Both(H, path[1], t)
      /\ \A t \in H.node : Reaches(H, path[1], t) => t \in A \/ Reaches(H, t, path[1])
  BY DEF Sweep
<1>2. /\ s \in H.node /\ s \notin A /\ s \notin C /\ s \in unseen[n]
      /\ M2 = M \union {s}
      /\ \A i \in 1 .. n : path2[i] = path[i]
      /\ \A i \in 1 .. n : todo2[i] = IF i = n THEN unseen[i] \ {s} ELSE unseen[i]
      /\ path2[n + 1] = s
      /\ todo2[n + 1] = Successors(H, s)
  BY DEF Marks, Grows
<1>3. /\ n + 1 \in Nat /\ n + 1 # 0 /\ n \in 1 .. n /\ 1 \in 1 .. n
      /\ 1 .. n + 1 = (1 .. n) \union {n + 1} /\ n + 1 \notin 1 .. n
  BY <1>1
<1>4. /\ C2 \subseteq H.node /\ A \intersect C2 = {}
      /\ M2 = A \union C2
      /\ C \subseteq C2 /\ s \in C2 /\ \A t \in C2 : t \in C \/ t = s
  BY <1>1, <1>2 DEF Grows
<1>5. Both(H, path[1], s)
  <2>1. Reaches(H, path[1], path[n]) /\ s \in Successors(H, path[n])
    BY <1>1, <1>2, <1>3 DEF Both
  <2>2. Reaches(H, path[1], s)
    BY <2>1, ReachesSuccessor, ReachesTransitive
  <2>. QED
    BY <1>1, <1>2, <2>2 DEF Both
<1>6. \A t \in C2 : Both(H, path2[1], t)
  BY <1>1, <1>2, <1>3, <1>4, <1>5
<1>7. \A i \in 1 .. n + 1 : path2[i] \in C2 /\ todo2[i] \subseteq Successors(H, path2[i])
  <2>1. \A i \in 1 .. n : todo2[i] \subseteq unseen[i]
    BY <1>2
  <2>2. \A i \in 1 .. n : path2[i] \in C2 /\ todo2[i] \subseteq Successors(H, path2[i])
    BY <1>1, <1>2, <1>4, <2>1
  <2>. QED
    BY <1>2, <1>3, <1>4, <2>2
<1>8. ASSUME NEW r \in C2, NEW t \in Successors(H, r)
      PROVE  t \in A \union C2 \/ \E i \in 1 .. n + 1 : path2[i] = r /\ t \in todo2[i]
  <2>1. CASE t = s
    BY <1>4, <2>1
  <2>2. CASE r = s
    BY <1>2, <1>3, <2>2
  <2>3. CASE r \in C /\ t # s
    <3>1. CASE t \in A \union C
      BY <1>4, <3>1
    <3>2. CASE \E i \in 1 .. n : path[i] = r /\ t \in unseen[i]
      BY <1>2, <1>3, <2>3, <3>2
    <3>. QED
      BY <1>1, <2>3, <3>1, <3>2
  <2>. QED
    BY <1>4, <2>1, <2>2, <2>3
<1>9. \A t \in H.node : Reaches(H, path2[1], t) => t \in A \/ Reaches(H, t, path2[1])
  BY <1>1, <1>2, <1>3
<1>. QED
  BY <1>1, <1>3, <1>4, <1>6, <1>7, <1>8, <1>9 DEF Sweep

\* A state that is no root leaves the path.
LEMMA SweepReturnLemma ==
  ASSUME NEW H, NEW A, NEW C, NEW n, NEW path, NEW unseen,
         Sweep(H, A, C, n, path, unseen), n # 0, n # 1, unseen[n] \subseteq A \union C
  PROVE  Sweep(H, A, C, n - 1, path, unseen)
<1>1. /\ n \in Nat
      /\ A \subseteq H.node /\ C \subseteq H.node /\ A \intersect C = {}
      /\ Closed(H, A)
      /\ \A i \in 1 .. n : path[i] \in C /\ unseen[i] \subseteq Successors(H, path[i])
      /\ \A r \in C : \A t \in Successors(H, r) :
           t \in A \union C \/ \E i \in 1 .. n : path[i] = r /\ t \in unseen[i]
      /\ \A t \in C : Both(H, path[1], t)
      /\ \A t \in H.node : Reaches(H, path[1], t) => t \in A \/ Reaches(H, t, path[1])
  BY DEF Sweep
<1>2. /\ n - 1 \in Nat /\ n - 1 # 0
      /\ 1 .. n = (1 .. n - 1) \union {n}
  BY <1>1
<1>3. \A r \in C : \A t \in Successors(H, r) :
        t \in A \union C \/ \E i \in 1 .. n - 1 : path[i] = r /\ t \in unseen[i]
  BY <1>1, <1>2
<1>. QED
  BY <1>1, <1>2, <1>3 DEF Sweep

\* The root leaves the path, and the component is there.
LEMMA SweepEndLemma ==
  ASSUME NEW H, NEW A, NEW C, NEW path, NEW unseen,
         Sweep(H, A, C, 1, path, unseen), unseen[1] \subseteq A \union C,
         NEW A2, A2 = A \union C, NEW path2, NEW todo2
  PROVE  /\ Sweep(H, A2, {}, 0, path2, todo2)
         /\ path[1] \in C
         /\ C \subseteq H.node
         /\ C = Component(H, path[1])
         /\ C \intersect A = {}
         /\ AllSuccessors(H, C) \subseteq C \union A
<1>0. 1 # 0 /\ 1 \in 1 .. 1 /\ \A i \in 1 .. 1 : i = 1
  OBVIOUS
<1>1. /\ A \subseteq H.node /\ C \subseteq H.node /\ A \intersect C = {}
      /\ Closed(H, A)
      /\ path[1] \in C
      /\ \A t \in C : Both(H, path[1], t)
  BY <1>0 DEF Sweep
<1>2. \A s \in C : Successors(H, s) \subseteq A2
  <2>1. \A r \in C : \A t \in Successors(H, r) :
          t \in A \union C \/ \E i \in 1 .. 1 : path[i] = r /\ t \in unseen[i]
    BY DEF Sweep
  <2>. QED
    BY <1>0, <2>1
<1>3. Closed(H, A2)
  BY <1>1, <1>2 DEF Closed
<1>4. C = Component(H, path[1])
  <2>1. \A t \in C : Reaches(H, path[1], t) /\ Reaches(H, t, path[1])
    BY <1>1 DEF Both
  <2>2. A \in SUBSET H.node /\ C \in SUBSET H.node
    BY <1>1
  <2>3. Closed(H, A \union C)
    BY <1>3
  <2>. QED
    BY <1>1, <2>1, <2>2, <2>3, ComponentLemma
<1>5. AllSuccessors(H, C) \subseteq C \union A
  BY <1>2 DEF AllSuccessors
<1>6. Sweep(H, A2, {}, 0, path2, todo2)
  <2>1. 0 \in Nat /\ 1 .. 0 = {} /\ A2 \subseteq H.node
    BY <1>1
  <2>. QED
    BY <1>3, <2>1 DEF Sweep
<1>. QED
  BY <1>1, <1>4, <1>5, <1>6

\* Only the path itself matters.
LEMMA SweepSame ==
  ASSUME NEW H, NEW A, NEW C, NEW n, NEW path, NEW unseen,
         Sweep(H, A, C, n, path, unseen), NEW path2, NEW todo2,
         \A i \in 1 .. n : path2[i] = path[i] /\ todo2[i] = unseen[i]
  PROVE  Sweep(H, A, C, n, path2, todo2)
<1>1. n \in Nat /\ (n # 0 => 1 \in 1 .. n)
  BY DEF Sweep
<1>. QED
  BY <1>1 DEF Sweep

\* Only the path itself matters to the records.
LEMMA PostSame ==
  ASSUME NEW H, NEW M, NEW n, NEW path, NEW unseen, NEW rec,
         Post(H, M, n, path, unseen, rec), NEW path2, NEW todo2,
         \A i \in 1 .. n : path2[i] = path[i] /\ todo2[i] = unseen[i]
  PROVE  Post(H, M, n, path2, todo2, rec)
<1>1. /\ n \in Nat
      /\ M \subseteq H.node
      /\ rec \in Seq(H.node)
      /\ \A j \in 1 .. Len(rec) : rec[j] \in M /\ Successors(H, rec[j]) \subseteq M
      /\ \A i, j \in 1 .. Len(rec) : rec[i] = rec[j] => i = j
  BY DEF Post
<1>2. /\ \A i \in 1 .. n : path2[i] \in M /\ todo2[i] \subseteq Successors(H, path2[i])
      /\ \A i, j \in 1 .. n : path2[i] = path2[j] => i = j
      /\ \A i, j \in 1 .. n : i <= j => Reaches(H, path2[i], path2[j])
      /\ \A i \in 1 .. n : \A j \in 1 .. Len(rec) : path2[i] # rec[j]
      /\ \A i \in 1 .. n : Successors(H, path2[i]) \subseteq M \union todo2[i]
  BY DEF Post
<1>3. \A h : (\E i \in 1 .. n : path[i] = h) <=> (\E i \in 1 .. n : path2[i] = h)
  OBVIOUS
<1>4. \A s \in M : \/ \E i \in 1 .. n : path2[i] = s
                   \/ \E j \in 1 .. Len(rec) : rec[j] = s
  <2>1. \A s \in M : \/ \E i \in 1 .. n : path[i] = s
                     \/ \E j \in 1 .. Len(rec) : rec[j] = s
    BY DEF Post
  <2>. QED
    BY <1>3, <2>1, Zenon
<1>5. \A k \in 1 .. Len(rec) : \E h \in M :
        /\ Both(H, rec[k], h)
        /\ (\E i \in 1 .. n : path2[i] = h) \/ After(H, rec, h)
  <2>1. \A k \in 1 .. Len(rec) : \E h \in M :
          /\ Both(H, rec[k], h)
          /\ (\E i \in 1 .. n : path[i] = h) \/ After(H, rec, h)
    BY DEF Post
  <2>. QED
    BY <1>3, <2>1, Zenon
<1>. QED
  BY <1>1, <1>2, <1>4, <1>5 DEF Post

-----------------------------------------------------------------------------
(* The steps of the algorithms. *)

\* The digraph that is searched.
G == [node |-> State, edge |-> edges]

\* The states that have a component.
Found == UNION Range(components)

\* One more component.
LEMMA FoundLemma ==
  ASSUME NEW S, NEW q \in Seq(S), NEW C \in S
  PROVE  UNION Range(Append(q, C)) = (UNION Range(q)) \union C
<1>1. Range(Append(q, C)) = Range(q) \union {C}
  BY AppendLemma
<1>2. \A R : UNION (R \union {C}) = (UNION R) \union C
  OBVIOUS
<1>. QED
  BY <1>1, <1>2, Zenon

\* There are fewer numbers than states.
LEMMA CountLemma ==
  ASSUME NEW S, S \subseteq State, IsFiniteSet(State)
  PROVE  Cardinality(S) \in Nat /\ Cardinality(S) <= Cardinality(State)
BY FS_Subset, FS_CardinalityType

-----------------------------------------------------------------------------
(* tarjan_iterative_tag.                                                   *)

\* The search path is the stack of frames.
TIFrame == [state : State, pos : SUBSET State]
TIPath == [i \in 1 .. Len(dfs_stack) |-> dfs_stack[i].state]
TITodo == [i \in 1 .. Len(dfs_stack) |-> dfs_stack[i].pos]

\* low_ of a state that has a component is too large to lower anything.
TIInv ==
  /\ low \in [DOMAIN number -> Nat]
  /\ dfs_stack \in Seq(TIFrame)
  /\ components \in Seq(SUBSET State)
  /\ Search(G, number, low, Len(dfs_stack), TIPath, TITodo, Found)
  /\ Stacked(number, Found, stack)
  /\ \A s \in Found : low[s] = Cardinality(State)

\* ++st.pos.
LEMMA TIAdvancedLemma ==
  ASSUME dfs_stack \in Seq(TIFrame), dfs_stack # <<>>, NEW s
  PROVE  /\ TI!Advanced(s) \in Seq(TIFrame)
         /\ Len(TI!Advanced(s)) = Len(dfs_stack)
         /\ \A i \in 1 .. Len(dfs_stack) :
              /\ TI!Advanced(s)[i].state = dfs_stack[i].state
              /\ TI!Advanced(s)[i].pos =
                   IF i = Len(dfs_stack) THEN dfs_stack[i].pos \ {s}
                   ELSE dfs_stack[i].pos
<1>1. /\ Len(dfs_stack) \in 1 .. Len(dfs_stack)
      /\ Len(dfs_stack) \in Nat
      /\ \A i \in 1 .. Len(dfs_stack) : dfs_stack[i] \in TIFrame
      /\ dfs_stack \in [1 .. Len(dfs_stack) -> TIFrame]
  BY SeqLemma
<1>2. TI!Advanced(s) \in [1 .. Len(dfs_stack) -> TIFrame]
  BY <1>1 DEF TI!Advanced, TIFrame
<1>3. TI!Advanced(s) \in Seq(TIFrame) /\ Len(TI!Advanced(s)) = Len(dfs_stack)
  BY <1>1, <1>2, IsSeqLemma
<1>. QED
  BY <1>1, <1>3 DEF TI!Advanced, TIFrame

\* What a visit does to the variables.
LEMMA TIVisitFacts ==
  ASSUME IsFiniteSet(State), TIInv, NEW s \in State, TI!Root(s) \/ TI!Tree(s)
  PROVE  /\ s \notin DOMAIN number
         /\ dfs_stack = <<>> \/ s \in dfs_stack[Len(dfs_stack)].pos
         /\ number' = [r \in DOMAIN number \union {s} |->
                        IF r = s THEN Cardinality(DOMAIN number) ELSE number[r]]
         /\ low' = [r \in DOMAIN low \union {s} |->
                        IF r = s THEN Cardinality(DOMAIN number) ELSE low[r]]
         /\ stack' = Append(stack, s)
         /\ edges' = edges /\ components' = components
         /\ dfs_stack' \in Seq(TIFrame)
         /\ Len(dfs_stack') = Len(dfs_stack) + 1
         /\ \A i \in 1 .. Len(dfs_stack) :
              /\ dfs_stack'[i].state = dfs_stack[i].state
              /\ dfs_stack'[i].pos =
                   IF i = Len(dfs_stack) THEN dfs_stack[i].pos \ {s}
                   ELSE dfs_stack[i].pos
         /\ dfs_stack'[Len(dfs_stack) + 1].state = s
         /\ dfs_stack'[Len(dfs_stack) + 1].pos = Successors(G, s)
<1>. DEFINE new == [state |-> s, pos |-> Successors(G, s)]
<1>1. new \in TIFrame
  BY DEF TIFrame, Successors, G
<1>2. dfs_stack \in Seq(TIFrame)
  BY DEF TIInv
<1>3. CASE TI!Root(s)
  <2>1. /\ dfs_stack = <<>> /\ s \notin DOMAIN number
        /\ number' = [r \in DOMAIN number \union {s} |->
                       IF r = s THEN Cardinality(DOMAIN number) ELSE number[r]]
        /\ low' = [r \in DOMAIN low \union {s} |->
                       IF r = s THEN Cardinality(DOMAIN number) ELSE low[r]]
        /\ stack' = Append(stack, s)
        /\ edges' = edges /\ components' = components
        /\ dfs_stack' = Append(dfs_stack, new)
    BY <1>3 DEF TI!Root, TI!Visit, TI!Known, TI!With, TI!curr_state_num,
                TI!Successors, Successors, TI!Digraph, G,
                TI!Cardinality, Cardinality
  <2>2. /\ dfs_stack' \in Seq(TIFrame)
        /\ Len(dfs_stack') = Len(dfs_stack) + 1
        /\ dfs_stack'[Len(dfs_stack) + 1] = new
        /\ Len(dfs_stack) = 0
    BY <1>1, <1>2, <2>1, AppendLemma, SeqLemma
  <2>. QED
    BY <2>1, <2>2
<1>4. CASE TI!Tree(s)
  <2>1. /\ dfs_stack # <<>> /\ s \notin DOMAIN number
        /\ s \in dfs_stack[Len(dfs_stack)].pos
        /\ number' = [r \in DOMAIN number \union {s} |->
                       IF r = s THEN Cardinality(DOMAIN number) ELSE number[r]]
        /\ low' = [r \in DOMAIN low \union {s} |->
                       IF r = s THEN Cardinality(DOMAIN number) ELSE low[r]]
        /\ stack' = Append(stack, s)
        /\ edges' = edges /\ components' = components
        /\ dfs_stack' = Append(TI!Advanced(s), new)
    BY <1>4 DEF TI!Tree, TI!top, TI!Last, TI!Visit, TI!Known, TI!With,
                TI!curr_state_num, TI!Successors, Successors, TI!Digraph, G,
                TI!Cardinality, Cardinality
  <2>2. /\ TI!Advanced(s) \in Seq(TIFrame)
        /\ Len(TI!Advanced(s)) = Len(dfs_stack)
        /\ \A i \in 1 .. Len(dfs_stack) :
             /\ TI!Advanced(s)[i].state = dfs_stack[i].state
             /\ TI!Advanced(s)[i].pos =
                  IF i = Len(dfs_stack) THEN dfs_stack[i].pos \ {s}
                  ELSE dfs_stack[i].pos
    BY <1>2, <2>1, TIAdvancedLemma
  <2>3. /\ dfs_stack' \in Seq(TIFrame)
        /\ Len(dfs_stack') = Len(dfs_stack) + 1
        /\ \A i \in 1 .. Len(dfs_stack) : dfs_stack'[i] = TI!Advanced(s)[i]
        /\ dfs_stack'[Len(dfs_stack) + 1] = new
    BY <1>1, <2>1, <2>2, AppendLemma
  <2>4. new.state = s /\ new.pos = Successors(G, s)
    OBVIOUS
  <2>. HIDE DEF new
  <2>. QED
    BY <2>1, <2>2, <2>3, <2>4
<1>. QED
  BY <1>3, <1>4

\* Root and Tree.
LEMMA TIVisitStep ==
  ASSUME IsFiniteSet(State), TIInv, NEW s \in State, TI!Root(s) \/ TI!Tree(s)
  PROVE  TIInv' /\ edges' = edges /\ components' = components
<1>. DEFINE n == Len(dfs_stack)
<1>1. /\ low \in [DOMAIN number -> Nat]
      /\ dfs_stack \in Seq(TIFrame)
      /\ components \in Seq(SUBSET State)
      /\ Search(G, number, low, n, TIPath, TITodo, Found)
      /\ Stacked(number, Found, stack)
      /\ \A r \in Found : low[r] = Cardinality(State)
  BY DEF TIInv
<1>2. /\ Found \subseteq DOMAIN number /\ DOMAIN number \subseteq State
      /\ number \in [DOMAIN number -> Nat]
      /\ \A r \in DOMAIN number : number[r] < Cardinality(DOMAIN number)
  BY <1>1 DEF Search, Numbered, G
<1>3. /\ s \notin DOMAIN number
      /\ dfs_stack = <<>> \/ s \in dfs_stack[n].pos
      /\ number' = [r \in DOMAIN number \union {s} |->
                     IF r = s THEN Cardinality(DOMAIN number) ELSE number[r]]
      /\ low' = [r \in DOMAIN low \union {s} |->
                     IF r = s THEN Cardinality(DOMAIN number) ELSE low[r]]
      /\ stack' = Append(stack, s)
      /\ edges' = edges /\ components' = components
      /\ dfs_stack' \in Seq(TIFrame)
      /\ Len(dfs_stack') = n + 1
      /\ \A i \in 1 .. n :
           /\ dfs_stack'[i].state = dfs_stack[i].state
           /\ dfs_stack'[i].pos = IF i = n THEN dfs_stack[i].pos \ {s}
                                  ELSE dfs_stack[i].pos
      /\ dfs_stack'[n + 1].state = s
      /\ dfs_stack'[n + 1].pos = Successors(G, s)
  BY TIVisitFacts
<1>4. n \in Nat /\ (dfs_stack = <<>> => n = 0) /\ (dfs_stack # <<>> => n \in 1 .. n)
  BY <1>1, SeqLemma
<1>5. Cardinality(DOMAIN number) \in Nat
  BY <1>2, CountLemma
<1>. HIDE DEF n
<1>6. /\ 1 .. n + 1 = (1 .. n) \union {n + 1} /\ n + 1 \notin 1 .. n
      /\ \A i \in 1 .. n : i \in 1 .. n + 1
  BY <1>4
<1>7. /\ \A i \in 1 .. n : TIPath'[i] = TIPath[i]
      /\ \A i \in 1 .. n : TITodo'[i] = IF i = n THEN TITodo[i] \ {s} ELSE TITodo[i]
      /\ TIPath'[n + 1] = s
      /\ TITodo'[n + 1] = Successors(G, s)
  BY <1>3, <1>6 DEF TIPath, TITodo, n
<1>8. n = 0 \/ s \in TITodo[n]
  BY <1>3, <1>4 DEF TITodo, n
<1>9. \A r \in Pending(number, Found) : low'[r] = low[r]
  BY <1>1, <1>3 DEF Pending
<1>10. low'[s] = Cardinality(DOMAIN number)
  BY <1>3
<1>16. /\ number' \in [DOMAIN number \union {s} -> Nat]
       /\ number'[s] = Cardinality(DOMAIN number)
       /\ \A r \in DOMAIN number : number'[r] = number[r]
  BY <1>2, <1>3, <1>5
<1>17. Visits(G, Found, number, low, n, TIPath, TITodo, s,
              number', low', TIPath', TITodo')
  <2>1. s \in G.node
    BY DEF G
  <2>. QED
    BY <1>3, <1>7, <1>8, <1>9, <1>10, <1>16, <2>1 DEF Visits
<1>11. Search(G, number', low', n + 1, TIPath', TITodo', Found)
  <2>1. IsFiniteSet(G.node)
    BY DEF G
  <2>2. Search(G, number, low, n, TIPath, TITodo, Found)
    BY <1>1 DEF n
  <2>. HIDE DEF G, TIPath, TITodo, Found
  <2>. QED
    BY <1>17, <2>1, <2>2, VisitLemma
<1>12. Stacked(number', Found, stack')
  <2>1. Stacked(number', Found, Append(stack, s))
    <3>1. PICK c : c = Cardinality(DOMAIN number)
      OBVIOUS
    <3>2. Stacked(number, Found, stack) /\ s \notin DOMAIN number
      BY <1>1, <1>3
    <3>3. /\ number \in [DOMAIN number -> Nat] /\ Found \subseteq DOMAIN number
          /\ c \in Nat /\ \A r \in DOMAIN number : number[r] < c
      BY <1>2, <1>5, <3>1
    <3>4. /\ number' \in [DOMAIN number \union {s} -> Nat]
          /\ number'[s] = c
          /\ \A r \in DOMAIN number : number'[r] = number[r]
      BY <1>16, <3>1
    <3>. HIDE DEF Found
    <3>. QED
      BY <3>2, <3>3, <3>4, StackVisitLemma
  <2>. QED
    BY <1>3, <2>1
<1>13. G' = G /\ Found' = Found /\ Len(dfs_stack') = n + 1
  BY <1>3 DEF G, Found
<1>14. low' \in [DOMAIN number' -> Nat]
  BY <1>1, <1>3, <1>5
<1>15. \A r \in Found : low'[r] = Cardinality(State)
  BY <1>1, <1>2, <1>3
<1>. QED
  <2>. HIDE DEF G, Found, TIPath, TITodo
  <2>. QED
    BY <1>1, <1>3, <1>11, <1>12, <1>13, <1>14, <1>15 DEF TIInv

\* What the invariant says of the search path.
LEMMA TIPathLemma ==
  ASSUME IsFiniteSet(State), TIInv
  PROVE  /\ Len(dfs_stack) \in Nat
         /\ dfs_stack # <<>> =>
              /\ Len(dfs_stack) # 0 /\ Len(dfs_stack) \in 1 .. Len(dfs_stack)
              /\ TIPath[Len(dfs_stack)] = TI!src
              /\ TITodo[Len(dfs_stack)] = TI!top.pos
              /\ TI!src \in State
         /\ dfs_stack = <<>> => Len(dfs_stack) = 0
         /\ \A i \in 1 .. Len(dfs_stack) :
              /\ TIPath[i] = dfs_stack[i].state /\ TITodo[i] = dfs_stack[i].pos
              /\ TIPath[i] \in Pending(number, Found)
         /\ Found \subseteq DOMAIN number /\ DOMAIN number \subseteq State
         /\ number \in [DOMAIN number -> Nat]
         /\ \A s \in DOMAIN number : number[s] < Cardinality(State)
         /\ \A s \in Pending(number, Found) : low[s] <= number[s] /\ low[s] \in Nat
<1>1. /\ dfs_stack \in Seq(TIFrame)
      /\ Search(G, number, low, Len(dfs_stack), TIPath, TITodo, Found)
  BY DEF TIInv
<1>2. /\ Len(dfs_stack) \in Nat
      /\ \A i \in 1 .. Len(dfs_stack) : dfs_stack[i] \in TIFrame
      /\ dfs_stack # <<>> =>
           Len(dfs_stack) # 0 /\ Len(dfs_stack) \in 1 .. Len(dfs_stack)
      /\ dfs_stack = <<>> => Len(dfs_stack) = 0
  BY <1>1, SeqLemma
<1>3. /\ Found \subseteq DOMAIN number /\ DOMAIN number \subseteq State
      /\ number \in [DOMAIN number -> Nat]
      /\ \A s \in DOMAIN number : number[s] < Cardinality(DOMAIN number)
      /\ \A i \in 1 .. Len(dfs_stack) : TIPath[i] \in Pending(number, Found)
  BY <1>1 DEF Search, Numbered, G
<1>4. /\ Cardinality(DOMAIN number) \in Nat /\ Cardinality(State) \in Nat
      /\ Cardinality(DOMAIN number) <= Cardinality(State)
  BY <1>3, CountLemma, FS_CardinalityType
<1>5. \A s \in DOMAIN number : number[s] < Cardinality(State)
  BY <1>3, <1>4
<1>6. \A s \in Pending(number, Found) : low[s] <= number[s] /\ low[s] \in Nat
  BY <1>1 DEF Search, WayBack
<1>7. dfs_stack # <<>> =>
              /\ TIPath[Len(dfs_stack)] = TI!src
              /\ TITodo[Len(dfs_stack)] = TI!top.pos
              /\ TI!src \in State
  BY <1>2 DEF TIPath, TITodo, TI!src, TI!top, TI!Last, TIFrame
<1>. QED
  BY <1>2, <1>3, <1>5, <1>6, <1>7 DEF TIPath, TITodo

\* NonTree: a destination of a finished component has the largest low_.
LEMMA TINonTreeStep ==
  ASSUME IsFiniteSet(State), TIInv, NEW s \in State, TI!NonTree(s)
  PROVE  TIInv' /\ edges' = edges /\ components' = components
<1>. DEFINE n == Len(dfs_stack)
            p == TI!src
<1>1. /\ low \in [DOMAIN number -> Nat]
      /\ dfs_stack \in Seq(TIFrame)
      /\ components \in Seq(SUBSET State)
      /\ Search(G, number, low, n, TIPath, TITodo, Found)
      /\ Stacked(number, Found, stack)
      /\ \A r \in Found : low[r] = Cardinality(State)
  BY DEF TIInv
<1>2. /\ dfs_stack # <<>>
      /\ s \in TI!top.pos /\ s \in DOMAIN number
      /\ low' = [low EXCEPT ![p] = TI!Lower(low[p], low[s])]
      /\ dfs_stack' = TI!Advanced(s)
      /\ edges' = edges /\ number' = number /\ stack' = stack
      /\ components' = components
  BY DEF TI!NonTree, TI!Known
<1>3. /\ n \in Nat /\ n # 0 /\ n \in 1 .. n
      /\ TIPath[n] = p /\ s \in TITodo[n]
      /\ p \in Pending(number, Found)
      /\ \A i \in 1 .. n : TIPath[i] = dfs_stack[i].state /\ TITodo[i] = dfs_stack[i].pos
      /\ \A r \in DOMAIN number : number[r] < Cardinality(State) /\ number[r] \in Nat
      /\ \A r \in Pending(number, Found) : low[r] <= number[r] /\ low[r] \in Nat
      /\ Pending(number, Found) \subseteq DOMAIN number
  BY <1>2, TIPathLemma DEF Pending
<1>4. /\ dfs_stack' \in Seq(TIFrame)
      /\ Len(dfs_stack') = n
      /\ \A i \in 1 .. n :
           /\ TIPath'[i] = TIPath[i]
           /\ TITodo'[i] = IF i = n THEN TITodo[i] \ {s} ELSE TITodo[i]
  <2>1. /\ dfs_stack' \in Seq(TIFrame)
        /\ Len(dfs_stack') = n
        /\ \A i \in 1 .. n :
             /\ dfs_stack'[i].state = dfs_stack[i].state
             /\ dfs_stack'[i].pos =
                  IF i = n THEN dfs_stack[i].pos \ {s} ELSE dfs_stack[i].pos
    BY <1>1, <1>2, TIAdvancedLemma
  <2>. QED
    BY <2>1 DEF TIPath, TITodo
<1>. HIDE DEF n, p
<1>5. /\ low' \in [DOMAIN number -> Nat]
      /\ \A r \in DOMAIN number \ {p} : low'[r] = low[r]
      /\ low'[p] <= low[p] /\ low'[p] <= low[s]
      /\ low'[p] = low[p] \/ low'[p] = low[s]
      /\ low[s] \in Nat /\ low[p] \in Nat
  <2>1. /\ p \in DOMAIN number /\ low[p] \in Nat /\ low[s] \in Nat
    BY <1>1, <1>2, <1>3
  <2>2. TI!Lower(low[p], low[s]) \in Nat
    BY <2>1 DEF TI!Lower
  <2>3. /\ low'[p] = TI!Lower(low[p], low[s])
        /\ low' \in [DOMAIN number -> Nat]
        /\ \A r \in DOMAIN number \ {p} : low'[r] = low[r]
    BY <1>1, <1>2, <2>1, <2>2
  <2>. QED
    BY <2>1, <2>3 DEF TI!Lower
<1>6. s \in Pending(number, Found) \/ low'[p] = low[p]
  <2>. SUFFICES ASSUME s \in Found
                PROVE  low'[p] = low[p]
    BY <1>2 DEF Pending
  <2>1. low[s] = Cardinality(State) /\ low[p] < Cardinality(State)
    BY <1>1, <1>3, FS_CardinalityType
  <2>. QED
    BY <1>5, <2>1
<1>7. Lowers(Found, number, low, n, TIPath, TITodo, s, low', TITodo')
  <2>1. s \in Pending(number, Found) => low'[p] <= number[s]
    BY <1>3, <1>5
  <2>. QED
    BY <1>2, <1>3, <1>4, <1>5, <1>6, <2>1 DEF Lowers
<1>8. Search(G, number, low', n, TIPath, TITodo', Found)
  BY <1>1, <1>7, LowerLemma DEF n
<1>9. SamePath(Found, number, low', n, TIPath, TITodo', low', TIPath', TITodo')
  BY <1>4 DEF SamePath
<1>10. Search(G, number, low', n, TIPath', TITodo', Found)
  BY <1>8, <1>9, SearchSame
<1>11. G' = G /\ Found' = Found
  BY <1>2 DEF G, Found
<1>12. \A r \in Found : low'[r] = Cardinality(State)
  BY <1>1, <1>3, <1>5, TIPathLemma DEF Pending
<1>. QED
  <2>. HIDE DEF G, Found, TIPath, TITodo
  <2>. QED
    BY <1>1, <1>2, <1>4, <1>5, <1>10, <1>11, <1>12 DEF TIInv

\* Leave: the path gets shorter, and the low_ of the parent may go down.
LEMMA TILeaveLemma ==
  ASSUME IsFiniteSet(State), TIInv, dfs_stack # <<>>,
         NEW lows, lows \in [DOMAIN number -> Nat],
         dfs_stack' = Front(dfs_stack),
         low' = IF Len(dfs_stack) = 1 THEN lows
                ELSE [lows EXCEPT ![TI!Last(TI!Front(dfs_stack)).state] =
                                     TI!Lower(@, lows[TI!src])]
  PROVE  /\ dfs_stack' \in Seq(TIFrame)
         /\ Len(dfs_stack') = Len(dfs_stack) - 1
         /\ \A i \in 1 .. Len(dfs_stack) - 1 :
              TIPath'[i] = TIPath[i] /\ TITodo'[i] = TITodo[i]
         /\ low' \in [DOMAIN number -> Nat]
         /\ \A r \in DOMAIN number :
              low'[r] = IF /\ Len(dfs_stack) # 1
                           /\ r = TIPath[Len(dfs_stack) - 1]
                           /\ lows[TI!src] < lows[r]
                        THEN lows[TI!src] ELSE lows[r]
<1>. DEFINE n == Len(dfs_stack)
            p == TI!src
<1>1. /\ n \in Nat /\ n # 0 /\ n \in 1 .. n
      /\ TIPath[n] = p
      /\ \A i \in 1 .. n : TIPath[i] \in DOMAIN number
      /\ \A i \in 1 .. n : TIPath[i] = dfs_stack[i].state /\ TITodo[i] = dfs_stack[i].pos
  BY TIPathLemma DEF Pending
<1>2. /\ dfs_stack' \in Seq(TIFrame)
      /\ Len(dfs_stack') = n - 1
      /\ \A i \in 1 .. n - 1 : dfs_stack'[i] = dfs_stack[i]
  BY FrontLemma DEF TIInv
<1>3. \A i \in 1 .. n - 1 : TIPath'[i] = TIPath[i] /\ TITodo'[i] = TITodo[i]
  BY <1>1, <1>2 DEF TIPath, TITodo
<1>4. n # 1 => /\ n - 1 \in 1 .. n
               /\ TI!Last(TI!Front(dfs_stack)).state = TIPath[n - 1]
  <2>. SUFFICES ASSUME n # 1
                PROVE  /\ n - 1 \in 1 .. n
                       /\ TI!Last(TI!Front(dfs_stack)).state = TIPath[n - 1]
    OBVIOUS
  <2>1. n - 1 \in 1 .. n /\ n - 1 \in 1 .. n - 1
    <3>1. n \in Nat /\ n # 0 /\ n # 1
      BY <1>1
    <3>. HIDE DEF n
    <3>. QED
      BY <3>1
  <2>2. TI!Front(dfs_stack) = Front(dfs_stack)
    BY DEF TI!Front, Front
  <2>3. TI!Last(Front(dfs_stack)) = dfs_stack[n - 1]
    BY <1>2, <2>1 DEF TI!Last
  <2>. QED
    BY <1>1, <2>1, <2>2, <2>3
<1>. HIDE DEF n, p
<1>5. p \in DOMAIN number /\ \A r \in DOMAIN number : lows[r] \in Nat
  BY <1>1
<1>6. CASE n = 1
  <2>1. low' = lows
    BY <1>6 DEF n
  <2>. QED
    BY <1>2, <1>3, <1>6, <2>1 DEF n, p
<1>7. CASE n # 1
  <2>. DEFINE q == TIPath[n - 1]
  <2>1. low' = [lows EXCEPT ![q] = TI!Lower(lows[q], lows[p])]
    BY <1>4, <1>7 DEF n, p
  <2>2. q \in DOMAIN number
    BY <1>1, <1>4, <1>7
  <2>3. TI!Lower(lows[q], lows[p]) =
          IF lows[q] < lows[p] THEN lows[q] ELSE lows[p]
    BY DEF TI!Lower
  <2>. HIDE DEF q
  <2>4. TI!Lower(lows[q], lows[p]) \in Nat
    BY <1>5, <2>2, <2>3
  <2>5. /\ low' \in [DOMAIN number -> Nat]
        /\ low'[q] = TI!Lower(lows[q], lows[p])
        /\ \A r \in DOMAIN number : r # q => low'[r] = lows[r]
    BY <2>1, <2>2, <2>4
  <2>6. \A r \in DOMAIN number :
          low'[r] = IF r = q /\ lows[p] < lows[r] THEN lows[p] ELSE lows[r]
    BY <1>5, <2>2, <2>3, <2>5
  <2>. QED
    BY <1>2, <1>3, <1>7, <2>5, <2>6 DEF n, p, q
<1>. QED
  BY <1>6, <1>7

\* Finish.
LEMMA TIFinishStep ==
  ASSUME IsFiniteSet(State), TIInv, TI!Finish
  PROVE  TIInv' /\ edges' = edges /\ components' = components
<1>. DEFINE n == Len(dfs_stack)
            p == TI!src
<1>1. /\ low \in [DOMAIN number -> Nat]
      /\ components \in Seq(SUBSET State)
      /\ Search(G, number, low, n, TIPath, TITodo, Found)
      /\ Stacked(number, Found, stack)
      /\ \A r \in Found : low[r] = Cardinality(State)
  BY DEF TIInv
<1>2. /\ dfs_stack # <<>> /\ TI!top.pos = {}
      /\ low[p] # number[p]
      /\ dfs_stack' = Front(dfs_stack)
      /\ low' = IF n = 1 THEN low
                ELSE [low EXCEPT ![TI!Last(TI!Front(dfs_stack)).state] =
                                    TI!Lower(@, low[TI!src])]
      /\ edges' = edges /\ number' = number /\ stack' = stack
      /\ components' = components
  BY DEF TI!Finish, TI!Leave, TI!Front, Front
<1>3. /\ n \in Nat /\ n # 0 /\ n \in 1 .. n
      /\ TIPath[n] = p /\ TITodo[n] = {}
      /\ \A i \in 1 .. n : TIPath[i] \in Pending(number, Found)
      /\ Found \subseteq DOMAIN number
      /\ Pending(number, Found) \subseteq DOMAIN number
  BY <1>2, TIPathLemma DEF Pending
<1>4. /\ dfs_stack' \in Seq(TIFrame)
      /\ Len(dfs_stack') = n - 1
      /\ \A i \in 1 .. n - 1 : TIPath'[i] = TIPath[i] /\ TITodo'[i] = TITodo[i]
      /\ low' \in [DOMAIN number -> Nat]
      /\ \A r \in DOMAIN number :
           low'[r] = IF n # 1 /\ r = TIPath[n - 1] /\ low[p] < low[r]
                     THEN low[p] ELSE low[r]
  BY <1>1, <1>2, TILeaveLemma
<1>. HIDE DEF n, p
<1>5. Departs(Found, number, low, n, TIPath, TITodo, low')
  BY <1>2, <1>3, <1>4 DEF Departs
<1>6. Search(G, number, low', n - 1, TIPath, TITodo, Found)
  BY <1>1, <1>5, FinishLemma DEF n
<1>7. SamePath(Found, number, low', n - 1, TIPath, TITodo, low', TIPath', TITodo')
  BY <1>4 DEF SamePath
<1>8. Search(G, number, low', n - 1, TIPath', TITodo', Found)
  BY <1>6, <1>7, SearchSame
<1>9. G' = G /\ Found' = Found
  BY <1>2 DEF G, Found
<1>10. \A r \in Found : low'[r] = Cardinality(State)
  <2>1. \A r \in Found : r # TIPath[n - 1] \/ n = 1
    BY <1>3 DEF Pending
  <2>. QED
    BY <1>1, <1>3, <1>4, <2>1
<1>. QED
  <2>. HIDE DEF G, Found, TIPath, TITodo
  <2>. QED
    BY <1>1, <1>2, <1>4, <1>8, <1>9, <1>10 DEF TIInv

\* What the do loop pops is the component of the root that ends, and all that
\* it leads to is done.
LEMMA TIEmitStep ==
  ASSUME IsFiniteSet(State), TIInv, TI!Emit
  PROVE  /\ TIInv' /\ edges' = edges
         /\ \E C \in SUBSET State :
              /\ components' = Append(components, C)
              /\ C = Component(G, TI!src) /\ TI!src \in C /\ TI!src \in State
              /\ C \intersect Found = {}
              /\ AllSuccessors(G, C) \subseteq C \union Found
<1>. DEFINE n == Len(dfs_stack)
            p == TI!src
            C == TI!Popped
            F2 == Found \union C
            k == TI!SrcAt
            lows == [s \in TI!Known |-> IF s \in TI!Popped THEN TI!low_max ELSE low[s]]
<1>1. /\ low \in [DOMAIN number -> Nat]
      /\ components \in Seq(SUBSET State)
      /\ Search(G, number, low, n, TIPath, TITodo, Found)
      /\ Stacked(number, Found, stack)
      /\ \A r \in Found : low[r] = Cardinality(State)
  BY DEF TIInv
<1>2. /\ dfs_stack # <<>> /\ TI!top.pos = {}
      /\ low[p] = number[p]
      /\ dfs_stack' = Front(dfs_stack)
      /\ low' = IF n = 1 THEN lows
                ELSE [lows EXCEPT ![TI!Last(TI!Front(dfs_stack)).state] =
                                    TI!Lower(@, lows[TI!src])]
      /\ edges' = edges /\ number' = number
      /\ components' = Append(components, C)
      /\ stack' = SubSeq(stack, 1, k - 1)
  BY DEF TI!Emit, TI!Leave, TI!Front, Front
<1>3. /\ n \in Nat /\ n # 0 /\ n \in 1 .. n
      /\ TIPath[n] = p /\ TITodo[n] = {}
      /\ \A i \in 1 .. n : TIPath[i] \in Pending(number, Found)
      /\ Found \subseteq DOMAIN number /\ DOMAIN number \subseteq State
      /\ Pending(number, Found) \subseteq DOMAIN number
      /\ \A r \in DOMAIN number : number[r] \in Nat
      /\ number \in [DOMAIN number -> Nat]
      /\ p \in State
      /\ \A s \in Pending(number, Found) : low[s] <= number[s] /\ low[s] \in Nat
      /\ \A s \in DOMAIN number : number[s] < Cardinality(State)
  BY <1>2, TIPathLemma DEF Pending
<1>4. k \in DOMAIN stack /\ stack[k] = p
  <2>1. k = CHOOSE i \in DOMAIN stack : stack[i] = p
    BY DEF TI!SrcAt
  <2>2. p \in Pending(number, Found)
    BY <1>3
  <2>. HIDE DEF k, p
  <2>. QED
    BY <1>1, <2>1, <2>2, StackAtLemma
<1>5. C = Above(stack, k)
  BY DEF TI!Popped, Above
<1>6. TI!Known = DOMAIN number /\ TI!low_max = Cardinality(State)
  BY DEF TI!Known, TI!low_max, TI!Cardinality, Cardinality
<1>7. Cardinality(State) \in Nat
  BY FS_CardinalityType
<1>8. /\ lows \in [DOMAIN number -> Nat]
      /\ \A r \in C \intersect DOMAIN number : lows[r] = Cardinality(State)
      /\ \A r \in DOMAIN number \ C : lows[r] = low[r]
  BY <1>1, <1>6, <1>7
<1>. HIDE DEF lows, C, F2, k
<1>9. /\ dfs_stack' \in Seq(TIFrame)
      /\ Len(dfs_stack') = n - 1
      /\ \A i \in 1 .. n - 1 : TIPath'[i] = TIPath[i] /\ TITodo'[i] = TITodo[i]
      /\ low' \in [DOMAIN number -> Nat]
      /\ \A r \in DOMAIN number :
           low'[r] = IF n # 1 /\ r = TIPath[n - 1] /\ lows[p] < lows[r]
                     THEN lows[p] ELSE lows[r]
  BY <1>2, <1>8, TILeaveLemma
<1>. HIDE DEF n, p
<1>10. /\ C = NotOlder(number, Found, p)
       /\ Stacked(number, F2, stack')
  <2>1. p \in Pending(number, Found)
    BY <1>3
  <2>2. number \in [DOMAIN number -> Nat] /\ Found \subseteq DOMAIN number
    BY <1>3
  <2>3. Stacked(number, Found, stack) /\ F2 = Found \union C
    BY <1>1 DEF F2
  <2>4. /\ C = NotOlder(number, Found, p)
        /\ Stacked(number, F2, SubSeq(stack, 1, k - 1))
    BY <1>4, <1>5, <2>1, <2>2, <2>3, StackCutLemma
  <2>. QED
    BY <1>2, <2>4
<1>11. /\ Search(G, number, low, n - 1, TIPath, TITodo, F2)
       /\ p \in C
       /\ C = Component(G, p)
       /\ C \intersect Found = {}
       /\ AllSuccessors(G, C) \subseteq C \union Found
  <2>1. Search(G, number, low, n, TIPath, TITodo, Found)
    BY <1>1 DEF n
  <2>2. Ends(number, low, n, TIPath, TITodo, Found, p, C, F2)
    BY <1>2, <1>3, <1>10 DEF Ends, F2
  <2>. QED
    BY <2>1, <2>2, EmitLemma
<1>12. C \subseteq DOMAIN number
  BY <1>3, <1>10 DEF NotOlder
<1>13. lows[p] = Cardinality(State) /\ \A r \in DOMAIN number : lows[r] <= Cardinality(State)
  <2>1. \A r \in DOMAIN number \ C : low[r] <= Cardinality(State)
    <3>1. \A r \in Found : low[r] <= Cardinality(State)
      BY <1>1, <1>7
    <3>2. \A r \in Pending(number, Found) : low[r] <= Cardinality(State)
      BY <1>3, <1>7
    <3>. QED
      BY <3>1, <3>2 DEF Pending
  <2>2. \A r \in C : lows[r] = Cardinality(State)
    BY <1>8, <1>12
  <2>. QED
    BY <1>7, <1>8, <1>11, <2>1, <2>2
<1>14. \A r \in DOMAIN number : low'[r] = lows[r]
  <2>1. \A r \in DOMAIN number : lows[r] \in Nat /\ ~ (lows[p] < lows[r])
    BY <1>7, <1>8, <1>13
  <2>. QED
    BY <1>9, <2>1
<1>15. \A r \in F2 : low'[r] = Cardinality(State)
  BY <1>1, <1>3, <1>8, <1>12, <1>14 DEF F2
<1>16. SamePath(F2, number, low, n - 1, TIPath, TITodo,
                low', TIPath', TITodo')
  <2>1. \A r \in Pending(number, F2) : r \in DOMAIN number \ C
    BY DEF Pending, F2
  <2>. QED
    BY <1>8, <1>9, <1>14, <2>1 DEF SamePath
<1>17. Search(G, number, low', n - 1, TIPath', TITodo', F2)
  BY <1>11, <1>16, SearchSame
<1>18. C \in SUBSET State
  BY <1>3, <1>12
<1>19. /\ Found' = F2
       /\ components' \in Seq(SUBSET State)
  BY <1>1, <1>2, <1>18, FoundLemma, AppendLemma DEF Found, F2
<1>20. G' = G
  BY <1>2 DEF G
<1>21. TIInv'
  <2>. HIDE DEF G, Found, TIPath, TITodo
  <2>. QED
    BY <1>2, <1>9, <1>10, <1>15, <1>17, <1>19, <1>20 DEF TIInv
<1>. QED
  BY <1>2, <1>3, <1>11, <1>18, <1>21 DEF p

-----------------------------------------------------------------------------
(* tarjan_recursive_tag.  The order of the visits is not kept: low_ has it *)
(* for the states of the active calls only, and theirs are in min.  visit  *)
(* is that order, lo what the iterative form would have in low_.           *)

\* The search path is the stack of calls.
TRFrame == [state : State, min : Nat, todo : SUBSET State]
TRPath == [i \in 1 .. Len(calls) |-> calls[i].state]
TRTodo == [i \in 1 .. Len(calls) |-> calls[i].todo]

\* What is in low_ and in min, told with visit and lo.
TRHistory(visit, lo) ==
  /\ lo \in [DOMAIN visit -> Nat]
  /\ low \in [DOMAIN visit -> Nat]
  /\ calls \in Seq(TRFrame)
  /\ components \in Seq(SUBSET State)
  /\ Search(G, visit, lo, Len(calls), TRPath, TRTodo, Found)
  /\ Stacked(visit, Found, stack)
  /\ \A i \in 1 .. Len(calls) :
       calls[i].min = lo[TRPath[i]] /\ low[TRPath[i]] = visit[TRPath[i]]
  /\ \A s \in Pending(visit, Found) :
       (\A i \in 1 .. Len(calls) : TRPath[i] # s) => low[s] = lo[s]
  /\ \A s \in Found : low[s] = Cardinality(State)

\* Some visit and lo tell it.
TRInv == \E visit, lo : TRHistory(visit, lo)

\* What the invariant says of the search path.
LEMMA TRPathLemma ==
  ASSUME IsFiniteSet(State), NEW visit, NEW lo, TRHistory(visit, lo)
  PROVE  /\ Len(calls) \in Nat
         /\ calls # <<>> =>
              /\ Len(calls) # 0 /\ Len(calls) \in 1 .. Len(calls)
              /\ TRPath[Len(calls)] = TR!top.state
              /\ TRTodo[Len(calls)] = TR!top.todo
              /\ lo[TR!top.state] = TR!top.min
              /\ TR!top.state \in State
         /\ calls = <<>> => Len(calls) = 0
         /\ \A i \in 1 .. Len(calls) :
              /\ TRPath[i] = calls[i].state /\ TRTodo[i] = calls[i].todo
              /\ TRPath[i] \in Pending(visit, Found)
         /\ Found \subseteq DOMAIN visit /\ DOMAIN visit \subseteq State
         /\ visit \in [DOMAIN visit -> Nat]
         /\ \A s \in DOMAIN visit : visit[s] < Cardinality(State)
         /\ \A s \in DOMAIN visit : visit[s] < Cardinality(DOMAIN visit)
         /\ \A s \in Pending(visit, Found) : lo[s] <= visit[s] /\ lo[s] \in Nat
         /\ \A i, j \in 1 .. Len(calls) : TRPath[i] = TRPath[j] => i = j
         /\ Cardinality(DOMAIN visit) \in Nat /\ Cardinality(State) \in Nat
<1>1. /\ calls \in Seq(TRFrame)
      /\ Search(G, visit, lo, Len(calls), TRPath, TRTodo, Found)
      /\ \A i \in 1 .. Len(calls) : calls[i].min = lo[TRPath[i]]
  BY DEF TRHistory
<1>2. /\ Len(calls) \in Nat
      /\ \A i \in 1 .. Len(calls) : calls[i] \in TRFrame
      /\ calls # <<>> =>
           Len(calls) # 0 /\ Len(calls) \in 1 .. Len(calls)
      /\ calls = <<>> => Len(calls) = 0
  BY <1>1, SeqLemma
<1>3. /\ Found \subseteq DOMAIN visit /\ DOMAIN visit \subseteq State
      /\ visit \in [DOMAIN visit -> Nat]
      /\ \A s \in DOMAIN visit : visit[s] < Cardinality(DOMAIN visit)
      /\ \A i \in 1 .. Len(calls) : TRPath[i] \in Pending(visit, Found)
      /\ \A i, j \in 1 .. Len(calls) : i < j => visit[TRPath[i]] < visit[TRPath[j]]
  BY <1>1 DEF Search, Numbered, G
<1>4. /\ Cardinality(DOMAIN visit) \in Nat /\ Cardinality(State) \in Nat
      /\ Cardinality(DOMAIN visit) <= Cardinality(State)
  BY <1>3, CountLemma, FS_CardinalityType
<1>5. \A s \in DOMAIN visit : visit[s] < Cardinality(State)
  BY <1>3, <1>4
<1>6. \A s \in Pending(visit, Found) : lo[s] <= visit[s] /\ lo[s] \in Nat
  BY <1>1 DEF Search, WayBack
<1>7. calls # <<>> =>
              /\ TRPath[Len(calls)] = TR!top.state
              /\ TRTodo[Len(calls)] = TR!top.todo
              /\ lo[TR!top.state] = TR!top.min
              /\ TR!top.state \in State
  BY <1>1, <1>2 DEF TRPath, TRTodo, TR!top, TR!Last, TRFrame
<1>8. ASSUME NEW i \in 1 .. Len(calls), NEW j \in 1 .. Len(calls),
             TRPath[i] = TRPath[j]
      PROVE  i = j
  <2>1. visit[TRPath[i]] \in Nat /\ visit[TRPath[j]] \in Nat
    BY <1>3 DEF Pending
  <2>2. ~ (i < j) /\ ~ (j < i)
    BY <1>3, <1>8, <2>1
  <2>. QED
    BY <1>2, <2>2
<1>. QED
  BY <1>2, <1>3, <1>4, <1>5, <1>6, <1>7, <1>8 DEF TRPath, TRTodo

\* The loop on the transitions goes on.
TRSeeing(s) == [calls EXCEPT ![Len(calls)].todo = @ \ {s}]

\* Only the frame of the last call changes.
LEMMA TRSeeingLemma ==
  ASSUME calls \in Seq(TRFrame), calls # <<>>, NEW s
  PROVE  /\ TRSeeing(s) \in Seq(TRFrame)
         /\ Len(TRSeeing(s)) = Len(calls)
         /\ \A i \in 1 .. Len(calls) :
              /\ TRSeeing(s)[i].state = calls[i].state
              /\ TRSeeing(s)[i].min = calls[i].min
              /\ TRSeeing(s)[i].todo = IF i = Len(calls) THEN calls[i].todo \ {s}
                                       ELSE calls[i].todo
<1>1. /\ Len(calls) \in 1 .. Len(calls)
      /\ Len(calls) \in Nat
      /\ \A i \in 1 .. Len(calls) : calls[i] \in TRFrame
      /\ calls \in [1 .. Len(calls) -> TRFrame]
  BY SeqLemma
<1>2. TRSeeing(s) \in [1 .. Len(calls) -> TRFrame]
  BY <1>1 DEF TRSeeing, TRFrame
<1>3. TRSeeing(s) \in Seq(TRFrame) /\ Len(TRSeeing(s)) = Len(calls)
  BY <1>1, <1>2, IsSeqLemma
<1>. QED
  BY <1>1, <1>3 DEF TRSeeing, TRFrame

\* What a visit does to the variables.
LEMMA TRVisitFacts ==
  ASSUME IsFiniteSet(State), calls \in Seq(TRFrame), NEW s \in State,
         Cardinality(DOMAIN low) \in Nat,
         TR!Root(s) \/ TR!Call(s)
  PROVE  /\ s \notin DOMAIN low
         /\ calls = <<>> \/ s \in calls[Len(calls)].todo
         /\ low' = [r \in DOMAIN low \union {s} |->
                        IF r = s THEN Cardinality(DOMAIN low) ELSE low[r]]
         /\ stack' = Append(stack, s)
         /\ edges' = edges /\ components' = components
         /\ calls' \in Seq(TRFrame)
         /\ Len(calls') = Len(calls) + 1
         /\ \A i \in 1 .. Len(calls) :
              /\ calls'[i].state = calls[i].state
              /\ calls'[i].min = calls[i].min
              /\ calls'[i].todo = IF i = Len(calls) THEN calls[i].todo \ {s}
                                  ELSE calls[i].todo
         /\ calls'[Len(calls) + 1].state = s
         /\ calls'[Len(calls) + 1].min = Cardinality(DOMAIN low)
         /\ calls'[Len(calls) + 1].todo = Successors(G, s)
<1>. DEFINE new == [state |-> s, min |-> Cardinality(DOMAIN low), todo |-> Successors(G, s)]
<1>1. new \in TRFrame
  BY DEF TRFrame, Successors, G
<1>2. new.state = s /\ new.min = Cardinality(DOMAIN low) /\ new.todo = Successors(G, s)
  OBVIOUS
<1>3. CASE TR!Root(s)
  <2>1. /\ calls = <<>> /\ s \notin DOMAIN low
        /\ low' = [r \in DOMAIN low \union {s} |->
                       IF r = s THEN Cardinality(DOMAIN low) ELSE low[r]]
        /\ stack' = Append(stack, s)
        /\ edges' = edges /\ components' = components
        /\ calls' = Append(calls, new)
    BY <1>3 DEF TR!Root, TR!Enter, TR!marked, TR!With, TR!curr_state_num,
                TR!Successors, Successors, TR!Digraph, G,
                TR!Cardinality, Cardinality
  <2>. HIDE DEF new
  <2>2. /\ calls' \in Seq(TRFrame)
        /\ Len(calls') = Len(calls) + 1
        /\ calls'[Len(calls) + 1] = new
        /\ Len(calls) = 0
    BY <1>1, <2>1, AppendLemma, SeqLemma
  <2>. QED
    BY <1>2, <2>1, <2>2
<1>4. CASE TR!Call(s)
  <2>1. /\ calls # <<>> /\ s \notin DOMAIN low
        /\ s \in calls[Len(calls)].todo
        /\ low' = [r \in DOMAIN low \union {s} |->
                       IF r = s THEN Cardinality(DOMAIN low) ELSE low[r]]
        /\ stack' = Append(stack, s)
        /\ edges' = edges /\ components' = components
        /\ calls' = Append(TRSeeing(s), new)
    BY <1>4 DEF TR!Call, TR!top, TR!Last, TR!Enter, TR!marked, TR!With,
                TR!curr_state_num, TR!Successors, Successors, TR!Digraph, G,
                TR!Cardinality, Cardinality, TRSeeing
  <2>. HIDE DEF new
  <2>2. /\ TRSeeing(s) \in Seq(TRFrame)
        /\ Len(TRSeeing(s)) = Len(calls)
        /\ \A i \in 1 .. Len(calls) :
             /\ TRSeeing(s)[i].state = calls[i].state
             /\ TRSeeing(s)[i].min = calls[i].min
             /\ TRSeeing(s)[i].todo =
                  IF i = Len(calls) THEN calls[i].todo \ {s} ELSE calls[i].todo
    BY <2>1, TRSeeingLemma
  <2>3. /\ calls' \in Seq(TRFrame)
        /\ Len(calls') = Len(calls) + 1
        /\ \A i \in 1 .. Len(calls) : calls'[i] = TRSeeing(s)[i]
        /\ calls'[Len(calls) + 1] = new
    <3>1. Append(TRSeeing(s), new) \in Seq(TRFrame)
      BY <1>1, <2>2, AppendLemma
    <3>2. /\ Len(Append(TRSeeing(s), new)) = Len(TRSeeing(s)) + 1
          /\ \A i \in 1 .. Len(TRSeeing(s)) : Append(TRSeeing(s), new)[i] = TRSeeing(s)[i]
          /\ Append(TRSeeing(s), new)[Len(TRSeeing(s)) + 1] = new
      BY <1>1, <2>2, AppendLemma
    <3>3. Len(TRSeeing(s)) = Len(calls)
      BY <2>2
    <3>. QED
      BY <2>1, <3>1, <3>2, <3>3, Zenon
  <2>4. \A i \in 1 .. Len(calls) :
          /\ calls'[i].state = calls[i].state
          /\ calls'[i].min = calls[i].min
          /\ calls'[i].todo = IF i = Len(calls) THEN calls[i].todo \ {s} ELSE calls[i].todo
    BY <2>2, <2>3, Zenon
  <2>5. /\ calls'[Len(calls) + 1].state = s
        /\ calls'[Len(calls) + 1].min = Cardinality(DOMAIN low)
        /\ calls'[Len(calls) + 1].todo = Successors(G, s)
    BY <1>2, <2>3, Zenon
  <2>. QED
    BY <2>1, <2>3, <2>4, <2>5, Zenon
<1>. QED
  BY <1>3, <1>4

\* Root and Call.
LEMMA TRVisitStep ==
  ASSUME IsFiniteSet(State), TRInv, NEW s \in State, TR!Root(s) \/ TR!Call(s)
  PROVE  TRInv' /\ edges' = edges /\ components' = components
<1>0. PICK visit, lo : TRHistory(visit, lo)
  BY DEF TRInv
<1>. DEFINE n == Len(calls)
            c == Cardinality(DOMAIN visit)
            visit2 == [r \in DOMAIN visit \union {s} |-> IF r = s THEN c ELSE visit[r]]
            lo2 == [r \in DOMAIN visit \union {s} |-> IF r = s THEN c ELSE lo[r]]
<1>1. /\ lo \in [DOMAIN visit -> Nat]
      /\ low \in [DOMAIN visit -> Nat]
      /\ calls \in Seq(TRFrame)
      /\ components \in Seq(SUBSET State)
      /\ Search(G, visit, lo, n, TRPath, TRTodo, Found)
      /\ Stacked(visit, Found, stack)
      /\ \A i \in 1 .. n :
           calls[i].min = lo[TRPath[i]] /\ low[TRPath[i]] = visit[TRPath[i]]
      /\ \A r \in Pending(visit, Found) :
           (\A i \in 1 .. n : TRPath[i] # r) => low[r] = lo[r]
      /\ \A r \in Found : low[r] = Cardinality(State)
  BY <1>0 DEF TRHistory
<1>2. /\ n \in Nat /\ (calls = <<>> => n = 0) /\ (calls # <<>> => n \in 1 .. n)
      /\ Found \subseteq DOMAIN visit /\ DOMAIN visit \subseteq State
      /\ visit \in [DOMAIN visit -> Nat]
      /\ \A r \in DOMAIN visit : visit[r] < c
      /\ c \in Nat
      /\ \A i \in 1 .. n : TRPath[i] \in Pending(visit, Found)
      /\ \A i \in 1 .. n : TRPath[i] = calls[i].state /\ TRTodo[i] = calls[i].todo
      /\ Pending(visit, Found) \subseteq DOMAIN visit
  BY <1>0, TRPathLemma DEF Pending
<1>3. DOMAIN low = DOMAIN visit
  BY <1>1
<1>4. /\ s \notin DOMAIN visit
      /\ calls = <<>> \/ s \in calls[n].todo
      /\ low' = [r \in DOMAIN visit \union {s} |-> IF r = s THEN c ELSE low[r]]
      /\ stack' = Append(stack, s)
      /\ edges' = edges /\ components' = components
      /\ calls' \in Seq(TRFrame)
      /\ Len(calls') = n + 1
      /\ \A i \in 1 .. n :
           /\ calls'[i].state = calls[i].state
           /\ calls'[i].min = calls[i].min
           /\ calls'[i].todo = IF i = n THEN calls[i].todo \ {s} ELSE calls[i].todo
      /\ calls'[n + 1].state = s
      /\ calls'[n + 1].min = c
      /\ calls'[n + 1].todo = Successors(G, s)
  <2>1. calls \in Seq(TRFrame) /\ Cardinality(DOMAIN low) \in Nat
    BY <1>1, <1>2, <1>3
  <2>2. /\ s \notin DOMAIN low
        /\ calls = <<>> \/ s \in calls[Len(calls)].todo
        /\ low' = [r \in DOMAIN low \union {s} |->
                       IF r = s THEN Cardinality(DOMAIN low) ELSE low[r]]
        /\ stack' = Append(stack, s)
        /\ edges' = edges /\ components' = components
    BY <2>1, TRVisitFacts
  <2>3. /\ calls' \in Seq(TRFrame)
        /\ Len(calls') = Len(calls) + 1
        /\ calls'[Len(calls) + 1].state = s
        /\ calls'[Len(calls) + 1].min = Cardinality(DOMAIN low)
        /\ calls'[Len(calls) + 1].todo = Successors(G, s)
    BY <2>1, TRVisitFacts
  <2>4. \A i \in 1 .. Len(calls) :
           /\ calls'[i].state = calls[i].state
           /\ calls'[i].min = calls[i].min
           /\ calls'[i].todo = IF i = Len(calls) THEN calls[i].todo \ {s}
                               ELSE calls[i].todo
    BY <2>1, TRVisitFacts
  <2>5. /\ low' = [r \in DOMAIN visit \union {s} |-> IF r = s THEN c ELSE low[r]]
        /\ calls'[Len(calls) + 1].min = c
    BY <1>3, <2>2, <2>3
  <2>. QED
    BY <1>3, <2>2, <2>3, <2>4, <2>5
<1>5. /\ visit2 \in [DOMAIN visit \union {s} -> Nat] /\ visit2[s] = c
      /\ lo2 \in [DOMAIN visit \union {s} -> Nat] /\ lo2[s] = c
      /\ low' \in [DOMAIN visit \union {s} -> Nat] /\ low'[s] = c
      /\ DOMAIN visit2 = DOMAIN visit \union {s}
      /\ \A r \in DOMAIN visit :
           visit2[r] = visit[r] /\ lo2[r] = lo[r] /\ low'[r] = low[r]
  BY <1>1, <1>2, <1>4
<1>. HIDE DEF n, visit2, lo2
<1>6. /\ 1 .. n + 1 = (1 .. n) \union {n + 1} /\ n + 1 \notin 1 .. n
      /\ \A i \in 1 .. n : i \in 1 .. n + 1
  BY <1>2
<1>7. /\ \A i \in 1 .. n : TRPath'[i] = TRPath[i]
      /\ \A i \in 1 .. n : TRTodo'[i] = IF i = n THEN TRTodo[i] \ {s} ELSE TRTodo[i]
      /\ TRPath'[n + 1] = s
      /\ TRTodo'[n + 1] = Successors(G, s)
  BY <1>4, <1>6 DEF TRPath, TRTodo, n
<1>8. n = 0 \/ s \in TRTodo[n]
  BY <1>2, <1>4
<1>9. Visits(G, Found, visit, lo, n, TRPath, TRTodo, s, visit2, lo2, TRPath', TRTodo')
  <2>1. s \in G.node
    BY DEF G
  <2>2. \A r \in Pending(visit, Found) : lo2[r] = lo[r]
    BY <1>2, <1>5
  <2>. QED
    BY <1>4, <1>5, <1>7, <1>8, <2>1, <2>2 DEF Visits
<1>10. Search(G, visit2, lo2, n + 1, TRPath', TRTodo', Found)
  <2>1. IsFiniteSet(G.node)
    BY DEF G
  <2>2. Search(G, visit, lo, n, TRPath, TRTodo, Found)
    BY <1>1 DEF n
  <2>. QED
    BY <1>9, <2>1, <2>2, VisitLemma
<1>11. Stacked(visit2, Found, stack')
  <2>1. /\ Stacked(visit, Found, stack)
        /\ visit \in [DOMAIN visit -> Nat] /\ Found \subseteq DOMAIN visit
        /\ s \notin DOMAIN visit /\ c \in Nat
        /\ \A r \in DOMAIN visit : visit[r] < c
    BY <1>1, <1>2, <1>4
  <2>2. /\ visit2 \in [DOMAIN visit \union {s} -> Nat] /\ visit2[s] = c
        /\ \A r \in DOMAIN visit : visit2[r] = visit[r]
    BY <1>5
  <2>. HIDE DEF c
  <2>3. Stacked(visit2, Found, Append(stack, s))
    BY <2>1, <2>2, StackVisitLemma
  <2>. QED
    BY <1>4, <2>3
<1>12. /\ \A i \in 1 .. n + 1 :
            calls'[i].min = lo2[TRPath'[i]] /\ low'[TRPath'[i]] = visit2[TRPath'[i]]
  <2>1. calls'[n + 1].min = lo2[TRPath'[n + 1]] /\ low'[TRPath'[n + 1]] = visit2[TRPath'[n + 1]]
    BY <1>4, <1>5, <1>7
  <2>2. ASSUME NEW i \in 1 .. n
        PROVE  calls'[i].min = lo2[TRPath'[i]] /\ low'[TRPath'[i]] = visit2[TRPath'[i]]
    <3>1. TRPath[i] \in DOMAIN visit /\ TRPath'[i] = TRPath[i]
      BY <1>2, <1>7
    <3>2. calls[i].min = lo[TRPath[i]] /\ low[TRPath[i]] = visit[TRPath[i]]
      BY <1>1 DEF n
    <3>3. calls'[i].min = calls[i].min
      BY <1>4
    <3>4. lo2[TRPath[i]] = lo[TRPath[i]] /\ low'[TRPath[i]] = low[TRPath[i]]
          /\ visit2[TRPath[i]] = visit[TRPath[i]]
      BY <1>5, <3>1
    <3>. QED
      BY <3>1, <3>2, <3>3, <3>4, Zenon
  <2>. QED
    BY <1>6, <2>1, <2>2
<1>13. ASSUME NEW r \in Pending(visit2, Found),
              \A i \in 1 .. n + 1 : TRPath'[i] # r
       PROVE  low'[r] = lo2[r]
  <2>1. r # s
    BY <1>2, <1>6, <1>7, <1>13
  <2>2. r \in Pending(visit, Found) /\ r \in DOMAIN visit
    BY <1>5, <2>1 DEF Pending
  <2>3. \A i \in 1 .. n : TRPath[i] # r
    BY <1>6, <1>7, <1>13
  <2>4. low[r] = lo[r]
    BY <1>1, <2>2, <2>3 DEF n
  <2>. QED
    BY <1>5, <2>2, <2>4
<1>14. \A r \in Found : low'[r] = Cardinality(State)
  BY <1>1, <1>2, <1>5
<1>15. G' = G /\ Found' = Found /\ Len(calls') = n + 1
  BY <1>4 DEF G, Found
<1>16. TRHistory(visit2, lo2)'
  <2>1. /\ lo2 \in [DOMAIN visit2 -> Nat]
        /\ low' \in [DOMAIN visit2 -> Nat]
    BY <1>5
  <2>2. /\ calls' \in Seq(TRFrame)
        /\ components' \in Seq(SUBSET State)
    BY <1>1, <1>4
  <2>3. /\ Search(G', visit2, lo2, Len(calls'), TRPath', TRTodo', Found')
        /\ Stacked(visit2, Found', stack')
    BY <1>10, <1>11, <1>15
  <2>4. \A i \in 1 .. Len(calls') :
          calls'[i].min = lo2[TRPath'[i]] /\ low'[TRPath'[i]] = visit2[TRPath'[i]]
    BY <1>12, <1>15
  <2>5. \A r \in Pending(visit2, Found') :
          (\A i \in 1 .. Len(calls') : TRPath'[i] # r) => low'[r] = lo2[r]
    BY <1>13, <1>15
  <2>6. \A r \in Found' : low'[r] = Cardinality(State)
    BY <1>14, <1>15
  <2>. QED
    BY <2>1, <2>2, <2>3, <2>4, <2>5, <2>6 DEF TRHistory
<1>. QED
  BY <1>4, <1>16 DEF TRInv

\* Compare: a destination of a finished component has the largest low_, one
\* that is active its number.
LEMMA TRCompareStep ==
  ASSUME IsFiniteSet(State), TRInv, NEW s \in State, TR!Compare(s)
  PROVE  TRInv' /\ edges' = edges /\ components' = components
<1>0. PICK visit, lo : TRHistory(visit, lo)
  BY DEF TRInv
<1>. DEFINE n == Len(calls)
            p == TR!top.state
            m == TR!Lower(lo[p], low[s])
<1>a. PICK lo2 : lo2 = [r \in DOMAIN visit |-> IF r = p THEN m ELSE lo[r]]
  OBVIOUS
<1>1. /\ lo \in [DOMAIN visit -> Nat]
      /\ low \in [DOMAIN visit -> Nat]
      /\ calls \in Seq(TRFrame)
      /\ components \in Seq(SUBSET State)
      /\ Search(G, visit, lo, n, TRPath, TRTodo, Found)
      /\ Stacked(visit, Found, stack)
      /\ \A i \in 1 .. n :
           calls[i].min = lo[TRPath[i]] /\ low[TRPath[i]] = visit[TRPath[i]]
      /\ \A r \in Pending(visit, Found) :
           (\A i \in 1 .. n : TRPath[i] # r) => low[r] = lo[r]
      /\ \A r \in Found : low[r] = Cardinality(State)
  BY <1>0 DEF TRHistory
<1>2. /\ calls # <<>> /\ s \in TR!top.todo /\ s \in DOMAIN visit
      /\ low' = low /\ stack' = stack /\ edges' = edges /\ components' = components
  BY <1>1 DEF TR!Compare, TR!marked
<1>3. /\ n \in Nat /\ n # 0 /\ n \in 1 .. n
      /\ TRPath[n] = p /\ s \in TRTodo[n] /\ lo[p] = TR!top.min
      /\ p \in Pending(visit, Found)
      /\ Found \subseteq DOMAIN visit /\ DOMAIN visit \subseteq State
      /\ visit \in [DOMAIN visit -> Nat]
      /\ \A r \in DOMAIN visit : visit[r] < Cardinality(State)
      /\ \A r \in Pending(visit, Found) : lo[r] <= visit[r] /\ lo[r] \in Nat
      /\ \A i \in 1 .. n : TRPath[i] \in Pending(visit, Found)
      /\ \A i \in 1 .. n : TRPath[i] = calls[i].state /\ TRTodo[i] = calls[i].todo
      /\ \A i, j \in 1 .. n : TRPath[i] = TRPath[j] => i = j
      /\ Cardinality(State) \in Nat
      /\ Pending(visit, Found) \subseteq DOMAIN visit
  BY <1>2, <1>0, TRPathLemma DEF Pending
<1>4. /\ m \in Nat /\ m <= lo[p] /\ m <= low[s]
      /\ m = lo[p] \/ m = low[s]
      /\ lo[p] \in Nat /\ low[s] \in Nat
  <2>1. lo[p] \in Nat /\ low[s] \in Nat
    BY <1>1, <1>2, <1>3
  <2>. QED
    BY <2>1 DEF TR!Lower
<1>5. /\ calls' \in Seq(TRFrame)
      /\ Len(calls') = n
      /\ \A i \in 1 .. n :
           /\ calls'[i].state = calls[i].state
           /\ calls'[i].min = IF i = n THEN m ELSE calls[i].min
           /\ calls'[i].todo = IF i = n THEN calls[i].todo \ {s} ELSE calls[i].todo
  <2>1. /\ calls \in [1 .. n -> TRFrame]
        /\ \A i \in 1 .. n : calls[i] \in TRFrame
    BY <1>1, SeqLemma
  <2>2. calls' = [calls EXCEPT ![n].todo = @ \ {s}, ![n].min = m]
    BY <1>3 DEF TR!Compare, TR!top, TR!Last
  <2>. HIDE DEF m
  <2>3. calls' \in [1 .. n -> TRFrame]
    <3>1. \A t \in TRFrame : \A k \in Nat : [t EXCEPT !.todo = @ \ {s}, !.min = k] \in TRFrame
      BY DEF TRFrame
    <3>2. calls' = [calls EXCEPT ![n] = [calls[n] EXCEPT !.todo = @ \ {s}, !.min = m]]
      BY <1>3, <2>1, <2>2
    <3>3. [calls[n] EXCEPT !.todo = @ \ {s}, !.min = m] \in TRFrame
      BY <1>3, <1>4, <2>1, <3>1
    <3>. QED
      BY <1>3, <2>1, <3>2, <3>3
  <2>4. /\ \A i \in 1 .. n :
           /\ calls'[i].state = calls[i].state
           /\ calls'[i].min = IF i = n THEN m ELSE calls[i].min
           /\ calls'[i].todo = IF i = n THEN calls[i].todo \ {s} ELSE calls[i].todo
    BY <1>3, <2>1, <2>2 DEF TRFrame
  <2>5. calls' \in Seq(TRFrame) /\ Len(calls') = n
    BY <1>3, <2>3, IsSeqLemma
  <2>. QED
    BY <2>4, <2>5
<1>6. /\ lo2 \in [DOMAIN visit -> Nat] /\ lo2[p] = m
      /\ \A r \in DOMAIN visit : r # p => lo2[r] = lo[r]
  BY <1>a, <1>1, <1>3, <1>4
<1>. HIDE DEF n, p, m
<1>7. \A i \in 1 .. n :
        /\ TRPath'[i] = TRPath[i]
        /\ TRTodo'[i] = IF i = n THEN TRTodo[i] \ {s} ELSE TRTodo[i]
  BY <1>5 DEF TRPath, TRTodo, n
<1>8. \/ s \in Pending(visit, Found) /\ low[s] \in {lo[s], visit[s]}
      \/ s \in Found /\ m = lo[p]
  <2>1. CASE s \in Found
    <3>1. low[s] = Cardinality(State) /\ lo[p] < Cardinality(State)
      BY <1>1, <1>3, <2>1
    <3>. QED
      BY <1>3, <1>4, <2>1, <3>1
  <2>2. CASE s \notin Found
    <3>1. s \in Pending(visit, Found)
      BY <1>2, <2>2 DEF Pending
    <3>2. CASE \E i \in 1 .. n : TRPath[i] = s
      BY <1>1, <3>1, <3>2 DEF n
    <3>3. CASE \A i \in 1 .. n : TRPath[i] # s
      BY <1>1, <3>1, <3>3 DEF n
    <3>. QED
      BY <3>1, <3>2, <3>3
  <2>. QED
    BY <2>1, <2>2
<1>9. Lowers(Found, visit, lo, n, TRPath, TRTodo, s, lo2, TRTodo')
  <2>1. s \in Pending(visit, Found) => m <= visit[s]
    <3>1. s \in Pending(visit, Found) => s \notin Found /\ visit[s] \in Nat
      BY <1>3 DEF Pending
    <3>. QED
      BY <1>3, <1>4, <1>8, <3>1
  <2>2. \A r \in Pending(visit, Found) \ {TRPath[n]} : lo2[r] = lo[r]
    BY <1>3, <1>6
  <2>3. \/ lo2[TRPath[n]] = lo[TRPath[n]]
        \/ s \in Pending(visit, Found) /\ lo2[TRPath[n]] \in {lo[s], visit[s]}
    BY <1>3, <1>4, <1>6, <1>8
  <2>. QED
    BY <1>2, <1>3, <1>4, <1>6, <1>7, <2>1, <2>2, <2>3 DEF Lowers
<1>10. Search(G, visit, lo2, n, TRPath, TRTodo', Found)
  BY <1>1, <1>9, LowerLemma DEF n
<1>11. Search(G, visit, lo2, n, TRPath', TRTodo', Found)
  <2>1. SamePath(Found, visit, lo2, n, TRPath, TRTodo', lo2, TRPath', TRTodo')
    BY <1>7 DEF SamePath
  <2>. QED
    BY <1>10, <2>1, SearchSame
<1>12. ASSUME NEW i \in 1 .. n
       PROVE  calls'[i].min = lo2[TRPath'[i]] /\ low'[TRPath'[i]] = visit[TRPath'[i]]
  <2>1. /\ calls[i].min = lo[TRPath[i]] /\ low[TRPath[i]] = visit[TRPath[i]]
        /\ TRPath[i] \in DOMAIN visit
    BY <1>1, <1>3 DEF n
  <2>2. CASE i = n
    BY <1>2, <1>3, <1>5, <1>6, <1>7, <2>1, <2>2
  <2>3. CASE i # n
    <3>1. TRPath[i] # p
      BY <1>3, <2>3
    <3>2. lo2[TRPath[i]] = lo[TRPath[i]]
      BY <1>6, <2>1, <3>1
    <3>3. calls'[i].min = calls[i].min
      BY <1>5, <2>3 DEF n
    <3>4. TRPath'[i] = TRPath[i] /\ low' = low
      BY <1>2, <1>7
    <3>. QED
      BY <2>1, <3>2, <3>3, <3>4
  <2>. QED
    BY <2>2, <2>3
<1>13. ASSUME NEW r \in Pending(visit, Found), \A i \in 1 .. n : TRPath'[i] # r
       PROVE  low'[r] = lo2[r]
  <2>1. \A i \in 1 .. n : TRPath[i] # r
    BY <1>7, <1>13
  <2>2. low[r] = lo[r] /\ r # p
    BY <1>1, <1>3, <2>1 DEF n
  <2>. QED
    BY <1>2, <1>3, <1>6, <2>2
<1>14. G' = G /\ Found' = Found
  BY <1>2 DEF G, Found
<1>15. TRHistory(visit, lo2)'
  <2>1. /\ lo2 \in [DOMAIN visit -> Nat]
        /\ low' \in [DOMAIN visit -> Nat]
    BY <1>1, <1>2, <1>6
  <2>2. /\ calls' \in Seq(TRFrame)
        /\ components' \in Seq(SUBSET State)
    BY <1>1, <1>2, <1>5
  <2>3. /\ Search(G', visit, lo2, Len(calls'), TRPath', TRTodo', Found')
        /\ Stacked(visit, Found', stack')
    BY <1>1, <1>2, <1>5, <1>11, <1>14
  <2>4. \A i \in 1 .. Len(calls') :
          calls'[i].min = lo2[TRPath'[i]] /\ low'[TRPath'[i]] = visit[TRPath'[i]]
    BY <1>5, <1>12
  <2>5. \A r \in Pending(visit, Found') :
          (\A i \in 1 .. Len(calls') : TRPath'[i] # r) => low'[r] = lo2[r]
    BY <1>5, <1>13, <1>14
  <2>6. \A r \in Found' : low'[r] = Cardinality(State)
    BY <1>1, <1>2, <1>14
  <2>. QED
    BY <2>1, <2>2, <2>3, <2>4, <2>5, <2>6 DEF TRHistory
<1>. QED
  BY <1>2, <1>15 DEF TRInv

\* Return: the call of the last state is over, and the min of its caller may
\* go down.
LEMMA TRReturnLemma ==
  ASSUME IsFiniteSet(State), NEW visit, NEW lo, TRHistory(visit, lo), calls # <<>>,
         NEW lows, lows \in [DOMAIN visit -> Nat], TR!Return(lows)
  PROVE  /\ low' = lows
         /\ calls' \in Seq(TRFrame)
         /\ Len(calls') = Len(calls) - 1
         /\ \A i \in 1 .. Len(calls) - 1 :
              /\ TRPath'[i] = TRPath[i] /\ TRTodo'[i] = TRTodo[i]
              /\ calls'[i].min = IF /\ i = Len(calls) - 1
                                    /\ lows[TR!top.state] < calls[i].min
                                 THEN lows[TR!top.state] ELSE calls[i].min
<1>. DEFINE n == Len(calls)
            p == TR!top.state
<1>1. /\ n \in Nat /\ n # 0
      /\ p \in DOMAIN visit
      /\ \A i \in 1 .. n : TRPath[i] = calls[i].state /\ TRTodo[i] = calls[i].todo
  BY TRPathLemma DEF Pending
<1>2. /\ calls \in Seq(TRFrame)
      /\ \A i \in 1 .. n : calls[i] \in TRFrame
  BY SeqLemma DEF TRHistory
<1>3. /\ Front(calls) \in Seq(TRFrame)
      /\ Len(Front(calls)) = n - 1
      /\ \A i \in 1 .. n - 1 : Front(calls)[i] = calls[i]
      /\ Front(calls) \in [1 .. n - 1 -> TRFrame]
  <2>1. /\ Front(calls) \in Seq(TRFrame)
        /\ Len(Front(calls)) = n - 1
        /\ \A i \in 1 .. n - 1 : Front(calls)[i] = calls[i]
    BY <1>2, FrontLemma
  <2>. QED
    BY <2>1, SeqLemma
<1>4. /\ low' = lows
      /\ calls' = IF n = 1 THEN <<>>
                  ELSE [Front(calls) EXCEPT ![n - 1].min = TR!Lower(@, lows[p])]
  BY DEF TR!Return, TR!Front, Front
<1>. HIDE DEF n, p
<1>5. lows[p] \in Nat
  BY <1>1
<1>6. CASE n = 1
  <2>1. calls' = <<>>
    BY <1>4, <1>6
  <2>2. calls' \in Seq(TRFrame) /\ Len(calls') = 0
    BY <2>1, EmptySeq
  <2>. QED
    BY <1>4, <1>6, <2>2 DEF n
<1>7. CASE n # 1
  <2>1. n - 1 \in 1 .. n - 1 /\ n - 1 \in Nat /\ \A i \in 1 .. n - 1 : i \in 1 .. n
    BY <1>1, <1>7
  <2>. DEFINE m == TR!Lower(calls[n - 1].min, lows[p])
  <2>2. calls' = [Front(calls) EXCEPT ![n - 1].min = m]
    BY <1>3, <1>4, <1>7, <2>1
  <2>3. calls[n - 1].min \in Nat
    BY <1>2, <2>1 DEF TRFrame
  <2>4. m \in Nat /\ m = IF lows[p] < calls[n - 1].min THEN lows[p] ELSE calls[n - 1].min
    BY <1>5, <2>3 DEF TR!Lower
  <2>. HIDE DEF m
  <2>5. calls' \in [1 .. n - 1 -> TRFrame]
    BY <1>3, <2>1, <2>2, <2>4 DEF TRFrame
  <2>6. \A i \in 1 .. n - 1 :
          /\ calls'[i].state = Front(calls)[i].state
          /\ calls'[i].todo = Front(calls)[i].todo
          /\ calls'[i].min = IF i = n - 1 THEN m ELSE Front(calls)[i].min
    <3>1. \A i \in 1 .. n - 1 : Front(calls)[i] \in TRFrame
      BY <1>3
    <3>. QED
      BY <1>3, <2>1, <2>2, <3>1 DEF TRFrame
  <2>7. calls' \in Seq(TRFrame) /\ Len(calls') = n - 1
    BY <2>1, <2>5, IsSeqLemma
  <2>8. \A i \in 1 .. n - 1 : TRPath'[i] = TRPath[i] /\ TRTodo'[i] = TRTodo[i]
    <3>. SUFFICES ASSUME NEW i \in 1 .. n - 1
                  PROVE  TRPath'[i] = TRPath[i] /\ TRTodo'[i] = TRTodo[i]
      OBVIOUS
    <3>1. TRPath'[i] = calls'[i].state /\ TRTodo'[i] = calls'[i].todo
      BY <2>7 DEF TRPath, TRTodo
    <3>2. calls'[i].state = calls[i].state /\ calls'[i].todo = calls[i].todo
      BY <1>3, <2>6
    <3>3. TRPath[i] = calls[i].state /\ TRTodo[i] = calls[i].todo
      BY <1>1, <2>1
    <3>. QED
      BY <3>1, <3>2, <3>3
  <2>9. \A i \in 1 .. n - 1 :
          calls'[i].min = IF i = n - 1 /\ lows[p] < calls[i].min
                          THEN lows[p] ELSE calls[i].min
    BY <1>3, <2>4, <2>6
  <2>. QED
    BY <1>4, <2>7, <2>8, <2>9 DEF n, p
<1>. QED
  BY <1>6, <1>7

\* The early return.
LEMMA TRFinishStep ==
  ASSUME IsFiniteSet(State), TRInv, TR!Finish
  PROVE  TRInv' /\ edges' = edges /\ components' = components
<1>0. PICK visit, lo : TRHistory(visit, lo)
  BY DEF TRInv
<1>. DEFINE n == Len(calls)
            p == TR!top.state
            lows == [low EXCEPT ![p] = TR!top.min]
<1>a. PICK lo2 : lo2 = [r \in DOMAIN visit |->
                          IF n # 1 /\ r = TRPath[n - 1] /\ lo[p] < lo[r]
                          THEN lo[p] ELSE lo[r]]
  OBVIOUS
<1>1. /\ lo \in [DOMAIN visit -> Nat]
      /\ low \in [DOMAIN visit -> Nat]
      /\ components \in Seq(SUBSET State)
      /\ Search(G, visit, lo, n, TRPath, TRTodo, Found)
      /\ Stacked(visit, Found, stack)
      /\ \A i \in 1 .. n :
           calls[i].min = lo[TRPath[i]] /\ low[TRPath[i]] = visit[TRPath[i]]
      /\ \A r \in Pending(visit, Found) :
           (\A i \in 1 .. n : TRPath[i] # r) => low[r] = lo[r]
      /\ \A r \in Found : low[r] = Cardinality(State)
  BY <1>0 DEF TRHistory
<1>2. /\ calls # <<>> /\ TR!top.todo = {}
      /\ TR!top.min < low[p]
      /\ TR!Return(lows)
      /\ edges' = edges /\ components' = components /\ stack' = stack
  BY DEF TR!Finish
<1>3. /\ n \in Nat /\ n # 0 /\ n \in 1 .. n
      /\ TRPath[n] = p /\ TRTodo[n] = {} /\ lo[p] = TR!top.min
      /\ p \in Pending(visit, Found)
      /\ Found \subseteq DOMAIN visit
      /\ \A i \in 1 .. n : TRPath[i] \in Pending(visit, Found)
      /\ \A i, j \in 1 .. n : TRPath[i] = TRPath[j] => i = j
      /\ Pending(visit, Found) \subseteq DOMAIN visit
  BY <1>0, <1>2, TRPathLemma DEF Pending
<1>4. /\ lo[p] < visit[p]
      /\ low[p] = visit[p]
  BY <1>1, <1>2, <1>3
<1>5. /\ lows \in [DOMAIN visit -> Nat]
      /\ lows[p] = lo[p]
      /\ \A r \in DOMAIN visit : r # p => lows[r] = low[r]
  BY <1>1, <1>3
<1>. HIDE DEF lows
<1>6. /\ low' = lows
      /\ calls' \in Seq(TRFrame)
      /\ Len(calls') = n - 1
      /\ \A i \in 1 .. n - 1 :
           /\ TRPath'[i] = TRPath[i] /\ TRTodo'[i] = TRTodo[i]
           /\ calls'[i].min = IF i = n - 1 /\ lows[p] < calls[i].min
                              THEN lows[p] ELSE calls[i].min
  BY <1>0, <1>2, <1>5, TRReturnLemma
<1>. HIDE DEF n, p
<1>7. /\ lo2 \in [DOMAIN visit -> Nat]
      /\ \A r \in DOMAIN visit :
           lo2[r] = IF n # 1 /\ r = TRPath[n - 1] /\ lo[p] < lo[r]
                    THEN lo[p] ELSE lo[r]
  BY <1>1, <1>3, <1>a
<1>8. Departs(Found, visit, lo, n, TRPath, TRTodo, lo2)
  <2>1. lo[TRPath[n]] # visit[TRPath[n]]
    <3>1. lo[p] \in Nat
      BY <1>1, <1>3
    <3>. QED
      BY <1>3, <1>4, <3>1
  <2>2. \A r \in Pending(visit, Found) :
          lo2[r] = IF n # 1 /\ r = TRPath[n - 1] /\ lo[TRPath[n]] < lo[r]
                   THEN lo[TRPath[n]] ELSE lo[r]
    BY <1>3, <1>7
  <2>. QED
    BY <1>3, <2>1, <2>2 DEF Departs
<1>9. Search(G, visit, lo2, n - 1, TRPath, TRTodo, Found)
  BY <1>1, <1>8, FinishLemma DEF n
<1>10. Search(G, visit, lo2, n - 1, TRPath', TRTodo', Found)
  <2>1. SamePath(Found, visit, lo2, n - 1, TRPath, TRTodo, lo2, TRPath', TRTodo')
    BY <1>6 DEF SamePath
  <2>. QED
    BY <1>9, <2>1, SearchSame
<1>11. /\ \A i \in 1 .. n - 1 : i \in 1 .. n /\ i # n
       /\ 1 .. n = (1 .. n - 1) \union {n}
       /\ n # 1 => n - 1 \in 1 .. n
  BY <1>3
<1>12. ASSUME NEW i \in 1 .. n - 1
       PROVE  calls'[i].min = lo2[TRPath'[i]] /\ low'[TRPath'[i]] = visit[TRPath'[i]]
  <2>1. /\ calls[i].min = lo[TRPath[i]] /\ low[TRPath[i]] = visit[TRPath[i]]
        /\ TRPath[i] \in DOMAIN visit /\ TRPath[i] # p
        /\ TRPath'[i] = TRPath[i] /\ n # 1
        /\ i = n - 1 <=> TRPath[i] = TRPath[n - 1]
    <3>1. n # 1
      BY <1>3
    <3>. QED
      BY <1>1, <1>3, <1>6, <1>11, <3>1 DEF n
  <2>2. low'[TRPath'[i]] = visit[TRPath'[i]]
    BY <1>5, <1>6, <2>1
  <2>3. calls'[i].min = IF i = n - 1 /\ lo[p] < lo[TRPath[i]]
                        THEN lo[p] ELSE lo[TRPath[i]]
    BY <1>5, <1>6, <2>1
  <2>4. lo2[TRPath[i]] = IF i = n - 1 /\ lo[p] < lo[TRPath[i]]
                         THEN lo[p] ELSE lo[TRPath[i]]
    BY <1>7, <2>1
  <2>. QED
    BY <2>1, <2>2, <2>3, <2>4
<1>13. ASSUME NEW r \in Pending(visit, Found), \A i \in 1 .. n - 1 : TRPath'[i] # r
       PROVE  low'[r] = lo2[r]
  <2>1. \A i \in 1 .. n - 1 : TRPath[i] # r
    BY <1>6, <1>13
  <2>2. n = 1 \/ r # TRPath[n - 1]
    BY <1>3, <2>1
  <2>3. lo2[r] = lo[r] /\ r \in DOMAIN visit
    BY <1>3, <1>7, <2>2
  <2>4. CASE r = p
    BY <1>5, <1>6, <2>3, <2>4
  <2>5. CASE r # p
    <3>1. \A i \in 1 .. n : TRPath[i] # r
      BY <1>3, <1>11, <2>1, <2>5
    <3>2. low[r] = lo[r]
      BY <1>1, <3>1 DEF n
    <3>. QED
      BY <1>5, <1>6, <2>3, <2>5, <3>2
  <2>. QED
    BY <2>4, <2>5
<1>14. \A r \in Found : low'[r] = Cardinality(State)
  <2>1. \A r \in Found : r # p /\ r \in DOMAIN visit
    BY <1>3 DEF Pending
  <2>. QED
    BY <1>1, <1>5, <1>6, <2>1
<1>15. G' = G /\ Found' = Found
  BY <1>2 DEF G, Found
<1>16. TRHistory(visit, lo2)'
  <2>1. /\ lo2 \in [DOMAIN visit -> Nat]
        /\ low' \in [DOMAIN visit -> Nat]
    BY <1>5, <1>6, <1>7
  <2>2. /\ calls' \in Seq(TRFrame)
        /\ components' \in Seq(SUBSET State)
    BY <1>1, <1>2, <1>6
  <2>3. /\ Search(G', visit, lo2, Len(calls'), TRPath', TRTodo', Found')
        /\ Stacked(visit, Found', stack')
    BY <1>1, <1>2, <1>6, <1>10, <1>15
  <2>4. \A i \in 1 .. Len(calls') :
          calls'[i].min = lo2[TRPath'[i]] /\ low'[TRPath'[i]] = visit[TRPath'[i]]
    BY <1>6, <1>12
  <2>5. \A r \in Pending(visit, Found') :
          (\A i \in 1 .. Len(calls') : TRPath'[i] # r) => low'[r] = lo2[r]
    BY <1>6, <1>13, <1>15
  <2>6. \A r \in Found' : low'[r] = Cardinality(State)
    BY <1>14, <1>15
  <2>. QED
    BY <2>1, <2>2, <2>3, <2>4, <2>5, <2>6 DEF TRHistory
<1>. QED
  BY <1>2, <1>16 DEF TRInv

\* The call of a root returns: what it pops is a component.
LEMMA TREmitStep ==
  ASSUME IsFiniteSet(State), TRInv, TR!Emit
  PROVE  /\ TRInv' /\ edges' = edges
         /\ \E C \in SUBSET State :
              /\ components' = Append(components, C)
              /\ C = Component(G, TR!top.state)
              /\ TR!top.state \in C /\ TR!top.state \in State
              /\ C \intersect Found = {}
              /\ AllSuccessors(G, C) \subseteq C \union Found
<1>0. PICK visit, lo : TRHistory(visit, lo)
  BY DEF TRInv
<1>. DEFINE n == Len(calls)
            p == TR!top.state
            C == TR!Popped
            F2 == Found \union C
            k == TR!TopAt
            lows == [s \in TR!marked |-> IF s \in TR!Popped THEN TR!max ELSE low[s]]
<1>1. /\ lo \in [DOMAIN visit -> Nat]
      /\ low \in [DOMAIN visit -> Nat]
      /\ components \in Seq(SUBSET State)
      /\ Search(G, visit, lo, n, TRPath, TRTodo, Found)
      /\ Stacked(visit, Found, stack)
      /\ \A i \in 1 .. n :
           calls[i].min = lo[TRPath[i]] /\ low[TRPath[i]] = visit[TRPath[i]]
      /\ \A r \in Pending(visit, Found) :
           (\A i \in 1 .. n : TRPath[i] # r) => low[r] = lo[r]
      /\ \A r \in Found : low[r] = Cardinality(State)
  BY <1>0 DEF TRHistory
<1>2. /\ calls # <<>> /\ TR!top.todo = {}
      /\ TR!top.min >= low[p]
      /\ TR!Return(lows)
      /\ edges' = edges
      /\ components' = Append(components, C)
      /\ stack' = SubSeq(stack, 1, k - 1)
  BY DEF TR!Emit
<1>3. /\ n \in Nat /\ n # 0 /\ n \in 1 .. n
      /\ TRPath[n] = p /\ TRTodo[n] = {} /\ lo[p] = TR!top.min
      /\ p \in Pending(visit, Found) /\ p \in State
      /\ Found \subseteq DOMAIN visit /\ DOMAIN visit \subseteq State
      /\ visit \in [DOMAIN visit -> Nat]
      /\ \A i \in 1 .. n : TRPath[i] \in Pending(visit, Found)
      /\ \A i, j \in 1 .. n : TRPath[i] = TRPath[j] => i = j
      /\ Pending(visit, Found) \subseteq DOMAIN visit
      /\ \A r \in Pending(visit, Found) : lo[r] <= visit[r] /\ lo[r] \in Nat
      /\ \A r \in DOMAIN visit : visit[r] < Cardinality(State)
      /\ Cardinality(State) \in Nat
  BY <1>0, <1>2, TRPathLemma DEF Pending
<1>4. lo[p] = visit[p]
  <2>1. low[p] = visit[p] /\ visit[p] \in Nat /\ lo[p] \in Nat /\ lo[p] <= visit[p]
    BY <1>1, <1>3
  <2>2. lo[p] >= visit[p]
    BY <1>2, <1>3, <2>1
  <2>. QED
    BY <2>1, <2>2
<1>5. k \in DOMAIN stack /\ stack[k] = p
  <2>1. k = CHOOSE i \in DOMAIN stack : stack[i] = p
    BY DEF TR!TopAt
  <2>. HIDE DEF k, p
  <2>. QED
    BY <1>1, <1>3, <2>1, StackAtLemma
<1>6. C = Above(stack, k)
  BY DEF TR!Popped, Above
<1>7. TR!marked = DOMAIN visit /\ TR!max = Cardinality(State)
  BY <1>1 DEF TR!marked, TR!max, TR!Cardinality, Cardinality
<1>8. /\ lows \in [DOMAIN visit -> Nat]
      /\ \A r \in C \intersect DOMAIN visit : lows[r] = Cardinality(State)
      /\ \A r \in DOMAIN visit \ C : lows[r] = low[r]
  BY <1>1, <1>3, <1>7
<1>. HIDE DEF lows, C, F2, k
<1>9. /\ low' = lows
      /\ calls' \in Seq(TRFrame)
      /\ Len(calls') = n - 1
      /\ \A i \in 1 .. n - 1 :
           /\ TRPath'[i] = TRPath[i] /\ TRTodo'[i] = TRTodo[i]
           /\ calls'[i].min = IF i = n - 1 /\ lows[p] < calls[i].min
                              THEN lows[p] ELSE calls[i].min
  BY <1>0, <1>2, <1>8, TRReturnLemma
<1>. HIDE DEF n, p
<1>10. /\ C = NotOlder(visit, Found, p)
       /\ Stacked(visit, F2, stack')
  <2>1. p \in Pending(visit, Found)
    BY <1>3
  <2>2. visit \in [DOMAIN visit -> Nat] /\ Found \subseteq DOMAIN visit
    BY <1>3
  <2>3. Stacked(visit, Found, stack) /\ F2 = Found \union C
    BY <1>1 DEF F2
  <2>4. /\ C = NotOlder(visit, Found, p)
        /\ Stacked(visit, F2, SubSeq(stack, 1, k - 1))
    BY <1>5, <1>6, <2>1, <2>2, <2>3, StackCutLemma
  <2>. QED
    BY <1>2, <2>4
<1>11. /\ Search(G, visit, lo, n - 1, TRPath, TRTodo, F2)
       /\ \A r \in Pending(visit, F2) : visit[r] < visit[p]
       /\ p \in C
       /\ C = Component(G, p)
       /\ C \intersect Found = {}
       /\ AllSuccessors(G, C) \subseteq C \union Found
  <2>1. Search(G, visit, lo, n, TRPath, TRTodo, Found)
    BY <1>1 DEF n
  <2>2. Ends(visit, lo, n, TRPath, TRTodo, Found, p, C, F2)
    BY <1>3, <1>4, <1>10 DEF Ends, F2
  <2>. QED
    BY <2>1, <2>2, EmitLemma
<1>12. C \subseteq DOMAIN visit /\ C \in SUBSET State
  BY <1>3, <1>10 DEF NotOlder
<1>13. Search(G, visit, lo, n - 1, TRPath', TRTodo', F2)
  <2>1. SamePath(F2, visit, lo, n - 1, TRPath, TRTodo, lo, TRPath', TRTodo')
    BY <1>9 DEF SamePath
  <2>. QED
    BY <1>11, <2>1, SearchSame
<1>14. \A i \in 1 .. n - 1 : TRPath[i] \in Pending(visit, F2)
  BY <1>11 DEF Search, Numbered
<1>15. \A i \in 1 .. n - 1 : i \in 1 .. n
  BY <1>3
<1>16. ASSUME NEW i \in 1 .. n - 1
       PROVE  calls'[i].min = lo[TRPath'[i]] /\ low'[TRPath'[i]] = visit[TRPath'[i]]
  <2>1. /\ calls[i].min = lo[TRPath[i]] /\ low[TRPath[i]] = visit[TRPath[i]]
        /\ TRPath[i] \in DOMAIN visit \ C
        /\ TRPath'[i] = TRPath[i]
    BY <1>1, <1>9, <1>14, <1>15 DEF n, Pending, F2
  <2>2. low'[TRPath'[i]] = visit[TRPath'[i]]
    BY <1>8, <1>9, <2>1
  <2>3. lo[TRPath[i]] <= visit[TRPath[i]] /\ lo[TRPath[i]] \in Nat
    BY <1>3, <1>15
  <2>4. visit[TRPath[i]] \in Nat /\ visit[TRPath[i]] < Cardinality(State)
    BY <1>3, <2>1
  <2>5. lows[p] = Cardinality(State)
    BY <1>8, <1>11, <1>12
  <2>6. ~ (lows[p] < calls[i].min)
    BY <1>3, <2>1, <2>3, <2>4, <2>5
  <2>. QED
    BY <1>9, <2>1, <2>2, <2>6
<1>17. ASSUME NEW r \in Pending(visit, F2), \A i \in 1 .. n - 1 : TRPath'[i] # r
       PROVE  low'[r] = lo[r]
  <2>1. r \in Pending(visit, Found) /\ r \in DOMAIN visit \ C
    BY DEF Pending, F2
  <2>2. \A i \in 1 .. n : TRPath[i] # r
    <3>1. \A i \in 1 .. n - 1 : TRPath[i] # r
      BY <1>9, <1>17
    <3>2. p # r
      BY <1>11, <2>1
    <3>3. 1 .. n = (1 .. n - 1) \union {n}
      BY <1>3
    <3>. QED
      BY <1>3, <3>1, <3>2, <3>3
  <2>3. low[r] = lo[r]
    BY <1>1, <2>1, <2>2 DEF n
  <2>. QED
    BY <1>8, <1>9, <2>1, <2>3
<1>18. \A r \in F2 : low'[r] = Cardinality(State)
  BY <1>1, <1>3, <1>8, <1>9, <1>12 DEF F2
<1>19. /\ Found' = F2
       /\ components' \in Seq(SUBSET State)
  <2>1. components \in Seq(SUBSET State) /\ C \in SUBSET State /\ components' = Append(components, C)
    BY <1>1, <1>2, <1>12
  <2>2. Append(components, C) \in Seq(SUBSET State)
    BY <2>1, AppendLemma
  <2>3. UNION Range(Append(components, C)) = (UNION Range(components)) \union C
    <3>1. \A q \in Seq(SUBSET State) : \A B \in SUBSET State :
            UNION Range(Append(q, B)) = (UNION Range(q)) \union B
      BY FoundLemma
    <3>. QED
      BY <2>1, <3>1, Zenon
  <2>. QED
    BY <2>1, <2>2, <2>3, Zenon DEF Found, F2
<1>20. G' = G
  BY <1>2 DEF G
<1>21. TRHistory(visit, lo)'
  <2>1. /\ lo \in [DOMAIN visit -> Nat]
        /\ low' \in [DOMAIN visit -> Nat]
    BY <1>1, <1>8, <1>9
  <2>2. calls' \in Seq(TRFrame)
    BY <1>9
  <2>3. /\ Search(G', visit, lo, Len(calls'), TRPath', TRTodo', Found')
        /\ Stacked(visit, Found', stack')
    BY <1>9, <1>10, <1>13, <1>19, <1>20
  <2>4. \A i \in 1 .. Len(calls') :
          calls'[i].min = lo[TRPath'[i]] /\ low'[TRPath'[i]] = visit[TRPath'[i]]
    BY <1>9, <1>16
  <2>5. \A r \in Pending(visit, Found') :
          (\A i \in 1 .. Len(calls') : TRPath'[i] # r) => low'[r] = lo[r]
    BY <1>9, <1>17, <1>19
  <2>6. \A r \in Found' : low'[r] = Cardinality(State)
    BY <1>18, <1>19
  <2>. QED
    BY <1>19, <2>1, <2>2, <2>3, <2>4, <2>5, <2>6 DEF TRHistory
<1>22. TRInv'
  BY <1>21 DEF TRInv
<1>. QED
  BY <1>2, <1>3, <1>11, <1>12, <1>22 DEF p

\* Every state that waits has below it one whose call is active.
LEMMA TRWaiters ==
  ASSUME IsFiniteSet(State), TRInv
  PROVE  TR!WaitersHaveAnOwner
<1>0. PICK visit, lo : TRHistory(visit, lo)
  BY DEF TRInv
<1>. DEFINE active == {calls[i].state : i \in DOMAIN calls}
<1>1. /\ calls \in Seq(TRFrame)
      /\ Search(G, visit, lo, Len(calls), TRPath, TRTodo, Found)
      /\ Stacked(visit, Found, stack)
  BY <1>0 DEF TRHistory
<1>2. /\ DOMAIN calls = 1 .. Len(calls)
      /\ \A i \in 1 .. Len(calls) : TRPath[i] = calls[i].state
      /\ \A i \in 1 .. Len(calls) : TRPath[i] \in Pending(visit, Found)
      /\ visit \in [DOMAIN visit -> Nat]
  BY <1>0, <1>1, SeqLemma, TRPathLemma
<1>3. /\ stack \in Seq(DOMAIN visit)
      /\ Range(stack) = Pending(visit, Found)
      /\ \A i, j \in DOMAIN stack : i < j => visit[stack[i]] < visit[stack[j]]
  BY <1>1 DEF Stacked
<1>4. /\ Len(stack) \in Nat /\ DOMAIN stack = 1 .. Len(stack)
      /\ \A i \in DOMAIN stack : stack[i] \in Pending(visit, Found)
      /\ \A s \in Pending(visit, Found) : \E i \in DOMAIN stack : stack[i] = s
      /\ \A i \in DOMAIN stack : visit[stack[i]] \in Nat
  <2>1. Len(stack) \in Nat /\ DOMAIN stack = 1 .. Len(stack)
    BY <1>3, SeqLemma
  <2>2. /\ \A i \in DOMAIN stack : stack[i] \in Pending(visit, Found)
        /\ \A s \in Pending(visit, Found) : \E i \in DOMAIN stack : stack[i] = s
    BY <1>3 DEF Range
  <2>. QED
    BY <1>2, <2>1, <2>2 DEF Pending
<1>5. active \subseteq Range(stack)
  BY <1>2, <1>3
<1>6. ASSUME NEW i \in DOMAIN stack, stack[i] \notin active
      PROVE  \E j \in 1 .. i - 1 : stack[j] \in active
  <2>1. PICK a \in 1 .. Len(calls) : visit[TRPath[a]] <= visit[stack[i]]
    BY <1>1, <1>4 DEF Search, Connected
  <2>2. PICK j \in DOMAIN stack : stack[j] = TRPath[a]
    BY <1>2, <1>4
  <2>3. stack[j] \in active
    BY <1>2, <2>2
  <2>4. j # i /\ ~ (i < j)
    BY <1>3, <1>4, <1>6, <2>1, <2>2, <2>3
  <2>5. j \in 1 .. i - 1
    BY <1>4, <2>4
  <2>. QED
    BY <2>3, <2>5
<1>. QED
  BY <1>5, <1>6 DEF TR!WaitersHaveAnOwner, TR!Range, Range

-----------------------------------------------------------------------------
(* dijkstra_tag.  lo is what Tarjan's would have in low_: the number of    *)
(* the youngest uncertain state that is not younger.                       *)

\* The search path is the stack of calls.
DFrame == [state : State, todo : SUBSET State]
DPath == [i \in 1 .. Len(calls) |-> calls[i].state]
DTodo == [i \in 1 .. Len(calls) |-> calls[i].todo]

\* What the components add to each other.
Fresh == [i \in DOMAIN components |-> components[i] \ Earlier(i)]

\* k is where uncertain_ has the youngest state that is not younger than s.
Under(k, s) ==
  /\ k \in 1 .. Len(uncertain)
  /\ preorder[uncertain[k]] <= preorder[s]
  /\ \A j \in k + 1 .. Len(uncertain) : preorder[s] < preorder[uncertain[j]]

\* uncertain_ is a part of the search path, unassigned_ has the pending states
\* and maybe roots that have their component; both grow with the numbers.
DStacks ==
  /\ uncertain \in Seq({DPath[i] : i \in 1 .. Len(calls)})
  /\ \A j, k \in 1 .. Len(uncertain) :
       j < k => preorder[uncertain[j]] < preorder[uncertain[k]]
  /\ unassigned \in Seq(DOMAIN preorder)
  /\ \A j, k \in 1 .. Len(unassigned) :
       j < k => preorder[unassigned[j]] < preorder[unassigned[k]]
  /\ Pending(preorder, Found) \subseteq Range(unassigned)

\* lo is what uncertain_ says of the pending states.
DSearch(lo) ==
  /\ Search(G, preorder, lo, Len(calls), DPath, DTodo, Found)
  /\ \A s \in Pending(preorder, Found) :
       \E k \in 1 .. Len(uncertain) :
         Under(k, s) /\ lo[s] = preorder[uncertain[k]]

\* component_ knows the states of the components.
DInv ==
  /\ calls \in Seq(DFrame)
  /\ components \in Seq(SUBSET State)
  /\ DOMAIN component = Found
  /\ UNION Range(Fresh) = Found
  /\ DStacks
  /\ \E lo : DSearch(lo)

\* What the invariant says of the search path.
LEMMA DPathLemma ==
  ASSUME IsFiniteSet(State), DInv
  PROVE  /\ Len(calls) \in Nat
         /\ calls # <<>> =>
              /\ Len(calls) # 0 /\ Len(calls) \in 1 .. Len(calls)
              /\ DPath[Len(calls)] = D!top.state
              /\ DTodo[Len(calls)] = D!top.todo
              /\ D!top.state \in State
         /\ calls = <<>> => Len(calls) = 0
         /\ \A i \in 1 .. Len(calls) :
              /\ DPath[i] = calls[i].state /\ DTodo[i] = calls[i].todo
              /\ DPath[i] \in Pending(preorder, Found)
              /\ preorder[DPath[i]] <= preorder[DPath[Len(calls)]]
         /\ Found \subseteq DOMAIN preorder /\ DOMAIN preorder \subseteq State
         /\ preorder \in [DOMAIN preorder -> Nat]
         /\ \A s \in DOMAIN preorder : preorder[s] < Cardinality(DOMAIN preorder)
         /\ \A s, t \in DOMAIN preorder : preorder[s] = preorder[t] => s = t
         /\ \A i, j \in 1 .. Len(calls) :
              i < j => preorder[DPath[i]] < preorder[DPath[j]]
         /\ Cardinality(DOMAIN preorder) \in Nat
<1>0. PICK lo : DSearch(lo)
  BY DEF DInv
<1>1. /\ calls \in Seq(DFrame)
      /\ Search(G, preorder, lo, Len(calls), DPath, DTodo, Found)
  BY <1>0 DEF DInv, DSearch
<1>2. /\ Len(calls) \in Nat
      /\ \A i \in 1 .. Len(calls) : calls[i] \in DFrame
      /\ calls # <<>> =>
           Len(calls) # 0 /\ Len(calls) \in 1 .. Len(calls)
      /\ calls = <<>> => Len(calls) = 0
  BY <1>1, SeqLemma
<1>3. /\ Found \subseteq DOMAIN preorder /\ DOMAIN preorder \subseteq State
      /\ preorder \in [DOMAIN preorder -> Nat]
      /\ \A s \in DOMAIN preorder : preorder[s] < Cardinality(DOMAIN preorder)
      /\ \A s, t \in DOMAIN preorder : preorder[s] = preorder[t] => s = t
      /\ \A i \in 1 .. Len(calls) : DPath[i] \in Pending(preorder, Found)
      /\ \A i, j \in 1 .. Len(calls) : i < j => preorder[DPath[i]] < preorder[DPath[j]]
  BY <1>1 DEF Search, Numbered, G
<1>4. Cardinality(DOMAIN preorder) \in Nat
  BY <1>3, CountLemma
<1>5. calls # <<>> =>
              /\ DPath[Len(calls)] = D!top.state
              /\ DTodo[Len(calls)] = D!top.todo
              /\ D!top.state \in State
  BY <1>2 DEF DPath, DTodo, D!top, D!Last, DFrame
<1>6. ASSUME NEW i \in 1 .. Len(calls)
      PROVE  preorder[DPath[i]] <= preorder[DPath[Len(calls)]]
  <2>1. Len(calls) \in 1 .. Len(calls) /\ (i = Len(calls) \/ i < Len(calls))
    BY <1>2
  <2>2. preorder[DPath[i]] \in Nat /\ preorder[DPath[Len(calls)]] \in Nat
    BY <1>3, <2>1 DEF Pending
  <2>3. CASE i = Len(calls)
    BY <2>2, <2>3
  <2>4. CASE i < Len(calls)
    BY <1>3, <2>1, <2>2, <2>4
  <2>. QED
    BY <2>1, <2>3, <2>4
<1>. QED
  BY <1>2, <1>3, <1>4, <1>5, <1>6 DEF DPath, DTodo

\* What the invariant says of uncertain_ and unassigned_.
LEMMA DStacksLemma ==
  ASSUME IsFiniteSet(State), DInv
  PROVE  /\ Len(uncertain) \in Nat /\ DOMAIN uncertain = 1 .. Len(uncertain)
         /\ \A k \in 1 .. Len(uncertain) :
              /\ uncertain[k] \in Pending(preorder, Found)
              /\ preorder[uncertain[k]] \in Nat
              /\ \E i \in 1 .. Len(calls) : uncertain[k] = DPath[i]
         /\ \A j, k \in 1 .. Len(uncertain) :
              j < k => preorder[uncertain[j]] < preorder[uncertain[k]]
         /\ Len(unassigned) \in Nat /\ DOMAIN unassigned = 1 .. Len(unassigned)
         /\ \A k \in 1 .. Len(unassigned) :
              unassigned[k] \in DOMAIN preorder /\ preorder[unassigned[k]] \in Nat
         /\ \A s \in Pending(preorder, Found) :
              \E k \in 1 .. Len(unassigned) : unassigned[k] = s
<1>1. /\ uncertain \in Seq({DPath[i] : i \in 1 .. Len(calls)})
      /\ \A j, k \in 1 .. Len(uncertain) :
           j < k => preorder[uncertain[j]] < preorder[uncertain[k]]
      /\ unassigned \in Seq(DOMAIN preorder)
      /\ Pending(preorder, Found) \subseteq Range(unassigned)
  BY DEF DInv, DStacks
<1>2. /\ Len(uncertain) \in Nat /\ DOMAIN uncertain = 1 .. Len(uncertain)
      /\ \A k \in 1 .. Len(uncertain) :
           uncertain[k] \in {DPath[i] : i \in 1 .. Len(calls)}
      /\ Len(unassigned) \in Nat /\ DOMAIN unassigned = 1 .. Len(unassigned)
      /\ \A k \in 1 .. Len(unassigned) : unassigned[k] \in DOMAIN preorder
  BY <1>1, SeqLemma
<1>3. /\ \A i \in 1 .. Len(calls) : DPath[i] \in Pending(preorder, Found)
      /\ preorder \in [DOMAIN preorder -> Nat]
      /\ Pending(preorder, Found) \subseteq DOMAIN preorder
  BY DPathLemma DEF Pending
<1>4. \A k \in 1 .. Len(uncertain) :
        /\ uncertain[k] \in Pending(preorder, Found)
        /\ preorder[uncertain[k]] \in Nat
        /\ \E i \in 1 .. Len(calls) : uncertain[k] = DPath[i]
  BY <1>2, <1>3
<1>5. \A s \in Pending(preorder, Found) :
        \E k \in 1 .. Len(unassigned) : unassigned[k] = s
  BY <1>1, <1>2 DEF Range
<1>. QED
  BY <1>1, <1>2, <1>3, <1>4, <1>5

\* Only the frame of the last call changes.
LEMMA DSeeingLemma ==
  ASSUME calls \in Seq(DFrame), calls # <<>>, NEW s
  PROVE  /\ D!Seeing(s) \in Seq(DFrame)
         /\ Len(D!Seeing(s)) = Len(calls)
         /\ \A i \in 1 .. Len(calls) :
              /\ D!Seeing(s)[i].state = calls[i].state
              /\ D!Seeing(s)[i].todo = IF i = Len(calls) THEN calls[i].todo \ {s}
                                       ELSE calls[i].todo
<1>1. /\ Len(calls) \in 1 .. Len(calls)
      /\ Len(calls) \in Nat
      /\ \A i \in 1 .. Len(calls) : calls[i] \in DFrame
      /\ calls \in [1 .. Len(calls) -> DFrame]
  BY SeqLemma
<1>2. D!Seeing(s) \in [1 .. Len(calls) -> DFrame]
  BY <1>1 DEF D!Seeing, DFrame
<1>3. D!Seeing(s) \in Seq(DFrame) /\ Len(D!Seeing(s)) = Len(calls)
  BY <1>1, <1>2, IsSeqLemma
<1>. QED
  BY <1>1, <1>3 DEF D!Seeing, DFrame

\* A step that only sees a destination.
LEMMA DSeeingPath ==
  ASSUME IsFiniteSet(State), DInv, calls # <<>>, NEW s, calls' = D!Seeing(s)
  PROVE  /\ calls' \in Seq(DFrame) /\ Len(calls') = Len(calls)
         /\ \A i \in 1 .. Len(calls) :
              /\ DPath'[i] = DPath[i]
              /\ DTodo'[i] = IF i = Len(calls) THEN DTodo[i] \ {s} ELSE DTodo[i]
<1>1. /\ calls' \in Seq(DFrame) /\ Len(calls') = Len(calls)
      /\ \A i \in 1 .. Len(calls) :
           /\ calls'[i].state = calls[i].state
           /\ calls'[i].todo = IF i = Len(calls) THEN calls[i].todo \ {s}
                               ELSE calls[i].todo
  BY DSeeingLemma DEF DInv
<1>. QED
  BY <1>1 DEF DPath, DTodo

\* What a visit does to the variables.
LEMMA DVisitFacts ==
  ASSUME IsFiniteSet(State), DInv, NEW s \in State, D!Root(s) \/ D!Call(s)
  PROVE  /\ s \notin DOMAIN preorder
         /\ calls = <<>> \/ s \in calls[Len(calls)].todo
         /\ preorder' = [r \in DOMAIN preorder \union {s} |->
                           IF r = s THEN Cardinality(DOMAIN preorder) ELSE preorder[r]]
         /\ unassigned' = Append(unassigned, s)
         /\ uncertain' = Append(uncertain, s)
         /\ edges' = edges /\ components' = components /\ component' = component
         /\ calls' \in Seq(DFrame)
         /\ Len(calls') = Len(calls) + 1
         /\ \A i \in 1 .. Len(calls) :
              /\ calls'[i].state = calls[i].state
              /\ calls'[i].todo = IF i = Len(calls) THEN calls[i].todo \ {s}
                                  ELSE calls[i].todo
         /\ calls'[Len(calls) + 1].state = s
         /\ calls'[Len(calls) + 1].todo = Successors(G, s)
<1>. DEFINE new == [state |-> s, todo |-> Successors(G, s)]
<1>1. new \in DFrame
  BY DEF DFrame, Successors, G
<1>2. new.state = s /\ new.todo = Successors(G, s) /\ calls \in Seq(DFrame)
  BY DEF DInv
<1>3. CASE D!Root(s)
  <2>1. /\ calls = <<>> /\ s \notin DOMAIN component
        /\ preorder' = [r \in DOMAIN preorder \union {s} |->
                          IF r = s THEN Cardinality(DOMAIN preorder) ELSE preorder[r]]
        /\ unassigned' = Append(unassigned, s)
        /\ uncertain' = Append(uncertain, s)
        /\ edges' = edges /\ components' = components /\ component' = component
        /\ calls' = Append(calls, new)
    BY <1>3 DEF D!Root, D!Enter, D!Seen, D!With, D!Successors, Successors,
                D!Digraph, G, D!Cardinality, Cardinality
  <2>2. DOMAIN preorder = DOMAIN component
    <3>1. PICK lo : DSearch(lo)
      BY DEF DInv
    <3>2. Len(calls) = 0
      BY <2>1, DPathLemma
    <3>3. Search(G, preorder, lo, 0, DPath, DTodo, Found)
      BY <3>1, <3>2 DEF DSearch
    <3>4. DOMAIN preorder = Found
      BY <3>3, NoPathLemma
    <3>. QED
      BY <3>4 DEF DInv
  <2>. HIDE DEF new
  <2>3. /\ calls' \in Seq(DFrame)
        /\ Len(calls') = Len(calls) + 1
        /\ calls'[Len(calls) + 1] = new
        /\ Len(calls) = 0
    BY <1>1, <1>2, <2>1, AppendLemma, SeqLemma
  <2>. QED
    BY <1>2, <2>1, <2>2, <2>3
<1>4. CASE D!Call(s)
  <2>1. /\ calls # <<>> /\ s \notin DOMAIN preorder
        /\ s \in calls[Len(calls)].todo
        /\ preorder' = [r \in DOMAIN preorder \union {s} |->
                          IF r = s THEN Cardinality(DOMAIN preorder) ELSE preorder[r]]
        /\ unassigned' = Append(unassigned, s)
        /\ uncertain' = Append(uncertain, s)
        /\ edges' = edges /\ components' = components /\ component' = component
        /\ calls' = Append(D!Seeing(s), new)
    BY <1>4 DEF D!Call, D!top, D!Last, D!Enter, D!Seen, D!With, D!Successors,
                Successors, D!Digraph, G, D!Cardinality, Cardinality
  <2>. HIDE DEF new
  <2>2. /\ D!Seeing(s) \in Seq(DFrame)
        /\ Len(D!Seeing(s)) = Len(calls)
        /\ \A i \in 1 .. Len(calls) :
             /\ D!Seeing(s)[i].state = calls[i].state
             /\ D!Seeing(s)[i].todo =
                  IF i = Len(calls) THEN calls[i].todo \ {s} ELSE calls[i].todo
    BY <1>2, <2>1, DSeeingLemma
  <2>3. /\ calls' \in Seq(DFrame)
        /\ Len(calls') = Len(calls) + 1
        /\ \A i \in 1 .. Len(calls) : calls'[i] = D!Seeing(s)[i]
        /\ calls'[Len(calls) + 1] = new
    BY <1>1, <2>1, <2>2, AppendLemma
  <2>. QED
    BY <1>2, <2>1, <2>2, <2>3
<1>. QED
  BY <1>3, <1>4

\* Root and Call: a new state is uncertain.
LEMMA DVisitStep ==
  ASSUME IsFiniteSet(State), DInv, NEW s \in State, D!Root(s) \/ D!Call(s)
  PROVE  DInv' /\ edges' = edges /\ components' = components
<1>. DEFINE n == Len(calls)
            c == Cardinality(DOMAIN preorder)
            u == Len(uncertain)
            W == Pending(preorder, Found)
<1>0. PICK lo : DSearch(lo)
  BY DEF DInv
<1>a. PICK lo2 : lo2 = [r \in DOMAIN preorder \union {s} |-> IF r = s THEN c ELSE lo[r]]
  OBVIOUS
<1>1. /\ Search(G, preorder, lo, n, DPath, DTodo, Found)
      /\ \A r \in W : \E k \in 1 .. u : Under(k, r) /\ lo[r] = preorder[uncertain[k]]
      /\ components \in Seq(SUBSET State)
      /\ DOMAIN component = Found
      /\ UNION Range(Fresh) = Found
  BY <1>0 DEF DInv, DSearch
<1>2. /\ n \in Nat /\ (calls = <<>> => n = 0) /\ (calls # <<>> => n \in 1 .. n)
      /\ Found \subseteq DOMAIN preorder /\ DOMAIN preorder \subseteq State
      /\ preorder \in [DOMAIN preorder -> Nat]
      /\ \A r \in DOMAIN preorder : preorder[r] < c
      /\ c \in Nat
      /\ \A i \in 1 .. n : DPath[i] \in W
      /\ \A i \in 1 .. n : DPath[i] = calls[i].state /\ DTodo[i] = calls[i].todo
      /\ W \subseteq DOMAIN preorder
  BY DPathLemma DEF Pending
<1>3. /\ s \notin DOMAIN preorder
      /\ calls = <<>> \/ s \in calls[n].todo
      /\ preorder' = [r \in DOMAIN preorder \union {s} |->
                        IF r = s THEN c ELSE preorder[r]]
      /\ unassigned' = Append(unassigned, s)
      /\ uncertain' = Append(uncertain, s)
      /\ edges' = edges /\ components' = components /\ component' = component
      /\ calls' \in Seq(DFrame)
      /\ Len(calls') = n + 1
      /\ calls'[n + 1].state = s
      /\ calls'[n + 1].todo = Successors(G, s)
  BY DVisitFacts
<1>4. \A i \in 1 .. n :
         /\ calls'[i].state = calls[i].state
         /\ calls'[i].todo = IF i = n THEN calls[i].todo \ {s} ELSE calls[i].todo
  BY DVisitFacts
<1>5. /\ preorder' \in [DOMAIN preorder \union {s} -> Nat] /\ preorder'[s] = c
      /\ DOMAIN preorder' = DOMAIN preorder \union {s}
      /\ \A r \in DOMAIN preorder : preorder'[r] = preorder[r]
      /\ \A r \in DOMAIN preorder : lo2[r] = lo[r]
      /\ lo2[s] = c
  BY <1>2, <1>3, <1>a
<1>. HIDE DEF n, c, u
<1>6. /\ 1 .. n + 1 = (1 .. n) \union {n + 1} /\ n + 1 \notin 1 .. n
      /\ \A i \in 1 .. n : i \in 1 .. n + 1
  BY <1>2
<1>7. /\ \A i \in 1 .. n : DPath'[i] = DPath[i]
      /\ \A i \in 1 .. n : DTodo'[i] = IF i = n THEN DTodo[i] \ {s} ELSE DTodo[i]
      /\ DPath'[n + 1] = s
      /\ DTodo'[n + 1] = Successors(G, s)
  BY <1>3, <1>4, <1>6 DEF DPath, DTodo, n
<1>8. n = 0 \/ s \in DTodo[n]
  BY <1>2, <1>3
<1>9. Visits(G, Found, preorder, lo, n, DPath, DTodo, s, preorder', lo2, DPath', DTodo')
  <2>1. s \in G.node
    BY DEF G
  <2>2. \A r \in W : lo2[r] = lo[r]
    BY <1>2, <1>5
  <2>. QED
    BY <1>3, <1>5, <1>7, <1>8, <2>1, <2>2 DEF Visits, c
<1>10. Search(G, preorder', lo2, n + 1, DPath', DTodo', Found)
  <2>1. IsFiniteSet(G.node)
    BY DEF G
  <2>. QED
    BY <1>1, <1>9, <2>1, VisitLemma
<1>11. /\ G' = G /\ Found' = Found /\ Fresh' = Fresh
       /\ Pending(preorder', Found') = W \union {s}
  <2>1. G' = G /\ Found' = Found /\ Fresh' = Fresh
    BY <1>3 DEF G, Found, Fresh, Earlier
  <2>. QED
    BY <1>2, <1>3, <1>5, <2>1 DEF Pending
<1>12. /\ u \in Nat
       /\ \A k \in 1 .. u :
            /\ uncertain[k] \in W
            /\ \E i \in 1 .. n : uncertain[k] = DPath[i]
       /\ \A j, k \in 1 .. u : j < k => preorder[uncertain[j]] < preorder[uncertain[k]]
  BY DStacksLemma DEF u, n
<1>13. /\ uncertain' \in Seq({DPath'[i] : i \in 1 .. n + 1})
       /\ Len(uncertain') = u + 1
       /\ \A k \in 1 .. u : uncertain'[k] = uncertain[k]
       /\ uncertain'[u + 1] = s
       /\ 1 .. u + 1 = (1 .. u) \union {u + 1} /\ u + 1 \notin 1 .. u
  <2>. DEFINE P == {DPath[i] : i \in 1 .. n}
              P2 == {DPath'[i] : i \in 1 .. n + 1}
  <2>1. \A k \in 1 .. u : uncertain[k] \in P2
    BY <1>6, <1>7, <1>12
  <2>2. s \in P2
    BY <1>6, <1>7
  <2>3. uncertain \in Seq(P) /\ Len(uncertain) = u
    BY DEF DInv, DStacks, n, u
  <2>. HIDE DEF P, P2
  <2>4. uncertain \in [1 .. u -> P]
    BY <2>3, SeqLemma
  <2>5. uncertain \in [1 .. u -> P2]
    BY <2>1, <2>4
  <2>6. uncertain \in Seq(P2)
    BY <1>12, <2>5, IsSeqLemma
  <2>7. /\ uncertain' \in Seq(P2)
        /\ Len(uncertain') = u + 1
        /\ \A k \in 1 .. u : uncertain'[k] = uncertain[k]
        /\ uncertain'[u + 1] = s
    BY <1>3, <2>2, <2>3, <2>6, AppendLemma
  <2>. QED
    BY <1>12, <2>7 DEF P2
<1>14. \A j, k \in 1 .. u + 1 :
         j < k => preorder'[uncertain'[j]] < preorder'[uncertain'[k]]
  <2>. SUFFICES ASSUME NEW j \in 1 .. u + 1, NEW k \in 1 .. u + 1, j < k
                PROVE  preorder'[uncertain'[j]] < preorder'[uncertain'[k]]
    OBVIOUS
  <2>1. j \in 1 .. u
    BY <1>12
  <2>2. /\ uncertain[j] \in DOMAIN preorder
        /\ preorder'[uncertain'[j]] = preorder[uncertain[j]]
        /\ preorder[uncertain[j]] < c
    BY <1>2, <1>5, <1>12, <1>13, <2>1
  <2>3. CASE k = u + 1
    BY <1>5, <1>13, <2>2, <2>3
  <2>4. CASE k \in 1 .. u
    BY <1>2, <1>5, <1>12, <1>13, <2>1, <2>2, <2>4
  <2>. QED
    BY <1>13, <2>3, <2>4
<1>15. ASSUME NEW r \in W \union {s}
       PROVE  \E k \in 1 .. u + 1 : Under(k, r)' /\ lo2[r] = preorder'[uncertain'[k]]
  <2>1. CASE r = s
    <3>1. PICK k \in 1 .. u + 1 : k = u + 1
      BY <1>12
    <3>2. k + 1 .. u + 1 = {}
      BY <1>12, <3>1
    <3>3. preorder'[uncertain'[k]] <= preorder'[r] /\ uncertain'[k] = s
      BY <1>2, <1>5, <1>13, <2>1, <3>1
    <3>4. Under(k, r)'
      BY <1>13, <3>2, <3>3 DEF Under
    <3>. QED
      BY <1>5, <2>1, <3>3, <3>4
  <2>2. CASE r # s
    <3>1. r \in W /\ r \in DOMAIN preorder
      BY <1>2, <2>2
    <3>2. PICK k \in 1 .. u : Under(k, r) /\ lo[r] = preorder[uncertain[k]]
      BY <1>1, <3>1
    <3>3. /\ uncertain'[k] = uncertain[k]
          /\ preorder'[uncertain'[k]] = preorder[uncertain[k]]
          /\ preorder'[r] = preorder[r] /\ k \in 1 .. u + 1
      BY <1>2, <1>5, <1>12, <1>13, <3>1
    <3>4. ASSUME NEW j \in k + 1 .. u + 1
          PROVE  preorder'[r] < preorder'[uncertain'[j]]
      <4>1. CASE j = u + 1
        BY <1>2, <1>5, <1>13, <3>1, <4>1
      <4>2. CASE j # u + 1
        <5>1. j \in k + 1 .. u /\ j \in 1 .. u
          BY <1>12, <4>2
        <5>2. preorder[r] < preorder[uncertain[j]]
          BY <3>2, <5>1 DEF Under, u
        <5>3. preorder'[uncertain'[j]] = preorder[uncertain[j]]
          BY <1>2, <1>5, <1>12, <1>13, <5>1
        <5>. QED
          BY <3>3, <5>2, <5>3
      <4>. QED
        BY <4>1, <4>2
    <3>5. preorder'[uncertain'[k]] <= preorder'[r]
      BY <3>2, <3>3 DEF Under
    <3>6. Under(k, r)'
      BY <1>13, <3>3, <3>4, <3>5 DEF Under
    <3>7. lo2[r] = preorder'[uncertain'[k]]
      BY <1>5, <3>1, <3>2, <3>3
    <3>. QED
      BY <3>3, <3>6, <3>7
  <2>. QED
    BY <2>1, <2>2
<1>16. DSearch(lo2)'
  <2>1. Search(G', preorder', lo2, Len(calls'), DPath', DTodo', Found')
    BY <1>3, <1>10, <1>11
  <2>2. \A r \in Pending(preorder', Found') :
          \E k \in 1 .. Len(uncertain') :
            Under(k, r)' /\ lo2[r] = preorder'[uncertain'[k]]
    BY <1>11, <1>13, <1>15
  <2>. QED
    BY <2>1, <2>2 DEF DSearch
<1>17. /\ Len(unassigned) \in Nat
       /\ \A k \in 1 .. Len(unassigned) :
            unassigned[k] \in DOMAIN preorder /\ preorder[unassigned[k]] \in Nat
       /\ \A j, k \in 1 .. Len(unassigned) :
            j < k => preorder[unassigned[j]] < preorder[unassigned[k]]
       /\ unassigned \in Seq(DOMAIN preorder')
       /\ unassigned \in [1 .. Len(unassigned) -> DOMAIN preorder']
  <2>1. /\ Len(unassigned) \in Nat
        /\ \A k \in 1 .. Len(unassigned) :
             unassigned[k] \in DOMAIN preorder /\ preorder[unassigned[k]] \in Nat
        /\ \A j, k \in 1 .. Len(unassigned) :
             j < k => preorder[unassigned[j]] < preorder[unassigned[k]]
        /\ unassigned \in [1 .. Len(unassigned) -> DOMAIN preorder]
    BY DStacksLemma, SeqLemma DEF DInv, DStacks
  <2>2. unassigned \in [1 .. Len(unassigned) -> DOMAIN preorder']
    BY <1>5, <2>1
  <2>. QED
    BY <2>1, <2>2, IsSeqLemma
<1>18. /\ unassigned' \in Seq(DOMAIN preorder')
       /\ Len(unassigned') = Len(unassigned) + 1
       /\ \A k \in 1 .. Len(unassigned) : unassigned'[k] = unassigned[k]
       /\ unassigned'[Len(unassigned) + 1] = s
       /\ Range(unassigned') = Range(unassigned) \union {s}
  <2>1. s \in DOMAIN preorder'
    BY <1>5
  <2>. QED
    BY <1>3, <1>17, <2>1, AppendLemma
<1>19. \A j, k \in 1 .. Len(unassigned) + 1 :
         j < k => preorder'[unassigned'[j]] < preorder'[unassigned'[k]]
  <2>. SUFFICES ASSUME NEW j \in 1 .. Len(unassigned) + 1,
                       NEW k \in 1 .. Len(unassigned) + 1, j < k
                PROVE  preorder'[unassigned'[j]] < preorder'[unassigned'[k]]
    OBVIOUS
  <2>1. j \in 1 .. Len(unassigned)
    BY <1>17
  <2>2. /\ preorder'[unassigned'[j]] = preorder[unassigned[j]]
        /\ preorder[unassigned[j]] < c
    BY <1>2, <1>5, <1>17, <1>18, <2>1
  <2>3. CASE k = Len(unassigned) + 1
    BY <1>5, <1>18, <2>2, <2>3
  <2>4. CASE k # Len(unassigned) + 1
    <3>1. k \in 1 .. Len(unassigned)
      BY <1>17, <2>4
    <3>. QED
      BY <1>5, <1>17, <1>18, <2>1, <2>2, <3>1
  <2>. QED
    BY <2>3, <2>4
<1>20. Pending(preorder', Found') \subseteq Range(unassigned')
  BY <1>11, <1>18 DEF DInv, DStacks
<1>21. DStacks'
  <2>1. /\ unassigned' \in Seq(DOMAIN preorder')
        /\ \A j, k \in 1 .. Len(unassigned') :
             j < k => preorder'[unassigned'[j]] < preorder'[unassigned'[k]]
    BY <1>18, <1>19
  <2>2. /\ uncertain' \in Seq({DPath'[i] : i \in 1 .. Len(calls')})
        /\ \A j, k \in 1 .. Len(uncertain') :
             j < k => preorder'[uncertain'[j]] < preorder'[uncertain'[k]]
    BY <1>3, <1>13, <1>14
  <2>. QED
    BY <1>20, <2>1, <2>2, Zenon DEF DStacks
<1>. QED
  BY <1>1, <1>3, <1>11, <1>16, <1>21 DEF DInv

\* Two uncertain states cannot both be the youngest.
LEMMA UnderLemma ==
  ASSUME IsFiniteSet(State), DInv, NEW s \in Pending(preorder, Found),
         NEW j, NEW k, Under(j, s), Under(k, s)
  PROVE  j = k
<1>1. /\ Len(uncertain) \in Nat
      /\ \A i \in 1 .. Len(uncertain) : preorder[uncertain[i]] \in Nat
  BY DStacksLemma
<1>2. preorder[s] \in Nat
  BY DPathLemma DEF Pending
<1>3. /\ j \in 1 .. Len(uncertain) /\ k \in 1 .. Len(uncertain)
      /\ preorder[uncertain[j]] <= preorder[s] /\ preorder[uncertain[k]] <= preorder[s]
  BY DEF Under
<1>4. ~ (j < k)
  <2>. SUFFICES ASSUME j < k PROVE FALSE
    OBVIOUS
  <2>1. k \in j + 1 .. Len(uncertain)
    BY <1>1, <1>3
  <2>2. preorder[s] < preorder[uncertain[k]]
    BY <2>1 DEF Under
  <2>. QED
    BY <1>1, <1>2, <1>3, <2>2
<1>5. ~ (k < j)
  <2>. SUFFICES ASSUME k < j PROVE FALSE
    OBVIOUS
  <2>1. j \in k + 1 .. Len(uncertain)
    BY <1>1, <1>3
  <2>2. preorder[s] < preorder[uncertain[j]]
    BY <2>1 DEF Under
  <2>. QED
    BY <1>1, <1>2, <1>3, <2>2
<1>. QED
  BY <1>1, <1>3, <1>4, <1>5

\* Back: the path from the destination's root on is in one component, so its
\* states are no longer uncertain.
LEMMA DBackStep ==
  ASSUME IsFiniteSet(State), DInv, NEW s \in State, D!Back(s)
  PROVE  DInv' /\ edges' = edges /\ components' = components
<1>. DEFINE n == Len(calls)
            u == Len(uncertain)
            W == Pending(preorder, Found)
<1>0. PICK lo : DSearch(lo)
  BY DEF DInv
<1>1. /\ Search(G, preorder, lo, n, DPath, DTodo, Found)
      /\ \A r \in W : \E j \in 1 .. u : Under(j, r) /\ lo[r] = preorder[uncertain[j]]
      /\ components \in Seq(SUBSET State)
      /\ DOMAIN component = Found
      /\ UNION Range(Fresh) = Found
  BY <1>0 DEF DInv, DSearch
<1>2. /\ n \in Nat
      /\ Found \subseteq DOMAIN preorder
      /\ preorder \in [DOMAIN preorder -> Nat]
      /\ \A i \in 1 .. n : DPath[i] \in W /\ preorder[DPath[i]] <= preorder[DPath[n]]
      /\ \A r, t \in DOMAIN preorder : preorder[r] = preorder[t] => r = t
      /\ W \subseteq DOMAIN preorder
      /\ \A r \in W : preorder[r] \in Nat
  BY DPathLemma DEF Pending
<1>3. /\ calls # <<>>
      /\ s \in D!top.todo /\ s \in DOMAIN preorder /\ s \notin DOMAIN component
      /\ calls' = D!Seeing(s)
      /\ edges' = edges /\ preorder' = preorder /\ unassigned' = unassigned
      /\ component' = component /\ components' = components
  BY DEF D!Back, D!Seen
<1>4. PICK k \in DOMAIN uncertain :
        /\ preorder[uncertain[k]] <= preorder[s]
        /\ \A i \in k + 1 .. Len(uncertain) : preorder[uncertain[i]] > preorder[s]
        /\ uncertain' = SubSeq(uncertain, 1, k)
  BY DEF D!Back
<1>5. /\ n # 0 /\ n \in 1 .. n /\ s \in DTodo[n]
      /\ s \in W
  BY <1>1, <1>3, DPathLemma DEF Pending
<1>6. /\ u \in Nat /\ k \in 1 .. u
      /\ \A i \in 1 .. u :
           /\ uncertain[i] \in W
           /\ preorder[uncertain[i]] \in Nat
           /\ \E j \in 1 .. n : uncertain[i] = DPath[j]
      /\ \A i, j \in 1 .. u : i < j => preorder[uncertain[i]] < preorder[uncertain[j]]
  BY <1>4, DStacksLemma
<1>. DEFINE q == uncertain[k]
<1>a. PICK lo2 : lo2 = [r \in W |-> IF preorder[q] <= preorder[r] THEN preorder[q] ELSE lo[r]]
  OBVIOUS
<1>7. /\ \A r \in W : preorder[q] <= preorder[r] => lo2[r] = preorder[q]
      /\ \A r \in W : ~ (preorder[q] <= preorder[r]) => lo2[r] = lo[r]
  BY <1>a
<1>8. q \in W /\ preorder[q] \in Nat /\ (\E j \in 1 .. n : q = DPath[j])
      /\ preorder[q] <= preorder[s]
  BY <1>4, <1>6
<1>9. lo[s] = preorder[q]
  <2>1. Under(k, s)
    BY <1>2, <1>4, <1>5, <1>6 DEF Under, u
  <2>2. PICK j \in 1 .. u : Under(j, s) /\ lo[s] = preorder[uncertain[j]]
    BY <1>1, <1>5
  <2>3. j = k
    BY <1>5, <2>1, <2>2, UnderLemma
  <2>. QED
    BY <2>2, <2>3
<1>10. /\ WayBack(G, preorder, lo, Found)
       /\ LowestOnPath(preorder, lo, n, DPath, Found)
       /\ Connected(G, preorder, n, DPath, Found)
       /\ Numbered(G, preorder, n, DPath, DTodo, Found)
  BY <1>1 DEF Search
<1>. HIDE DEF n, u, q
<1>11. \A r \in W : lo[r] \in Nat /\ lo[r] <= preorder[r]
  BY <1>10 DEF WayBack
<1>12. ASSUME NEW r \in W, preorder[q] <= preorder[r]
       PROVE  preorder[q] <= lo[r]
  <2>1. PICK j \in 1 .. u : Under(j, r) /\ lo[r] = preorder[uncertain[j]]
    BY <1>1
  <2>2. ~ (j < k)
    <3>. SUFFICES ASSUME j < k PROVE FALSE
      OBVIOUS
    <3>1. k \in j + 1 .. u
      BY <1>6
    <3>2. preorder[r] < preorder[q]
      BY <2>1, <3>1 DEF Under, u, q
    <3>. QED
      BY <1>2, <1>8, <1>12, <3>2
  <2>3. j = k \/ k < j
    BY <1>6, <2>2
  <2>. QED
    BY <1>6, <1>8, <2>1, <2>3 DEF q
<1>13. \A r \in W : lo2[r] \in Nat /\ lo2[r] <= lo[r]
  BY <1>7, <1>8, <1>11, <1>12
<1>14. Reaches(G, s, q)
  <2>1. PICK t \in W : preorder[t] = lo[s] /\ Reaches(G, s, t)
    BY <1>5, <1>10 DEF WayBack
  <2>2. t = q
    BY <1>2, <1>8, <1>9, <2>1
  <2>. QED
    BY <2>1, <2>2
<1>15. Reaches(G, DPath[n], q)
  <2>1. s \in Successors(G, DPath[n])
    BY <1>5, <1>10 DEF Numbered
  <2>. QED
    BY <1>14, <2>1, ReachesSuccessor, ReachesTransitive
<1>16. ASSUME NEW r \in W
       PROVE  Reaches(G, r, q)
  <2>1. PICK i \in 1 .. n : Reaches(G, r, DPath[i])
    BY <1>10 DEF Connected
  <2>2. Reaches(G, DPath[i], DPath[n])
    BY <1>2, <1>5, <1>10 DEF Connected
  <2>. QED
    BY <1>15, <2>1, <2>2, ReachesTransitive
<1>17. WayBack(G, preorder, lo2, Found)
  <2>. SUFFICES ASSUME NEW r \in W
                PROVE  /\ lo2[r] \in Nat
                       /\ lo2[r] <= preorder[r]
                       /\ \E t \in W : preorder[t] = lo2[r] /\ Reaches(G, r, t)
    BY DEF WayBack
  <2>1. lo2[r] \in Nat /\ lo2[r] <= preorder[r]
    BY <1>2, <1>11, <1>13
  <2>2. CASE preorder[q] <= preorder[r]
    BY <1>7, <1>8, <1>16, <2>1, <2>2
  <2>3. CASE ~ (preorder[q] <= preorder[r])
    <3>1. \E t \in W : preorder[t] = lo[r] /\ Reaches(G, r, t)
      BY <1>10 DEF WayBack
    <3>. QED
      BY <1>7, <2>1, <2>3, <3>1
  <2>. QED
    BY <2>2, <2>3
<1>18. LowestOnPath(preorder, lo2, n, DPath, Found)
  <2>. SUFFICES ASSUME NEW i \in 1 .. n, NEW r \in W, preorder[DPath[i]] <= preorder[r],
                       i = n \/ preorder[r] < preorder[DPath[i + 1]]
                PROVE  lo2[DPath[i]] <= lo2[r]
    BY DEF LowestOnPath
  <2>1. /\ lo[DPath[i]] <= lo[r]
    BY <1>10 DEF LowestOnPath
  <2>2. /\ DPath[i] \in W /\ preorder[DPath[i]] \in Nat /\ preorder[r] \in Nat
        /\ lo[DPath[i]] \in Nat /\ lo[r] \in Nat
        /\ lo[DPath[i]] <= preorder[DPath[i]]
    BY <1>2, <1>11
  <2>3. CASE preorder[q] <= preorder[DPath[i]]
    <3>1. preorder[q] <= preorder[r]
      BY <1>8, <2>2, <2>3
    <3>. QED
      BY <1>7, <1>8, <2>2, <2>3, <3>1
  <2>4. CASE ~ (preorder[q] <= preorder[DPath[i]])
    <3>1. lo2[DPath[i]] = lo[DPath[i]]
      BY <1>7, <2>2, <2>4
    <3>2. CASE preorder[q] <= preorder[r]
      <4>1. lo2[r] = preorder[q]
        BY <1>7, <3>2
      <4>. QED
        BY <1>8, <2>2, <2>4, <3>1, <4>1
    <3>3. CASE ~ (preorder[q] <= preorder[r])
      BY <1>7, <2>1, <3>1, <3>3
    <3>. QED
      BY <3>2, <3>3
  <2>. QED
    BY <2>3, <2>4
<1>19. /\ calls' \in Seq(DFrame) /\ Len(calls') = n
       /\ \A i \in 1 .. n :
            /\ DPath'[i] = DPath[i]
            /\ DTodo'[i] = IF i = n THEN DTodo[i] \ {s} ELSE DTodo[i]
  BY <1>3, DSeeingPath DEF n
<1>20. Sees(G, Found, preorder, lo, n, DPath, DTodo, s, lo2, DTodo')
  <2>1. lo2[DPath[n]] <= preorder[s]
    <3>1. PICK j \in 1 .. n : q = DPath[j]
      BY <1>8
    <3>2. preorder[q] <= preorder[DPath[n]] /\ DPath[n] \in W
      BY <1>2, <1>5, <3>1
    <3>3. lo2[DPath[n]] = preorder[q]
      BY <1>7, <3>2
    <3>. QED
      BY <1>8, <3>3
  <2>. QED
    BY <1>3, <1>5, <1>13, <1>17, <1>18, <1>19, <2>1 DEF Sees
<1>21. Search(G, preorder, lo2, n, DPath, DTodo', Found)
  BY <1>1, <1>20, KnownLemma
<1>22. Search(G, preorder, lo2, n, DPath', DTodo', Found)
  <2>1. SamePath(Found, preorder, lo2, n, DPath, DTodo', lo2, DPath', DTodo')
    BY <1>19 DEF SamePath
  <2>. QED
    BY <1>21, <2>1, SearchSame
<1>23. G' = G /\ Found' = Found /\ Fresh' = Fresh
  BY <1>3 DEF G, Found, Fresh, Earlier
<1>24. /\ uncertain' \in Seq({DPath'[i] : i \in 1 .. n})
       /\ Len(uncertain') = k
       /\ \A i \in 1 .. k : uncertain'[i] = uncertain[i] /\ i \in 1 .. u
       /\ uncertain'[k] = q
  <2>1. {DPath'[i] : i \in 1 .. n} = {DPath[i] : i \in 1 .. n}
    BY <1>19
  <2>. DEFINE P == {DPath[i] : i \in 1 .. n}
  <2>2. uncertain \in Seq(P) /\ k \in 0 .. Len(uncertain)
    BY <1>6 DEF DInv, DStacks, n, u
  <2>. HIDE DEF P
  <2>3. /\ uncertain' \in Seq(P)
        /\ Len(uncertain') = k
        /\ \A i \in 1 .. k : uncertain'[i] = uncertain[i]
    BY <1>4, <2>2, PrefixLemma
  <2>4. \A i \in 1 .. k : i \in 1 .. u
    BY <1>6
  <2>5. k \in 1 .. k
    BY <1>6
  <2>. QED
    BY <2>1, <2>3, <2>4, <2>5 DEF P, q
<1>25. ASSUME NEW r \in W
       PROVE  \E j \in 1 .. k : Under(j, r)' /\ lo2[r] = preorder'[uncertain'[j]]
  <2>1. CASE preorder[q] <= preorder[r]
    <3>1. k \in 1 .. k /\ k + 1 .. k = {}
      BY <1>6
    <3>2. preorder'[uncertain'[k]] <= preorder'[r]
      BY <1>3, <1>24, <2>1
    <3>3. Under(k, r)'
      BY <1>24, <3>1, <3>2 DEF Under
    <3>. QED
      BY <1>3, <1>7, <1>24, <2>1, <3>1, <3>3
  <2>2. CASE ~ (preorder[q] <= preorder[r])
    <3>1. PICK j \in 1 .. u : Under(j, r) /\ lo[r] = preorder[uncertain[j]]
      BY <1>1
    <3>2. preorder[uncertain[j]] <= preorder[r]
      BY <3>1 DEF Under
    <3>3. j < k
      <4>. SUFFICES ASSUME ~ (j < k) PROVE FALSE
        OBVIOUS
      <4>1. j = k \/ k < j
        BY <1>6
      <4>2. preorder[q] <= preorder[uncertain[j]]
        BY <1>6, <1>8, <4>1 DEF q
      <4>. QED
        BY <1>2, <1>6, <1>8, <2>2, <3>2, <4>2
    <3>4. j \in 1 .. k /\ \A i \in j + 1 .. k : i \in 1 .. k /\ i \in j + 1 .. u
      BY <1>6, <3>3
    <3>5. preorder'[uncertain'[j]] = preorder[uncertain[j]]
      BY <1>3, <1>24, <3>4
    <3>6. \A i \in j + 1 .. k : preorder'[r] < preorder'[uncertain'[i]]
      <4>1. \A i \in j + 1 .. k : preorder[r] < preorder[uncertain[i]]
        BY <3>1, <3>4 DEF Under, u
      <4>. QED
        BY <1>3, <1>24, <3>4, <4>1
    <3>7. Under(j, r)'
      BY <1>3, <1>24, <3>2, <3>4, <3>5, <3>6 DEF Under
    <3>. QED
      BY <1>7, <2>2, <3>1, <3>4, <3>5, <3>7
  <2>. QED
    BY <2>1, <2>2
<1>26. DSearch(lo2)'
  <2>1. Search(G', preorder', lo2, Len(calls'), DPath', DTodo', Found')
    BY <1>3, <1>19, <1>22, <1>23
  <2>2. \A r \in Pending(preorder', Found') :
          \E j \in 1 .. Len(uncertain') :
            Under(j, r)' /\ lo2[r] = preorder'[uncertain'[j]]
    BY <1>3, <1>23, <1>24, <1>25
  <2>. QED
    BY <2>1, <2>2 DEF DSearch
<1>27. DStacks'
  <2>1. \A i, j \in 1 .. k :
          i < j => preorder'[uncertain'[i]] < preorder'[uncertain'[j]]
    BY <1>3, <1>6, <1>24
  <2>2. /\ unassigned' \in Seq(DOMAIN preorder')
        /\ \A i, j \in 1 .. Len(unassigned') :
             i < j => preorder'[unassigned'[i]] < preorder'[unassigned'[j]]
        /\ Pending(preorder', Found') \subseteq Range(unassigned')
    BY <1>3, <1>23 DEF DInv, DStacks
  <2>. QED
    BY <1>19, <1>24, <2>1, <2>2 DEF DStacks
<1>. QED
  BY <1>1, <1>3, <1>19, <1>23, <1>26, <1>27 DEF DInv

\* The stacks and the lows do not depend on what remains to be seen.
LEMMA DSameStacks ==
  ASSUME DInv, NEW lo, DSearch(lo),
         preorder' = preorder, unassigned' = unassigned, uncertain' = uncertain,
         edges' = edges, components' = components,
         \A i \in 1 .. Len(calls') : DPath'[i] = DPath[i],
         \A k \in 1 .. Len(uncertain) : \E i \in 1 .. Len(calls') : uncertain[k] = DPath[i],
         Search(G, preorder, lo, Len(calls'), DPath', DTodo', Found)
  PROVE  DStacks' /\ DSearch(lo)' /\ G' = G /\ Found' = Found /\ Fresh' = Fresh
<1>1. G' = G /\ Found' = Found /\ Fresh' = Fresh
  BY DEF G, Found, Fresh, Earlier
<1>2. DSearch(lo)'
  <2>1. \A k, r : Under(k, r)' <=> Under(k, r)
    BY DEF Under
  <2>2. \A r \in Pending(preorder, Found) :
          \E k \in 1 .. Len(uncertain) : Under(k, r) /\ lo[r] = preorder[uncertain[k]]
    BY DEF DSearch
  <2>3. \A r \in Pending(preorder', Found') :
          \E k \in 1 .. Len(uncertain') : Under(k, r)' /\ lo[r] = preorder'[uncertain'[k]]
    BY <1>1, <2>1, <2>2
  <2>4. Search(G', preorder', lo, Len(calls'), DPath', DTodo', Found')
    BY <1>1
  <2>. QED
    BY <2>3, <2>4 DEF DSearch
<1>3. uncertain \in Seq({DPath'[i] : i \in 1 .. Len(calls')})
  <2>. DEFINE P == {DPath[i] : i \in 1 .. Len(calls)}
              P2 == {DPath'[i] : i \in 1 .. Len(calls')}
  <2>1. \A k \in 1 .. Len(uncertain) : uncertain[k] \in P2
    OBVIOUS
  <2>2. uncertain \in Seq(P)
    BY DEF DInv, DStacks
  <2>. HIDE DEF P, P2
  <2>3. Len(uncertain) \in Nat /\ uncertain \in [1 .. Len(uncertain) -> P]
    BY <2>2, SeqLemma
  <2>4. uncertain \in [1 .. Len(uncertain) -> P2]
    BY <2>1, <2>3
  <2>5. uncertain \in Seq(P2)
    BY <2>3, <2>4, IsSeqLemma
  <2>. QED
    BY <2>5 DEF P2
<1>4. DStacks'
  BY <1>1, <1>3 DEF DInv, DStacks
<1>. QED
  BY <1>1, <1>2, <1>4

\* Cross: the destination is in a finished component.
LEMMA DCrossStep ==
  ASSUME IsFiniteSet(State), DInv, NEW s \in State, D!Cross(s)
  PROVE  DInv' /\ edges' = edges /\ components' = components
<1>. DEFINE n == Len(calls)
<1>0. PICK lo : DSearch(lo)
  BY DEF DInv
<1>1. /\ Search(G, preorder, lo, n, DPath, DTodo, Found)
      /\ DOMAIN component = Found
  BY <1>0 DEF DInv, DSearch
<1>2. /\ calls # <<>>
      /\ s \in D!top.todo /\ s \in DOMAIN component
      /\ calls' = D!Seeing(s)
      /\ edges' = edges /\ preorder' = preorder /\ unassigned' = unassigned
      /\ component' = component /\ components' = components
      /\ uncertain' = uncertain
  BY DEF D!Cross
<1>3. /\ n # 0 /\ n \in 1 .. n /\ s \in DTodo[n]
      /\ Found \subseteq DOMAIN preorder
      /\ DPath[n] \in Pending(preorder, Found)
  BY <1>2, DPathLemma
<1>4. /\ calls' \in Seq(DFrame) /\ Len(calls') = n
      /\ \A i \in 1 .. n :
            /\ DPath'[i] = DPath[i]
            /\ DTodo'[i] = IF i = n THEN DTodo[i] \ {s} ELSE DTodo[i]
  BY <1>2, DSeeingPath DEF n
<1>. HIDE DEF n
<1>5. Lowers(Found, preorder, lo, n, DPath, DTodo, s, lo, DTodo')
  <2>1. lo[DPath[n]] \in Nat
    BY <1>1, <1>3 DEF Search, WayBack
  <2>2. s \notin Pending(preorder, Found) /\ s \in DOMAIN preorder
    BY <1>1, <1>2, <1>3 DEF Pending
  <2>3. lo[DPath[n]] <= lo[DPath[n]]
    BY <2>1
  <2>4. \A i \in 1 .. n : DTodo'[i] = IF i = n THEN DTodo[i] \ {s} ELSE DTodo[i]
    BY <1>4
  <2>. HIDE DEF G, Found, DPath, DTodo
  <2>5. s \in DTodo[n]
    BY <1>3
  <2>. QED
    BY <1>3, <2>2, <2>3, <2>4, <2>5 DEF Lowers
<1>6. Search(G, preorder, lo, n, DPath, DTodo', Found)
  BY <1>1, <1>5, LowerLemma
<1>7. Search(G, preorder, lo, n, DPath', DTodo', Found)
  <2>1. SamePath(Found, preorder, lo, n, DPath, DTodo', lo, DPath', DTodo')
    BY <1>4 DEF SamePath
  <2>. QED
    BY <1>6, <2>1, SearchSame
<1>8. \A k \in 1 .. Len(uncertain) : \E i \in 1 .. n : uncertain[k] = DPath[i]
  BY DStacksLemma DEF n
<1>9. DStacks' /\ DSearch(lo)' /\ G' = G /\ Found' = Found /\ Fresh' = Fresh
  BY <1>0, <1>2, <1>4, <1>7, <1>8, DSameStacks
<1>. QED
  BY <1>2, <1>4, <1>9 DEF DInv

\* The end of a state.
LEMMA DFrontPath ==
  ASSUME IsFiniteSet(State), DInv, calls # <<>>, calls' = Front(calls)
  PROVE  /\ calls' \in Seq(DFrame) /\ Len(calls') = Len(calls) - 1
         /\ \A i \in 1 .. Len(calls) - 1 :
              DPath'[i] = DPath[i] /\ DTodo'[i] = DTodo[i]
<1>1. /\ calls' \in Seq(DFrame) /\ Len(calls') = Len(calls) - 1
      /\ \A i \in 1 .. Len(calls) - 1 : calls'[i] = calls[i]
  BY FrontLemma DEF DInv
<1>2. Len(calls) \in Nat /\ \A i \in 1 .. Len(calls) - 1 : i \in 1 .. Len(calls)
  BY DPathLemma
<1>. QED
  BY <1>1, <1>2 DEF DPath, DTodo

\* Finish: the youngest uncertain state is an ancestor's, so the parent has
\* the same.
LEMMA DFinishStep ==
  ASSUME IsFiniteSet(State), DInv, D!Finish
  PROVE  DInv' /\ edges' = edges /\ components' = components
<1>. DEFINE n == Len(calls)
            u == Len(uncertain)
            p == D!top.state
            W == Pending(preorder, Found)
<1>0. PICK lo : DSearch(lo)
  BY DEF DInv
<1>1. /\ Search(G, preorder, lo, n, DPath, DTodo, Found)
      /\ \A r \in W : \E j \in 1 .. u : Under(j, r) /\ lo[r] = preorder[uncertain[j]]
  BY <1>0 DEF DInv, DSearch
<1>2. /\ calls # <<>> /\ D!top.todo = {}
      /\ uncertain[u] # p
      /\ calls' = Front(calls)
      /\ edges' = edges /\ preorder' = preorder /\ unassigned' = unassigned
      /\ component' = component /\ components' = components
      /\ uncertain' = uncertain
  BY DEF D!Finish, D!Last, D!Front, Front
<1>3. /\ n \in Nat /\ n # 0 /\ n \in 1 .. n
      /\ DPath[n] = p /\ DTodo[n] = {}
      /\ \A i \in 1 .. n : DPath[i] \in W /\ preorder[DPath[i]] <= preorder[DPath[n]]
      /\ \A i, j \in 1 .. n : i < j => preorder[DPath[i]] < preorder[DPath[j]]
      /\ \A r, t \in DOMAIN preorder : preorder[r] = preorder[t] => r = t
      /\ W \subseteq DOMAIN preorder
      /\ \A r \in W : preorder[r] \in Nat
  BY <1>2, DPathLemma DEF Pending
<1>4. /\ u \in Nat
      /\ \A i \in 1 .. u :
           /\ uncertain[i] \in W
           /\ preorder[uncertain[i]] \in Nat
           /\ \E j \in 1 .. n : uncertain[i] = DPath[j]
      /\ \A i, j \in 1 .. u : i < j => preorder[uncertain[i]] < preorder[uncertain[j]]
  BY DStacksLemma
<1>5. /\ calls' \in Seq(DFrame) /\ Len(calls') = n - 1
      /\ \A i \in 1 .. n - 1 : DPath'[i] = DPath[i] /\ DTodo'[i] = DTodo[i]
  BY <1>2, DFrontPath
<1>. HIDE DEF n, u, p
<1>6. \A i \in 1 .. u : preorder[uncertain[i]] <= preorder[p]
  BY <1>3, <1>4
<1>7. \A i \in 1 .. u : uncertain[i] # p
  <2>. SUFFICES ASSUME NEW i \in 1 .. u, uncertain[i] = p PROVE FALSE
    OBVIOUS
  <2>1. i < u /\ u \in 1 .. u
    BY <1>2, <1>4
  <2>2. preorder[p] < preorder[uncertain[u]]
    BY <1>4, <2>1
  <2>. QED
    BY <1>3, <1>4, <1>6, <2>1, <2>2
<1>8. \A k \in 1 .. u : \E i \in 1 .. n - 1 : uncertain[k] = DPath[i]
  <2>. SUFFICES ASSUME NEW k \in 1 .. u
                PROVE  \E i \in 1 .. n - 1 : uncertain[k] = DPath[i]
    OBVIOUS
  <2>1. PICK i \in 1 .. n : uncertain[k] = DPath[i]
    BY <1>4
  <2>2. i # n
    BY <1>3, <1>7, <2>1
  <2>3. i \in 1 .. n - 1
    BY <1>3, <2>2
  <2>. QED
    BY <2>1, <2>3
<1>9. PICK k \in 1 .. u : Under(k, p) /\ lo[p] = preorder[uncertain[k]]
  BY <1>1, <1>3
<1>10. lo[p] # preorder[p]
  <2>1. uncertain[k] # p /\ uncertain[k] \in DOMAIN preorder /\ p \in DOMAIN preorder
    BY <1>3, <1>4, <1>7
  <2>. QED
    BY <1>3, <1>9, <2>1
<1>11. ASSUME n # 1
       PROVE  ~ (lo[p] < lo[DPath[n - 1]])
  <2>1. n - 1 \in 1 .. n /\ n - 1 \in 1 .. n - 1 /\ DPath[n - 1] \in W
    BY <1>3, <1>11
  <2>2. PICK j \in 1 .. u : /\ Under(j, DPath[n - 1])
                            /\ lo[DPath[n - 1]] = preorder[uncertain[j]]
    BY <1>1, <2>1
  <2>3. ~ (k < j)
    <3>. SUFFICES ASSUME k < j PROVE FALSE
      OBVIOUS
    <3>1. j \in k + 1 .. u
      BY <1>4
    <3>2. preorder[p] < preorder[uncertain[j]]
      BY <1>9, <3>1 DEF Under, u
    <3>. QED
      BY <1>3, <1>4, <1>6, <3>2
  <2>4. k = j \/ j < k
    BY <1>4, <2>3
  <2>. QED
    BY <1>4, <1>9, <2>2, <2>4
<1>12. Departs(Found, preorder, lo, n, DPath, DTodo, lo)
  BY <1>3, <1>10, <1>11 DEF Departs
<1>13. Search(G, preorder, lo, n - 1, DPath, DTodo, Found)
  BY <1>1, <1>12, FinishLemma
<1>14. Search(G, preorder, lo, n - 1, DPath', DTodo', Found)
  <2>1. SamePath(Found, preorder, lo, n - 1, DPath, DTodo, lo, DPath', DTodo')
    BY <1>5 DEF SamePath
  <2>. QED
    BY <1>13, <2>1, SearchSame
<1>15. DStacks' /\ DSearch(lo)' /\ G' = G /\ Found' = Found /\ Fresh' = Fresh
  BY <1>0, <1>2, <1>5, <1>8, <1>14, DSameStacks DEF u
<1>. QED
  BY <1>2, <1>5, <1>15 DEF DInv

\* A component adds to the earlier ones what they do not have.
LEMMA DFreshLemma ==
  ASSUME components \in Seq(SUBSET State), NEW S \in SUBSET State,
         NEW C \in SUBSET State, \A r : r \in C <=> r \in S /\ r \notin Found,
         components' = Append(components, S)
  PROVE  /\ components' \in Seq(SUBSET State)
         /\ Found' = Found \union S
         /\ Fresh' = Append(Fresh, C)
         /\ UNION Range(Fresh') = (UNION Range(Fresh)) \union C
<1>. DEFINE l == Len(components)
            next == Append(components, S)
<1>a. PICK m : m = l + 1
  OBVIOUS
<1>1. /\ l \in Nat /\ DOMAIN components = 1 .. l
      /\ \A i \in 1 .. l : components[i] \in SUBSET State
  BY SeqLemma
<1>2. /\ next \in Seq(SUBSET State)
      /\ Len(next) = m
      /\ \A i \in 1 .. l : next[i] = components[i]
      /\ next[m] = S
      /\ Range(next) = Range(components) \union {S}
  BY <1>a, AppendLemma
<1>3. /\ components' \in Seq(SUBSET State)
      /\ DOMAIN components' = 1 .. m
      /\ \A i \in 1 .. l : components'[i] = components[i]
      /\ components'[m] = S
  BY <1>2, SeqLemma
<1>b. \A R, e : UNION (R \union {e}) = (UNION R) \union e
  OBVIOUS
<1>4. Found' = Found \union S
  <2>1. components' = next
    OBVIOUS
  <2>2. UNION Range(next) = (UNION Range(components)) \union S
    <3>. HIDE DEF next
    <3>. QED
      BY <1>2, <1>b, Zenon
  <2>. QED
    BY <2>1, <2>2, Zenon DEF Found
<1>. HIDE DEF l, next
<1>5. /\ 1 .. m = (1 .. l) \union {m} /\ m \notin 1 .. l /\ m \in Nat
      /\ \A i \in 1 .. m : \A j \in 1 .. i - 1 : j \in 1 .. l
      /\ 1 .. m - 1 = 1 .. l
  BY <1>1, <1>a
<1>6. \A i \in 1 .. m : Earlier(i)' = Earlier(i)
  <2>. SUFFICES ASSUME NEW i \in 1 .. m
                PROVE  Earlier(i)' = Earlier(i)
    OBVIOUS
  <2>1. \A j \in 1 .. i - 1 : components'[j] = components[j]
    BY <1>3, <1>5
  <2>2. {components'[j] : j \in 1 .. i - 1} = {components[j] : j \in 1 .. i - 1}
    BY <2>1
  <2>. QED
    BY <2>2, Zenon DEF Earlier
<1>7. Earlier(m) = Found
  BY <1>1, <1>5 DEF Earlier, Found, Range
<1>8. Fresh \in [1 .. l -> SUBSET State]
  BY <1>1 DEF Fresh
<1>9. Fresh \in Seq(SUBSET State) /\ Len(Fresh) = l
  BY <1>1, <1>8, IsSeqLemma
<1>10. C = S \ Found
  OBVIOUS
<1>11. /\ Append(Fresh, C) \in Seq(SUBSET State)
       /\ Len(Append(Fresh, C)) = m
       /\ \A i \in 1 .. l : Append(Fresh, C)[i] = Fresh[i]
       /\ Append(Fresh, C)[m] = C
       /\ Range(Append(Fresh, C)) = Range(Fresh) \union {C}
  BY <1>9, <1>a, AppendLemma
<1>12. Append(Fresh, C) \in [1 .. m -> SUBSET State]
  BY <1>11, SeqLemma
<1>13. Fresh' = [i \in 1 .. m |-> components'[i] \ Earlier(i)']
  BY <1>3 DEF Fresh
<1>14. \A i \in 1 .. m : Fresh'[i] = Append(Fresh, C)[i]
  <2>1. \A i \in 1 .. l : Fresh[i] = components[i] \ Earlier(i)
    BY <1>1 DEF Fresh
  <2>2. \A i \in 1 .. m : Fresh'[i] = components'[i] \ Earlier(i)
    BY <1>6, <1>13
  <2>3. ASSUME NEW i \in 1 .. l PROVE Fresh'[i] = Append(Fresh, C)[i]
    <3>1. i \in 1 .. m
      BY <1>5
    <3>2. components'[i] = components[i] /\ Append(Fresh, C)[i] = Fresh[i]
      BY <1>3, <1>11
    <3>3. Earlier(i)' = Earlier(i)
      BY <1>6, <3>1
    <3>4. Fresh[i] = components[i] \ Earlier(i)
      BY <2>1
    <3>5. Fresh'[i] = components'[i] \ Earlier(i)
      BY <2>2, <3>1
    <3>. QED
      BY <3>2, <3>4, <3>5
  <2>4. Fresh'[m] = Append(Fresh, C)[m]
    <3>1. m \in 1 .. m
      BY <1>5
    <3>. QED
      BY <1>3, <1>7, <1>10, <1>11, <2>2, <3>1
  <2>. QED
    BY <1>5, <2>3, <2>4
<1>15. Fresh' = Append(Fresh, C)
  <2>. HIDE DEF Fresh
  <2>1. DOMAIN Fresh' = 1 .. m
    BY <1>13
  <2>2. Fresh' = [i \in DOMAIN Fresh' |-> Fresh'[i]]
    BY <1>13
  <2>. QED
    BY <1>12, <1>14, <2>1, <2>2
<1>16. UNION Range(Append(Fresh, C)) = (UNION Range(Fresh)) \union C
  BY <1>11, <1>b, Zenon
<1>. QED
  BY <1>3, <1>4, <1>15, <1>16

\* What is moved out of unassigned_, but the roots that were left there: the
\* pending states that are not older than the root; and what stays there.
LEMMA DCutLemma ==
  ASSUME IsFiniteSet(State), DInv, NEW p \in Pending(preorder, Found),
         NEW k \in DOMAIN unassigned, unassigned[k] = p
  PROVE  /\ Above(unassigned, k) \in SUBSET State
         /\ Above(unassigned, k) \ Found = NotOlder(preorder, Found, p)
         /\ \A r \in Pending(preorder, Found) :
              preorder[r] < preorder[p] => \E j \in 1 .. k : unassigned[j] = r
<1>. DEFINE l == Len(unassigned)
<1>1. /\ l \in Nat /\ DOMAIN unassigned = 1 .. l
      /\ \A j \in 1 .. l :
           unassigned[j] \in DOMAIN preorder /\ preorder[unassigned[j]] \in Nat
      /\ \A s \in Pending(preorder, Found) : \E j \in 1 .. l : unassigned[j] = s
  BY DStacksLemma
<1>2. \A i, j \in 1 .. l : i < j => preorder[unassigned[i]] < preorder[unassigned[j]]
  BY DEF DInv, DStacks
<1>3. /\ DOMAIN preorder \subseteq State
      /\ preorder[p] \in Nat
  <2>1. p \in DOMAIN preorder
    BY DEF Pending
  <2>. QED
    BY <2>1, DPathLemma
<1>. HIDE DEF l
<1>4. k \in 1 .. l /\ unassigned[k] = p
  BY <1>1
<1>5. \A j \in 1 .. l : preorder[p] <= preorder[unassigned[j]] <=> k <= j
  <2>. SUFFICES ASSUME NEW j \in 1 .. l
                PROVE  preorder[p] <= preorder[unassigned[j]] <=> k <= j
    OBVIOUS
  <2>1. k = j \/ k < j \/ j < k
    BY <1>1, <1>4
  <2>2. k < j => preorder[p] < preorder[unassigned[j]]
    BY <1>2, <1>4
  <2>3. j < k => preorder[unassigned[j]] < preorder[p]
    BY <1>2, <1>4
  <2>. QED
    BY <1>1, <1>3, <1>4, <2>1, <2>2, <2>3
<1>6. Above(unassigned, k) = {unassigned[j] : j \in k .. l}
  BY DEF Above, l
<1>7. \A j \in k .. l : j \in 1 .. l /\ k <= j
  BY <1>1, <1>4
<1>8. ASSUME NEW r \in Above(unassigned, k)
      PROVE  r \in DOMAIN preorder /\ preorder[p] <= preorder[r]
  BY <1>1, <1>5, <1>6, <1>7
<1>9. ASSUME NEW r \in Pending(preorder, Found), preorder[p] <= preorder[r]
      PROVE  r \in Above(unassigned, k)
  <2>1. PICK j \in 1 .. l : unassigned[j] = r
    BY <1>1
  <2>2. k <= j
    BY <1>5, <1>9, <2>1
  <2>3. j \in k .. l
    BY <1>1, <1>4, <2>2
  <2>. QED
    BY <1>6, <2>1, <2>3
<1>10. Above(unassigned, k) \ Found = NotOlder(preorder, Found, p)
  BY <1>8, <1>9 DEF NotOlder, Pending
<1>11. ASSUME NEW r \in Pending(preorder, Found), preorder[r] < preorder[p]
       PROVE  \E j \in 1 .. k : unassigned[j] = r
  <2>1. PICK j \in 1 .. l : unassigned[j] = r
    BY <1>1
  <2>2. ~ (preorder[p] <= preorder[unassigned[j]])
    BY <1>1, <1>3, <1>11, <2>1
  <2>3. ~ (k <= j)
    BY <1>5, <2>2
  <2>4. j \in 1 .. k
    BY <1>1, <1>4, <2>3
  <2>. QED
    BY <2>1, <2>4
<1>12. Above(unassigned, k) \in SUBSET State
  BY <1>3, <1>8
<1>. QED
  BY <1>10, <1>11, <1>12

\* Emit: the youngest uncertain state ends, and its component has all that is
\* pending and not older.
LEMMA DEmitStep ==
  ASSUME IsFiniteSet(State), DInv, D!Emit
  PROVE  /\ DInv' /\ edges' = edges
         /\ \E C \in SUBSET State :
              /\ Fresh' = Append(Fresh, C)
              /\ C = Component(G, D!top.state) /\ D!top.state \in C
              /\ D!top.state \in State
              /\ C \intersect Found = {}
              /\ AllSuccessors(G, C) \subseteq C \union Found
<1>. DEFINE n == Len(calls)
            u == Len(uncertain)
            p == D!top.state
            W == Pending(preorder, Found)
            l == Len(unassigned)
<1>0. PICK lo : DSearch(lo)
  BY DEF DInv
<1>a. PICK k : k = D!RootAt
  OBVIOUS
<1>b. PICK C : C = NotOlder(preorder, Found, p)
  OBVIOUS
<1>c. PICK F2 : F2 = Found \union C
  OBVIOUS
<1>d. PICK S : S = Above(unassigned, k)
  OBVIOUS
<1>1. /\ Search(G, preorder, lo, n, DPath, DTodo, Found)
      /\ \A r \in W : \E j \in 1 .. u : Under(j, r) /\ lo[r] = preorder[uncertain[j]]
      /\ components \in Seq(SUBSET State)
      /\ DOMAIN component = Found
      /\ UNION Range(Fresh) = Found
  BY <1>0 DEF DInv, DSearch
<1>2. /\ calls # <<>> /\ D!top.todo = {}
      /\ uncertain[u] = p
      /\ calls' = Front(calls)
      /\ edges' = edges /\ preorder' = preorder
      /\ uncertain' = Front(uncertain)
      /\ unassigned' = SubSeq(unassigned, 1, k)
      /\ components' = Append(components, S)
      /\ DOMAIN component' = S \union DOMAIN component
  <2>1. D!scc = S
    BY <1>a, <1>d DEF D!scc, Above
  <2>. QED
    BY <1>a, <2>1 DEF D!Emit, D!Last, D!Front, Front
<1>3. /\ n \in Nat /\ n # 0 /\ n \in 1 .. n
      /\ DPath[n] = p /\ DTodo[n] = {} /\ p \in State
      /\ \A i \in 1 .. n : DPath[i] \in W /\ preorder[DPath[i]] <= preorder[DPath[n]]
      /\ \A r \in W : preorder[r] \in Nat
      /\ DOMAIN preorder \subseteq State
  BY <1>2, DPathLemma DEF Pending
<1>4. /\ u \in Nat
      /\ \A i \in 1 .. u :
           /\ uncertain[i] \in W
           /\ preorder[uncertain[i]] \in Nat
           /\ \E j \in 1 .. n : uncertain[i] = DPath[j]
      /\ \A i, j \in 1 .. u : i < j => preorder[uncertain[i]] < preorder[uncertain[j]]
  BY DStacksLemma
<1>5. /\ k \in 1 .. l
      /\ S \in SUBSET State
      /\ S \ Found = C
      /\ \A r \in W : preorder[r] < preorder[p] => \E j \in 1 .. k : unassigned[j] = r
  <2>1. k = CHOOSE i \in DOMAIN unassigned : unassigned[i] = p
    BY <1>a DEF D!RootAt
  <2>2. p \in W
    BY <1>3
  <2>3. /\ DOMAIN unassigned = 1 .. l
        /\ \A r \in W : \E j \in 1 .. l : unassigned[j] = r
    BY DStacksLemma
  <2>. HIDE DEF p, W, l
  <2>4. k \in DOMAIN unassigned /\ unassigned[k] = p
    BY <2>1, <2>2, <2>3
  <2>5. /\ Above(unassigned, k) \in SUBSET State
        /\ Above(unassigned, k) \ Found = NotOlder(preorder, Found, p)
        /\ \A r \in W : preorder[r] < preorder[p] => \E j \in 1 .. k : unassigned[j] = r
    BY <2>2, <2>4, DCutLemma DEF W
  <2>. QED
    BY <1>b, <1>d, <2>3, <2>4, <2>5
<1>6. /\ calls' \in Seq(DFrame) /\ Len(calls') = n - 1
      /\ \A i \in 1 .. n - 1 : DPath'[i] = DPath[i] /\ DTodo'[i] = DTodo[i]
  BY <1>2, DFrontPath
<1>. HIDE DEF n, u, p, W, l
<1>7. p \in W /\ preorder[p] \in Nat
  BY <1>3
<1>8. lo[p] = preorder[p] /\ u \in 1 .. u
  <2>1. PICK j \in 1 .. u : Under(j, p) /\ lo[p] = preorder[uncertain[j]]
    BY <1>1, <1>7
  <2>2. u \in 1 .. u
    BY <1>4
  <2>3. ~ (j < u)
    <3>. SUFFICES ASSUME j < u PROVE FALSE
      OBVIOUS
    <3>1. u \in j + 1 .. u
      BY <1>4
    <3>2. preorder[p] < preorder[uncertain[u]]
      BY <2>1, <3>1 DEF Under, u
    <3>. QED
      BY <1>2, <1>7, <3>2
  <2>4. j = u
    BY <1>4, <2>3
  <2>. QED
    BY <1>2, <2>1, <2>2, <2>4
<1>9. Ends(preorder, lo, n, DPath, DTodo, Found, p, C, F2)
  BY <1>b, <1>c, <1>3, <1>8 DEF Ends
<1>10. /\ Search(G, preorder, lo, n - 1, DPath, DTodo, F2)
       /\ \A r \in Pending(preorder, F2) : preorder[r] < preorder[p]
       /\ p \in C
       /\ C = Component(G, p)
       /\ C \intersect Found = {}
       /\ AllSuccessors(G, C) \subseteq C \union Found
  BY <1>1, <1>9, EmitLemma
<1>11. /\ C \in SUBSET State
       /\ \A r : r \in C <=> r \in S /\ r \notin Found
  BY <1>5
<1>12. /\ components' \in Seq(SUBSET State)
       /\ Found' = Found \union S
       /\ Fresh' = Append(Fresh, C)
       /\ UNION Range(Fresh') = (UNION Range(Fresh)) \union C
  <2>1. components \in Seq(SUBSET State) /\ components' = Append(components, S)
    BY <1>1, <1>2
  <2>. QED
    BY <1>5, <1>11, <2>1, DFreshLemma
<1>13. /\ Found' = F2
       /\ UNION Range(Fresh') = F2
       /\ DOMAIN component' = F2
       /\ G' = G
  <2>1. Found \union S = F2
    BY <1>c, <1>5
  <2>. QED
    BY <1>c, <1>1, <1>2, <1>12, <2>1 DEF G
<1>14. /\ Pending(preorder, F2) \subseteq W
       /\ \A r \in Pending(preorder, F2) : preorder[r] < preorder[p] /\ preorder[r] \in Nat
  BY <1>c, <1>3, <1>10 DEF Pending, W
<1>15. Search(G, preorder, lo, n - 1, DPath', DTodo', F2)
  <2>1. SamePath(F2, preorder, lo, n - 1, DPath, DTodo, lo, DPath', DTodo')
    BY <1>6 DEF SamePath
  <2>. QED
    BY <1>10, <2>1, SearchSame
<1>16. /\ Len(uncertain') = u - 1
       /\ \A i \in 1 .. u - 1 : uncertain'[i] = uncertain[i]
       /\ \A i \in 1 .. u - 1 : i \in 1 .. u /\ i < u
       /\ u - 1 \in Nat
       /\ uncertain' \in [1 .. u - 1 -> W]
  <2>. DEFINE P == {DPath[i] : i \in 1 .. Len(calls)}
  <2>1. uncertain \in Seq(P)
    BY DEF DInv, DStacks
  <2>. HIDE DEF P
  <2>2. uncertain # <<>>
    <3>1. uncertain = <<>> => u = 0
      BY <2>1, SeqLemma DEF u
    <3>. QED
      BY <1>8, <3>1
  <2>3. /\ uncertain' \in Seq(P)
        /\ Len(uncertain') = u - 1
        /\ \A i \in 1 .. u - 1 : uncertain'[i] = uncertain[i]
    BY <1>2, <2>1, <2>2, FrontLemma DEF u
  <2>4. uncertain' \in [1 .. u - 1 -> P]
    BY <2>3, SeqLemma
  <2>5. P \subseteq W
    BY <1>3 DEF P, n
  <2>6. uncertain' \in [1 .. u - 1 -> W]
    BY <2>4, <2>5
  <2>7. u \in Nat
    BY <1>4
  <2>8. u - 1 \in Nat /\ \A i \in 1 .. u - 1 : i \in 1 .. u /\ i < u
    BY <1>8, <2>7
  <2>. QED
    BY <2>3, <2>6, <2>8
<1>17. \A j \in 1 .. u - 1 : \E i \in 1 .. n - 1 : uncertain'[j] = DPath'[i]
  <2>. SUFFICES ASSUME NEW j \in 1 .. u - 1
                PROVE  \E i \in 1 .. n - 1 : uncertain'[j] = DPath'[i]
    OBVIOUS
  <2>1. j \in 1 .. u /\ j < u /\ uncertain'[j] = uncertain[j]
    BY <1>16
  <2>2. preorder[uncertain[j]] < preorder[p] /\ preorder[uncertain[j]] \in Nat
    BY <1>2, <1>4, <1>8, <2>1
  <2>3. PICK i \in 1 .. n : uncertain[j] = DPath[i]
    BY <1>4, <2>1
  <2>4. i # n
    BY <1>3, <1>7, <2>2, <2>3
  <2>5. i \in 1 .. n - 1
    BY <1>3, <2>4
  <2>. QED
    BY <1>6, <2>1, <2>3, <2>5
<1>18. uncertain' \in Seq({DPath'[i] : i \in 1 .. Len(calls')})
  <2>. DEFINE P == {DPath'[i] : i \in 1 .. Len(calls')}
  <2>1. \A j \in 1 .. u - 1 : uncertain'[j] \in P
    BY <1>6, <1>17
  <2>. HIDE DEF P
  <2>2. uncertain' \in [1 .. u - 1 -> P]
    BY <1>16, <2>1
  <2>3. uncertain' \in Seq(P)
    BY <1>16, <2>2, IsSeqLemma
  <2>. QED
    BY <2>3 DEF P
<1>19. /\ unassigned' \in Seq(DOMAIN preorder)
       /\ Len(unassigned') = k
       /\ \A j \in 1 .. k : unassigned'[j] = unassigned[j] /\ j \in 1 .. l
       /\ Range(unassigned') = {unassigned[j] : j \in 1 .. k}
  <2>1. unassigned \in Seq(DOMAIN preorder) /\ l \in Nat
    BY DStacksLemma DEF DInv, DStacks, l
  <2>2. k \in 0 .. Len(unassigned) /\ \A j \in 1 .. k : j \in 1 .. l
    BY <1>5, <2>1 DEF l
  <2>3. /\ unassigned' \in Seq(DOMAIN preorder)
        /\ Len(unassigned') = k
        /\ \A j \in 1 .. k : unassigned'[j] = unassigned[j]
        /\ Range(unassigned') = {unassigned[j] : j \in 1 .. k}
    BY <1>2, <2>1, <2>2, PrefixLemma
  <2>. QED
    BY <2>2, <2>3
<1>20. DStacks'
  <2>1. \A i, j \in 1 .. Len(uncertain') :
          i < j => preorder'[uncertain'[i]] < preorder'[uncertain'[j]]
    <3>1. \A i, j \in 1 .. u - 1 :
            i < j => preorder[uncertain[i]] < preorder[uncertain[j]]
      BY <1>4, <1>16
    <3>2. \A i \in 1 .. Len(uncertain') : i \in 1 .. u - 1 /\ uncertain'[i] = uncertain[i]
      BY <1>16
    <3>. QED
      BY <1>2, <3>1, <3>2
  <2>2. \A i, j \in 1 .. l : i < j => preorder[unassigned[i]] < preorder[unassigned[j]]
    BY DEF DInv, DStacks, l
  <2>3. \A i, j \in 1 .. Len(unassigned') :
          i < j => preorder'[unassigned'[i]] < preorder'[unassigned'[j]]
    BY <1>2, <1>19, <2>2
  <2>4. Pending(preorder', Found') \subseteq Range(unassigned')
    BY <1>2, <1>5, <1>13, <1>14, <1>19
  <2>5. unassigned' \in Seq(DOMAIN preorder')
    BY <1>2, <1>19
  <2>. QED
    BY <1>18, <2>1, <2>3, <2>4, <2>5 DEF DStacks
<1>21. ASSUME NEW r \in Pending(preorder, F2)
       PROVE  \E j \in 1 .. u - 1 : Under(j, r)' /\ lo[r] = preorder'[uncertain'[j]]
  <2>1. r \in W /\ preorder[r] < preorder[p] /\ preorder[r] \in Nat
    BY <1>14
  <2>2. PICK j \in 1 .. u : Under(j, r) /\ lo[r] = preorder[uncertain[j]]
    BY <1>1, <2>1
  <2>3. preorder[uncertain[j]] <= preorder[r]
    BY <2>2 DEF Under
  <2>4. j # u
    BY <1>2, <1>7, <2>1, <2>3
  <2>5. j \in 1 .. u - 1 /\ \A i \in j + 1 .. u - 1 : i \in 1 .. u - 1 /\ i \in j + 1 .. u
    BY <1>4, <2>4
  <2>6. preorder'[uncertain'[j]] = preorder[uncertain[j]]
    BY <1>2, <1>16, <2>5
  <2>7. \A i \in j + 1 .. u - 1 : preorder'[r] < preorder'[uncertain'[i]]
    <3>1. \A i \in j + 1 .. u : preorder[r] < preorder[uncertain[i]]
      BY <2>2 DEF Under, u
    <3>. QED
      BY <1>2, <1>16, <2>5, <3>1
  <2>8. Under(j, r)'
    BY <1>2, <1>16, <2>3, <2>5, <2>6, <2>7 DEF Under
  <2>. QED
    BY <2>2, <2>5, <2>6, <2>8
<1>22. DSearch(lo)'
  <2>1. Search(G', preorder', lo, Len(calls'), DPath', DTodo', Found')
    BY <1>2, <1>6, <1>13, <1>15
  <2>2. \A r \in Pending(preorder', Found') :
          \E j \in 1 .. Len(uncertain') :
            Under(j, r)' /\ lo[r] = preorder'[uncertain'[j]]
    BY <1>2, <1>13, <1>16, <1>21
  <2>. QED
    BY <2>1, <2>2 DEF DSearch
<1>23. DInv'
  <2>. HIDE DEF G, Found, DPath, DTodo, Fresh, DStacks, DSearch
  <2>. QED
    BY <1>6, <1>12, <1>13, <1>20, <1>22 DEF DInv
<1>. QED
  BY <1>2, <1>3, <1>10, <1>11, <1>12, <1>23 DEF p

-----------------------------------------------------------------------------
(* kosaraju_tag.                                                           *)

\* The search path is the stack of calls.
KFrame == [state : State, todo : SUBSET State]
KPath == [i \in 1 .. Len(calls) |-> calls[i].state]
KTodo == [i \in 1 .. Len(calls) |-> calls[i].todo]

\* The components that are done, and the one that is under construction.
KReady == SubSeq(components, 1, num)
\* The states of those that are done.
KFound == UNION Range(KReady)
\* The states of the other one.
KCurrent == IF calls = <<>> THEN {} ELSE components[num + 1]

\* The first search records states; the second one takes what they say.
KInv ==
  /\ edges \subseteq State \X State
  /\ calls \in Seq(KFrame)
  /\ \/ /\ pass = "transpose"
        /\ components = <<>> /\ num = 0
        /\ Post(Transpose(G), marked, Len(calls), KPath, KTodo, todo)
     \/ /\ pass = "components"
        /\ components \in Seq(SUBSET State)
        /\ num \in Nat
        /\ Len(components) = IF calls = <<>> THEN num ELSE num + 1
        /\ marked = KFound \union KCurrent
        /\ Sweep(G, KFound, KCurrent, Len(calls), KPath, KTodo)
        /\ Ahead(G, marked, todo)

\* What the invariant says of the search path.
LEMMA KPathLemma ==
  ASSUME KInv
  PROVE  /\ Len(calls) \in Nat
         /\ calls # <<>> =>
              /\ Len(calls) # 0 /\ Len(calls) \in 1 .. Len(calls)
              /\ KPath[Len(calls)] = K!top.state
              /\ KTodo[Len(calls)] = K!top.todo
              /\ K!top.state \in State
         /\ calls = <<>> => Len(calls) = 0
<1>1. /\ Len(calls) \in Nat
      /\ \A i \in 1 .. Len(calls) : calls[i] \in KFrame
      /\ calls # <<>> =>
           Len(calls) # 0 /\ Len(calls) \in 1 .. Len(calls)
      /\ calls = <<>> => Len(calls) = 0
  BY SeqLemma DEF KInv
<1>. QED
  BY <1>1 DEF KPath, KTodo, K!top, K!Last, KFrame

\* The end of a call.
LEMMA KFrontPath ==
  ASSUME KInv, calls # <<>>, calls' = Front(calls)
  PROVE  /\ calls' \in Seq(KFrame) /\ Len(calls') = Len(calls) - 1
         /\ \A i \in 1 .. Len(calls) - 1 :
              KPath'[i] = KPath[i] /\ KTodo'[i] = KTodo[i]
         /\ calls' = <<>> <=> Len(calls) = 1
<1>1. /\ calls' \in Seq(KFrame) /\ Len(calls') = Len(calls) - 1
      /\ \A i \in 1 .. Len(calls) - 1 : calls'[i] = calls[i]
  BY FrontLemma DEF KInv
<1>2. Len(calls) \in Nat /\ \A i \in 1 .. Len(calls) - 1 : i \in 1 .. Len(calls)
  BY KPathLemma
<1>3. Len(calls') = 0 <=> calls' = <<>>
  BY <1>1, SeqLemma
<1>. QED
  BY <1>1, <1>2, <1>3 DEF KPath, KTodo

\* The entry of a call that takes its destination s from the caller, if any.
LEMMA KEnterPath ==
  ASSUME KInv, NEW s \in State, NEW H, H = K!Searched,
         \/ /\ calls = <<>> /\ K!Enter(s, <<>>)
         \/ /\ calls # <<>>
            /\ K!Enter(s, [calls EXCEPT ![Len(calls)].todo = @ \ {s}])
  PROVE  /\ calls' \in Seq(KFrame) /\ calls' # <<>>
         /\ Len(calls') = Len(calls) + 1
         /\ \A i \in 1 .. Len(calls) :
              /\ KPath'[i] = KPath[i]
              /\ KTodo'[i] = IF i = Len(calls) THEN KTodo[i] \ {s} ELSE KTodo[i]
         /\ KPath'[Len(calls) + 1] = s
         /\ KTodo'[Len(calls) + 1] = Successors(H, s)
<1>. DEFINE n == Len(calls)
            new == [state |-> s, todo |-> K!Successors(H, s)]
            seeing == [calls EXCEPT ![Len(calls)].todo = @ \ {s}]
<1>1. /\ n \in Nat
      /\ calls \in [1 .. n -> KFrame]
      /\ calls \in Seq(KFrame)
      /\ \A i \in 1 .. n : calls[i] \in KFrame
      /\ calls # <<>> => n \in 1 .. n
      /\ calls = <<>> => n = 0
  BY SeqLemma DEF KInv
<1>2. new \in KFrame /\ new.state = s /\ new.todo = Successors(H, s)
  <2>1. K!Successors(H, s) = Successors(H, s)
    BY DEF K!Successors, Successors
  <2>2. H.node = State
    BY DEF K!Searched, K!Digraph, K!Transpose
  <2>3. Successors(H, s) \subseteq State
    BY <2>2 DEF Successors
  <2>. QED
    BY <2>1, <2>3 DEF KFrame
<1>3. PICK callers \in Seq(KFrame) :
        /\ Len(callers) = n
        /\ \A i \in 1 .. n :
             /\ callers[i].state = calls[i].state
             /\ callers[i].todo = IF i = n THEN calls[i].todo \ {s} ELSE calls[i].todo
        /\ calls' = Append(callers, new)
  <2>1. CASE calls = <<>> /\ K!Enter(s, <<>>)
    <3>1. calls' = Append(calls, new) /\ n = 0
      BY <1>1, <2>1 DEF K!Enter
    <3>2. \A i \in 1 .. n : FALSE
      BY <3>1
    <3>. HIDE DEF new, n
    <3>. QED
      BY <1>1, <3>1, <3>2
  <2>2. CASE calls # <<>> /\ K!Enter(s, seeing)
    <3>1. calls' = Append(seeing, new)
      BY <2>2 DEF K!Enter
    <3>2. seeing \in [1 .. n -> KFrame]
      BY <1>1, <2>2 DEF KFrame
    <3>3. seeing \in Seq(KFrame) /\ Len(seeing) = n
      BY <1>1, <3>2, IsSeqLemma
    <3>4. \A i \in 1 .. n :
            /\ seeing[i].state = calls[i].state
            /\ seeing[i].todo = IF i = n THEN calls[i].todo \ {s} ELSE calls[i].todo
      BY <1>1, <2>2 DEF KFrame
    <3>. HIDE DEF seeing, new
    <3>. QED
      BY <3>1, <3>3, <3>4
  <2>. QED
    BY <2>1, <2>2
<1>. HIDE DEF n, new
<1>4. /\ calls' \in Seq(KFrame) /\ calls' # <<>>
      /\ Len(calls') = n + 1
      /\ \A i \in 1 .. n : calls'[i] = callers[i]
      /\ calls'[n + 1] = new
  BY <1>2, <1>3, AppendLemma
<1>5. \A i \in 1 .. n : i \in 1 .. n + 1
  BY <1>1
<1>6. n + 1 \in 1 .. n + 1
  BY <1>1
<1>. QED
  BY <1>2, <1>3, <1>4, <1>5, <1>6 DEF KPath, KTodo, n

\* The components that are done are the first ones.
LEMMA KDoneLemma ==
  ASSUME components \in Seq(SUBSET State), num \in 0 .. Len(components)
  PROVE  /\ KReady \in Seq(SUBSET State) /\ Len(KReady) = num
         /\ \A i \in 1 .. num : KReady[i] = components[i]
         /\ Range(KReady) = {components[i] : i \in 1 .. num}
BY PrefixLemma DEF KReady

\* They do not change with the last one.
LEMMA KReadyLemma ==
  ASSUME components \in Seq(SUBSET State), num \in Nat, num' = num,
         components' \in Seq(SUBSET State),
         num <= Len(components), num <= Len(components'),
         \A i \in 1 .. num : components'[i] = components[i]
  PROVE  KReady' = KReady /\ KFound' = KFound
<1>1. /\ KReady \in Seq(SUBSET State) /\ Len(KReady) = num
      /\ \A i \in 1 .. num : KReady[i] = components[i]
  <2>1. num \in 0 .. Len(components)
    BY SeqLemma
  <2>. QED
    BY <2>1, KDoneLemma
<1>2. /\ KReady' \in Seq(SUBSET State) /\ Len(KReady') = num
      /\ \A i \in 1 .. num : KReady'[i] = components'[i]
  <2>1. num \in 0 .. Len(components')
    BY SeqLemma
  <2>2. KReady' = SubSeq(components', 1, num)
    BY DEF KReady
  <2>. QED
    BY <2>1, <2>2, PrefixLemma
<1>3. KReady' = KReady
  <2>. HIDE DEF KReady
  <2>1. \A i \in 1 .. Len(KReady) : KReady[i] = KReady'[i]
    BY <1>1, <1>2
  <2>. QED
    BY <1>1, <1>2, <2>1, SeqEqual
<1>. QED
  BY <1>3 DEF KFound

\* RootTranspose and Call in the first search.
LEMMA KMarkStep ==
  ASSUME KInv, NEW s \in State, pass = "transpose", K!RootTranspose(s) \/ K!Call(s)
  PROVE  KInv' /\ edges' = edges /\ KReady' = KReady
<1>. DEFINE n == Len(calls)
<1>1. /\ Post(Transpose(G), marked, n, KPath, KTodo, todo)
      /\ components = <<>> /\ num = 0
      /\ edges \subseteq State \X State
  BY DEF KInv
<1>2. /\ s \notin marked /\ (calls = <<>> \/ s \in K!top.todo)
      /\ \/ calls = <<>> /\ K!Enter(s, <<>>)
         \/ calls # <<>> /\ K!Enter(s, [calls EXCEPT ![Len(calls)].todo = @ \ {s}])
      /\ todo' = todo /\ num' = num
  BY DEF K!RootTranspose, K!Call
<1>3. /\ marked' = marked \union {s} /\ edges' = edges /\ pass' = pass
      /\ components' = components
  BY <1>2 DEF K!Enter
<1>4. n = 0 \/ s \in KTodo[n]
  BY <1>2, KPathLemma
<1>5. K!Searched = Transpose(G)
  BY DEF K!Searched, K!Digraph, G, K!Transpose, Transpose
<1>6. /\ calls' \in Seq(KFrame) /\ calls' # <<>>
      /\ Len(calls') = n + 1
      /\ \A i \in 1 .. n :
           /\ KPath'[i] = KPath[i]
           /\ KTodo'[i] = IF i = n THEN KTodo[i] \ {s} ELSE KTodo[i]
      /\ KPath'[n + 1] = s
      /\ KTodo'[n + 1] = Successors(Transpose(G), s)
  BY <1>2, <1>5, KEnterPath
<1>. HIDE DEF n
<1>7. Marks(Transpose(G), marked, n, KPath, KTodo, s, marked', KPath', KTodo')
  <2>1. s \in Transpose(G).node
    BY DEF Transpose, G
  <2>. HIDE DEF KPath, KTodo
  <2>. QED
    BY <1>2, <1>3, <1>4, <1>6, <2>1 DEF Marks
<1>8. Post(Transpose(G), marked', n + 1, KPath', KTodo', todo)
  BY <1>1, <1>7, MarkLemma DEF n
<1>9. Post(Transpose(G'), marked', Len(calls'), KPath', KTodo', todo')
  <2>1. G' = G
    BY <1>3 DEF G
  <2>. QED
    BY <1>2, <1>6, <1>8, <2>1
<1>10. KReady' = KReady
  BY <1>2, <1>3 DEF KReady
<1>. QED
  BY <1>1, <1>2, <1>3, <1>6, <1>9, <1>10 DEF KInv

\* ReturnTranspose.
LEMMA KRecordStep ==
  ASSUME KInv, K!ReturnTranspose
  PROVE  KInv' /\ edges' = edges /\ KReady' = KReady
<1>. DEFINE n == Len(calls)
            p == K!top.state
<1>1. /\ pass = "transpose" /\ calls # <<>> /\ K!top.todo \subseteq marked
      /\ calls' = Front(calls)
      /\ todo' = Append(todo, p)
      /\ edges' = edges /\ pass' = pass /\ marked' = marked
      /\ num' = num /\ components' = components
  BY DEF K!ReturnTranspose, K!Front, Front
<1>2. /\ Post(Transpose(G), marked, n, KPath, KTodo, todo)
      /\ components = <<>> /\ num = 0
      /\ edges \subseteq State \X State
  BY <1>1 DEF KInv
<1>3. /\ n \in Nat /\ n # 0 /\ KPath[n] = p /\ KTodo[n] = K!top.todo
      /\ p \in State
  BY <1>1, KPathLemma
<1>4. /\ calls' \in Seq(KFrame) /\ Len(calls') = n - 1
      /\ \A i \in 1 .. n - 1 : KPath'[i] = KPath[i] /\ KTodo'[i] = KTodo[i]
  BY <1>1, KFrontPath
<1>. HIDE DEF n, p
<1>5. todo \in Seq(State)
  BY <1>2 DEF Post, Transpose, G
<1>6. /\ todo' \in Seq(State)
      /\ Len(todo') = Len(todo) + 1
      /\ \A i \in 1 .. Len(todo) : todo'[i] = todo[i]
      /\ todo'[Len(todo) + 1] = p
  BY <1>1, <1>3, <1>5, AppendLemma
<1>7. Records(marked, n, KPath, KTodo, todo, todo')
  BY <1>1, <1>3, <1>6 DEF Records
<1>8. Post(Transpose(G), marked, n - 1, KPath, KTodo, todo')
  <2>1. todo' \in Seq(Transpose(G).node)
    BY <1>6 DEF Transpose, G
  <2>. QED
    BY <1>2, <1>7, <2>1, RecordLemma DEF n
<1>9. Post(Transpose(G), marked, n - 1, KPath', KTodo', todo')
  BY <1>4, <1>8, PostSame
<1>10. Post(Transpose(G'), marked', Len(calls'), KPath', KTodo', todo')
  <2>1. G' = G
    BY <1>1 DEF G
  <2>. QED
    BY <1>1, <1>4, <1>9, <2>1
<1>11. KReady' = KReady
  BY <1>1 DEF KReady
<1>. QED
  BY <1>1, <1>2, <1>4, <1>10, <1>11 DEF KInv

\* Nothing is done before the first component.
LEMMA KNothingLemma ==
  ASSUME components = <<>>, num = 0
  PROVE  KReady = <<>> /\ KFound = {}
<1>1. <<>> \in Seq(SUBSET State) /\ 0 \in 0 .. Len(<<>>) /\ 1 .. 0 = {}
  OBVIOUS
<1>2. Len(KReady) = 0 /\ KReady \in Seq(SUBSET State) /\ Range(KReady) = {}
  <2>1. components \in Seq(SUBSET State) /\ num \in 0 .. Len(components) /\ 1 .. num = {}
    BY <1>1
  <2>2. /\ KReady \in Seq(SUBSET State) /\ Len(KReady) = num
        /\ Range(KReady) = {components[i] : i \in 1 .. num}
    BY <2>1, KDoneLemma
  <2>3. {components[i] : i \in 1 .. num} = {}
    BY <2>1
  <2>. QED
    BY <2>2, <2>3
<1>3. KReady = <<>>
  BY <1>2, EmptySeq
<1>. QED
  BY <1>2, <1>3 DEF KFound

\* Turn.
LEMMA KTurnStep ==
  ASSUME KInv, K!Turn
  PROVE  KInv' /\ edges' = edges /\ KReady' = KReady
<1>1. /\ pass = "transpose" /\ calls = <<>> /\ marked = State
      /\ pass' = "components" /\ marked' = {}
      /\ edges' = edges /\ calls' = calls /\ todo' = todo
      /\ num' = num /\ components' = components
  BY DEF K!Turn
<1>2. /\ Post(Transpose(G), State, 0, KPath, KTodo, todo)
      /\ components = <<>> /\ num = 0
      /\ edges \subseteq State \X State
      /\ calls \in Seq(KFrame)
      /\ Len(calls) = 0
  BY <1>1, KPathLemma DEF KInv
<1>3. Ahead(G, {}, todo)
  <2>1. G.node = State /\ G.edge = edges
    BY DEF G
  <2>2. G.edge \subseteq G.node \X G.node
    BY <1>2, <2>1
  <2>3. Post(Transpose(G), G.node, 0, KPath, KTodo, todo)
    BY <1>2, <2>1
  <2>. QED
    BY <2>2, <2>3, TurnLemma
<1>4. KReady = <<>> /\ KFound = {} /\ KReady' = KReady /\ KFound' = {}
  <2>1. KReady = <<>> /\ KFound = {}
    BY <1>2, KNothingLemma
  <2>2. KReady' = KReady
    BY <1>1 DEF KReady
  <2>. QED
    BY <2>1, <2>2 DEF KFound
<1>5. G' = G /\ KCurrent' = {}
  BY <1>1 DEF G, KCurrent
<1>6. Sweep(G, {}, {}, 0, KPath', KTodo')
  BY SweepInit
<1>7. components' \in Seq(SUBSET State) /\ Len(components') = 0
  BY <1>1, <1>2
<1>8. /\ Sweep(G', KFound', KCurrent', Len(calls'), KPath', KTodo')
      /\ Ahead(G', marked', todo')
      /\ marked' = KFound' \union KCurrent'
  <2>1. Sweep(G', KFound', KCurrent', Len(calls'), KPath', KTodo')
    BY <1>1, <1>2, <1>4, <1>5, <1>6
  <2>2. Ahead(G', marked', todo')
    BY <1>1, <1>3, <1>5
  <2>. QED
    BY <1>1, <1>4, <1>5, <2>1, <2>2
<1>. QED
  BY <1>1, <1>2, <1>4, <1>7, <1>8 DEF KInv

\* What the second search knows.
LEMMA KSweepLemma ==
  ASSUME KInv, pass = "components"
  PROVE  /\ edges \subseteq State \X State
         /\ calls \in Seq(KFrame)
         /\ components \in Seq(SUBSET State)
         /\ num \in Nat /\ num <= Len(components)
         /\ Len(components) \in Nat
         /\ \A i \in 1 .. Len(components) : components[i] \in SUBSET State
         /\ calls = <<>> => Len(components) = num
         /\ calls # <<>> => Len(components) = num + 1
         /\ marked = KFound \union KCurrent
         /\ Sweep(G, KFound, KCurrent, Len(calls), KPath, KTodo)
         /\ Ahead(G, marked, todo)
         /\ todo \in Seq(State)
<1>1. /\ edges \subseteq State \X State
      /\ calls \in Seq(KFrame)
      /\ components \in Seq(SUBSET State)
      /\ num \in Nat
      /\ Len(components) = IF calls = <<>> THEN num ELSE num + 1
      /\ marked = KFound \union KCurrent
      /\ Sweep(G, KFound, KCurrent, Len(calls), KPath, KTodo)
      /\ Ahead(G, marked, todo)
  BY DEF KInv
<1>2. /\ Len(components) \in Nat
      /\ \A i \in 1 .. Len(components) : components[i] \in SUBSET State
  BY <1>1, SeqLemma
<1>3. todo \in Seq(State)
  BY <1>1 DEF Ahead, G
<1>4. num <= Len(components)
  BY <1>1
<1>. QED
  BY <1>1, <1>2, <1>3, <1>4

\* Skip.
LEMMA KSkipStep ==
  ASSUME KInv, K!Skip
  PROVE  KInv' /\ edges' = edges /\ KReady' = KReady
<1>1. /\ pass = "components" /\ calls = <<>>
      /\ todo # <<>> /\ todo[Len(todo)] \in marked
      /\ todo' = Front(todo)
      /\ edges' = edges /\ pass' = pass /\ marked' = marked
      /\ calls' = calls /\ num' = num /\ components' = components
  BY DEF K!Skip, K!Last, K!Front, Front
<1>2. Ahead(G, marked, todo')
  BY <1>1, KSweepLemma, AheadPopLemma
<1>3. /\ KReady' = KReady /\ KFound' = KFound /\ KCurrent' = KCurrent /\ G' = G
      /\ KPath' = KPath /\ KTodo' = KTodo
  BY <1>1 DEF KReady, KFound, KCurrent, G, KPath, KTodo
<1>4. /\ Sweep(G', KFound', KCurrent', Len(calls'), KPath', KTodo')
      /\ Ahead(G', marked', todo')
      /\ marked' = KFound' \union KCurrent'
  BY <1>1, <1>2, <1>3, KSweepLemma
<1>. QED
  BY <1>1, <1>3, <1>4, KSweepLemma DEF KInv

\* The root that the second search takes leads only to marked states and to
\* those that lead to it.
LEMMA KBottomLemma ==
  ASSUME KInv, pass = "components", calls = <<>>, todo # <<>>,
         NEW s, s = todo[Len(todo)], s \notin marked
  PROVE  /\ s \in State
         /\ \A t \in State : Reaches(G, s, t) => t \in marked \/ Reaches(G, t, s)
<1>1. /\ Ahead(G, marked, todo)
      /\ marked = KFound
      /\ Sweep(G, KFound, KCurrent, 0, KPath, KTodo)
      /\ todo \in Seq(State)
  <2>1. KCurrent = {} /\ Len(calls) = 0
    BY KPathLemma DEF KCurrent
  <2>. QED
    BY <2>1, KSweepLemma
<1>2. marked \subseteq G.node /\ Closed(G, marked)
  BY <1>1 DEF Sweep
<1>3. G.node = State
  BY DEF G
<1>4. s \in State
  BY <1>1, SeqLemma
<1>. QED
  BY <1>1, <1>2, <1>3, <1>4, BottomLemma

\* Root.
LEMMA KRootStep ==
  ASSUME KInv, K!Root
  PROVE  KInv' /\ edges' = edges /\ KReady' = KReady
<1>a. PICK s : s = todo[Len(todo)]
  OBVIOUS
<1>b. PICK C : C = {s}
  OBVIOUS
<1>1. /\ pass = "components" /\ calls = <<>>
      /\ todo # <<>> /\ s \notin marked
      /\ todo' = Front(todo)
      /\ num' = num
      /\ K!Enter(s, <<>>)
  BY <1>a DEF K!Root, K!Last, K!Front, Front
<1>2. /\ components \in Seq(SUBSET State)
      /\ num \in Nat /\ Len(components) = num
      /\ edges \subseteq State \X State
      /\ KCurrent = {} /\ marked = KFound /\ Len(calls) = 0
      /\ Sweep(G, KFound, KCurrent, 0, KPath, KTodo)
      /\ Ahead(G, marked, todo)
  <2>1. KCurrent = {} /\ Len(calls) = 0
    BY <1>1, KPathLemma DEF KCurrent
  <2>. QED
    BY <1>1, <2>1, KSweepLemma
<1>3. /\ s \in State
      /\ \A t \in State : Reaches(G, s, t) => t \in marked \/ Reaches(G, t, s)
  BY <1>1, <1>a, KBottomLemma
<1>4. /\ marked' = marked \union C /\ edges' = edges /\ pass' = pass
      /\ components' = Append(components, C)
  <2>1. components' = IF pass = "transpose" THEN components ELSE K!Grown(s)
    BY <1>1 DEF K!Enter
  <2>2. K!Grown(s) = Append(components, C)
    BY <1>2, <1>b DEF K!Grown
  <2>3. marked' = marked \union {s} /\ edges' = edges /\ pass' = pass
    BY <1>1 DEF K!Enter
  <2>. QED
    BY <1>1, <1>b, <2>1, <2>2, <2>3
<1>5. C \in SUBSET State /\ s \in C
  BY <1>3, <1>b
<1>6. /\ components' \in Seq(SUBSET State)
      /\ Len(components') = num + 1
      /\ \A i \in 1 .. num : components'[i] = components[i]
      /\ components'[num + 1] = C
  BY <1>2, <1>4, <1>5, AppendLemma
<1>7. KReady' = KReady /\ KFound' = KFound
  <2>1. num <= Len(components) /\ num <= Len(components')
    BY <1>2, <1>6
  <2>. QED
    BY <1>1, <1>2, <1>6, <2>1, KReadyLemma
<1>8. K!Searched = G
  BY <1>1 DEF K!Searched, K!Digraph, G
<1>9. /\ calls' \in Seq(KFrame) /\ calls' # <<>>
      /\ Len(calls') = 1
      /\ KPath'[1] = s
      /\ KTodo'[1] = Successors(G, s)
  BY <1>1, <1>2, <1>3, <1>8, KEnterPath
<1>10. KCurrent' = C /\ G' = G
  BY <1>1, <1>4, <1>6, <1>9 DEF KCurrent, G
<1>11. Sets(G, KFound, KPath', KTodo', s)
  <2>1. G.node = State
    BY DEF G
  <2>. HIDE DEF KPath, KTodo
  <2>. QED
    BY <1>1, <1>2, <1>3, <1>9, <2>1 DEF Sets
<1>12. Sweep(G, KFound, C, 1, KPath', KTodo')
  BY <1>2, <1>11, <1>b, SweepRootLemma
<1>13. Sweep(G', KFound', KCurrent', Len(calls'), KPath', KTodo')
  BY <1>7, <1>9, <1>10, <1>12
<1>14. Ahead(G', marked', todo')
  <2>1. Ahead(G, marked', todo)
    <3>1. marked \subseteq marked'
      BY <1>4
    <3>. QED
      BY <1>2, <3>1, AheadMarkLemma
  <2>2. todo[Len(todo)] \in marked'
    BY <1>4, <1>5, <1>a
  <2>3. Ahead(G, marked', Front(todo))
    BY <1>1, <2>1, <2>2, AheadPopLemma
  <2>. QED
    BY <1>1, <1>10, <2>3
<1>15. marked' = KFound' \union KCurrent'
  BY <1>2, <1>4, <1>7, <1>10
<1>16. Len(components') = IF calls' = <<>> THEN num' ELSE num' + 1
  BY <1>1, <1>6, <1>9
<1>. QED
  BY <1>1, <1>2, <1>4, <1>6, <1>7, <1>9, <1>13, <1>14, <1>15, <1>16 DEF KInv

\* Call in the second search.
LEMMA KCallStep ==
  ASSUME KInv, NEW s \in State, pass = "components", K!Call(s)
  PROVE  KInv' /\ edges' = edges /\ KReady' = KReady
<1>. DEFINE n == Len(calls)
<1>a. PICK C : C = KCurrent \union {s}
  OBVIOUS
<1>1. /\ calls # <<>> /\ s \notin marked /\ s \in K!top.todo
      /\ K!Enter(s, [calls EXCEPT ![Len(calls)].todo = @ \ {s}])
      /\ todo' = todo /\ num' = num
  BY DEF K!Call
<1>2. /\ components \in Seq(SUBSET State)
      /\ num \in Nat /\ Len(components) = num + 1
      /\ \A i \in 1 .. num + 1 : components[i] \in SUBSET State
      /\ edges \subseteq State \X State
      /\ marked = KFound \union KCurrent
      /\ Sweep(G, KFound, KCurrent, n, KPath, KTodo)
      /\ Ahead(G, marked, todo)
  BY <1>1, KSweepLemma
<1>3. num + 1 \in 1 .. num + 1 /\ \A i \in 1 .. num : i \in 1 .. num + 1 /\ i # num + 1
  BY <1>2
<1>4. KCurrent = components[num + 1] /\ C \in SUBSET State
  BY <1>1, <1>2, <1>3, <1>a DEF KCurrent
<1>5. /\ marked' = marked \union {s} /\ edges' = edges /\ pass' = pass
      /\ components' = [components EXCEPT ![num + 1] = C]
  <2>1. components' = IF pass = "transpose" THEN components ELSE K!Grown(s)
    BY <1>1 DEF K!Enter
  <2>2. num # Len(components)
    BY <1>2
  <2>3. K!Grown(s) = [components EXCEPT ![num + 1] = components[num + 1] \union {s}]
    BY <2>2 DEF K!Grown
  <2>4. marked' = marked \union {s} /\ edges' = edges /\ pass' = pass
    BY <1>1 DEF K!Enter
  <2>. QED
    BY <1>4, <1>a, <2>1, <2>3, <2>4
<1>6. /\ components' \in Seq(SUBSET State)
      /\ Len(components') = num + 1
      /\ \A i \in 1 .. num : components'[i] = components[i]
      /\ components'[num + 1] = C
  <2>1. components \in [1 .. num + 1 -> SUBSET State]
    BY <1>2, SeqLemma
  <2>2. components' \in [1 .. num + 1 -> SUBSET State]
    BY <1>4, <1>5, <2>1
  <2>3. components' \in Seq(SUBSET State) /\ Len(components') = num + 1
    <3>1. num + 1 \in Nat
      BY <1>2
    <3>. QED
      BY <2>2, <3>1, IsSeqLemma
  <2>. QED
    BY <1>3, <1>5, <2>1, <2>3
<1>7. KReady' = KReady /\ KFound' = KFound
  <2>1. num <= Len(components) /\ num <= Len(components')
    BY <1>2, <1>6
  <2>. QED
    BY <1>1, <1>2, <1>6, <2>1, KReadyLemma
<1>8. K!Searched = G
  BY DEF K!Searched, K!Digraph, G
<1>9. /\ calls' \in Seq(KFrame) /\ calls' # <<>>
      /\ Len(calls') = n + 1
      /\ \A i \in 1 .. n :
           /\ KPath'[i] = KPath[i]
           /\ KTodo'[i] = IF i = n THEN KTodo[i] \ {s} ELSE KTodo[i]
      /\ KPath'[n + 1] = s
      /\ KTodo'[n + 1] = Successors(G, s)
  BY <1>1, <1>8, KEnterPath
<1>10. n # 0 /\ s \in KTodo[n]
  BY <1>1, KPathLemma
<1>. HIDE DEF n
<1>11. KCurrent' = C /\ G' = G
  BY <1>1, <1>5, <1>6, <1>9 DEF KCurrent, G
<1>12. Marks(G, marked, n, KPath, KTodo, s, marked', KPath', KTodo')
  <2>1. s \in G.node
    BY DEF G
  <2>. HIDE DEF KPath, KTodo
  <2>. QED
    BY <1>1, <1>5, <1>9, <1>10, <2>1 DEF Marks
<1>13. Sweep(G, KFound, C, n + 1, KPath', KTodo') /\ marked' = KFound \union C
  <2>. HIDE DEF G, KFound, KCurrent, KPath, KTodo
  <2>1. Sweep(G, KFound, KCurrent, n, KPath, KTodo) /\ n # 0
    BY <1>2, <1>10
  <2>2. marked = KFound \union KCurrent
    BY <1>2
  <2>3. Grows(KFound, KCurrent, s, marked, C)
    BY <1>a, <2>2 DEF Grows
  <2>. QED
    BY <1>12, <2>1, <2>3, SweepMarkLemma
<1>14. Sweep(G', KFound', KCurrent', Len(calls'), KPath', KTodo')
  BY <1>7, <1>9, <1>11, <1>13
<1>15. Ahead(G', marked', todo')
  <2>1. marked \subseteq marked'
    BY <1>5
  <2>2. Ahead(G, marked', todo)
    BY <1>2, <2>1, AheadMarkLemma
  <2>. QED
    BY <1>1, <1>11, <2>2
<1>16. marked' = KFound' \union KCurrent'
  BY <1>7, <1>11, <1>13
<1>17. Len(components') = IF calls' = <<>> THEN num' ELSE num' + 1
  BY <1>1, <1>6, <1>9
<1>. QED
  BY <1>1, <1>2, <1>5, <1>6, <1>7, <1>9, <1>14, <1>15, <1>16, <1>17 DEF KInv

\* Return of a state that is no root.
LEMMA KReturnStep ==
  ASSUME KInv, K!Return, Len(calls) # 1
  PROVE  KInv' /\ edges' = edges /\ KReady' = KReady
<1>. DEFINE n == Len(calls)
<1>1. /\ pass = "components" /\ calls # <<>> /\ K!top.todo \subseteq marked
      /\ calls' = Front(calls)
      /\ num' = num
      /\ edges' = edges /\ pass' = pass /\ marked' = marked
      /\ todo' = todo /\ components' = components
  BY DEF K!Return, K!Front, Front
<1>2. /\ marked = KFound \union KCurrent
      /\ Sweep(G, KFound, KCurrent, n, KPath, KTodo)
  BY <1>1, KSweepLemma
<1>3. n # 0 /\ n # 1 /\ KTodo[n] \subseteq KFound \union KCurrent
  BY <1>1, <1>2, KPathLemma
<1>4. /\ calls' \in Seq(KFrame) /\ Len(calls') = n - 1
      /\ \A i \in 1 .. n - 1 : KPath'[i] = KPath[i] /\ KTodo'[i] = KTodo[i]
      /\ calls' # <<>>
  BY <1>1, KFrontPath
<1>. HIDE DEF n
<1>5. Sweep(G, KFound, KCurrent, n - 1, KPath, KTodo)
  BY <1>2, <1>3, SweepReturnLemma
<1>6. Sweep(G, KFound, KCurrent, n - 1, KPath', KTodo')
  BY <1>4, <1>5, SweepSame
<1>7. KReady' = KReady /\ KFound' = KFound /\ KCurrent' = KCurrent /\ G' = G
  BY <1>1, <1>4 DEF KReady, KFound, KCurrent, G
<1>8. Sweep(G', KFound', KCurrent', Len(calls'), KPath', KTodo')
  BY <1>4, <1>6, <1>7
<1>9. Ahead(G', marked', todo')
  BY <1>1, <1>7, KSweepLemma
<1>10. marked' = KFound' \union KCurrent'
  BY <1>1, <1>2, <1>7
<1>11. /\ edges' \subseteq State \X State
       /\ components' \in Seq(SUBSET State) /\ num' \in Nat
       /\ Len(components') = IF calls' = <<>> THEN num' ELSE num' + 1
  BY <1>1, <1>4, KSweepLemma
<1>. QED
  BY <1>1, <1>4, <1>7, <1>8, <1>9, <1>10, <1>11 DEF KInv

\* Return of the root: the component is done.
LEMMA KEndStep ==
  ASSUME KInv, K!Return, Len(calls) = 1
  PROVE  /\ KInv' /\ edges' = edges
         /\ \E C \in SUBSET State :
              /\ KReady' = Append(KReady, C)
              /\ C = Component(G, K!top.state) /\ K!top.state \in C
              /\ K!top.state \in State
              /\ C \intersect KFound = {}
              /\ AllSuccessors(G, C) \subseteq C \union KFound
<1>. DEFINE p == K!top.state
<1>a. PICK C : C = KCurrent
  OBVIOUS
<1>b. PICK A : A = KFound \union C
  OBVIOUS
<1>c. PICK m : m = num + 1
  OBVIOUS
<1>1. /\ pass = "components" /\ calls # <<>> /\ K!top.todo \subseteq marked
      /\ calls' = Front(calls)
      /\ num' = m
      /\ edges' = edges /\ pass' = pass /\ marked' = marked
      /\ todo' = todo /\ components' = components
  BY <1>c DEF K!Return, K!Front, Front
<1>2. /\ marked = A
      /\ Sweep(G, KFound, C, 1, KPath, KTodo)
      /\ components \in Seq(SUBSET State)
      /\ num \in Nat /\ Len(components) = m
      /\ edges \subseteq State \X State
      /\ Ahead(G, marked, todo)
  BY <1>1, <1>a, <1>b, <1>c, KSweepLemma
<1>3. KTodo[1] \subseteq KFound \union C /\ KPath[1] = p /\ p \in State
  <2>1. KPath[Len(calls)] = p /\ KTodo[Len(calls)] = K!top.todo /\ p \in State
    BY <1>1, KPathLemma
  <2>. HIDE DEF p, KPath, KTodo
  <2>. QED
    BY <1>1, <1>2, <1>b, <2>1
<1>4. calls' \in Seq(KFrame) /\ calls' = <<>> /\ Len(calls') = 0
  BY <1>1, KFrontPath
<1>. HIDE DEF p
<1>5. /\ Sweep(G, A, {}, 0, KPath', KTodo')
      /\ p \in C
      /\ C \subseteq G.node
      /\ C = Component(G, p)
      /\ C \intersect KFound = {}
      /\ AllSuccessors(G, C) \subseteq C \union KFound
  <2>1. /\ Sweep(G, A, {}, 0, KPath', KTodo')
        /\ KPath[1] \in C
        /\ C \subseteq G.node
        /\ C = Component(G, KPath[1])
        /\ C \intersect KFound = {}
        /\ AllSuccessors(G, C) \subseteq C \union KFound
    BY <1>2, <1>3, <1>b, SweepEndLemma
  <2>. QED
    BY <1>3, <2>1
<1>6. C \in SUBSET State /\ C = components[m]
  <2>1. C \in SUBSET State
    BY <1>5 DEF G
  <2>. QED
    BY <1>1, <1>a, <1>c, <2>1 DEF KCurrent
<1>7. /\ KReady \in Seq(SUBSET State) /\ Len(KReady) = num
      /\ \A i \in 1 .. num : KReady[i] = components[i]
  <2>1. num \in 0 .. Len(components)
    BY <1>2, <1>c
  <2>. QED
    BY <1>2, <2>1, KDoneLemma
<1>8. /\ KReady' \in Seq(SUBSET State) /\ Len(KReady') = m
      /\ \A i \in 1 .. m : KReady'[i] = components[i]
  <2>1. m \in 0 .. Len(components)
    BY <1>2, <1>c
  <2>2. KReady' = SubSeq(components, 1, m)
    BY <1>1 DEF KReady
  <2>. QED
    BY <1>2, <2>1, <2>2, PrefixLemma
<1>9. KReady' = Append(KReady, C)
  <2>. HIDE DEF KReady
  <2>1. /\ Append(KReady, C) \in Seq(SUBSET State)
        /\ Len(Append(KReady, C)) = m
        /\ \A i \in 1 .. num : Append(KReady, C)[i] = KReady[i]
        /\ Append(KReady, C)[m] = C
    BY <1>6, <1>7, <1>c, AppendLemma
  <2>2. 1 .. m = (1 .. num) \union {m}
    BY <1>2, <1>c
  <2>3. \A i \in 1 .. Len(KReady') : KReady'[i] = Append(KReady, C)[i]
    BY <1>6, <1>7, <1>8, <2>1, <2>2
  <2>. QED
    BY <1>8, <2>1, <2>3, SeqEqual
<1>10. KFound' = A
  <2>1. Range(KReady') = Range(KReady) \union {C}
    BY <1>6, <1>7, <1>9, AppendLemma
  <2>2. \A R, e : UNION (R \union {e}) = (UNION R) \union e
    OBVIOUS
  <2>. QED
    BY <1>b, <2>1, <2>2, Zenon DEF KFound
<1>11. KCurrent' = {} /\ G' = G
  BY <1>1, <1>4 DEF KCurrent, G
<1>12. Sweep(G', KFound', KCurrent', Len(calls'), KPath', KTodo')
  BY <1>4, <1>5, <1>10, <1>11
<1>13. Ahead(G', marked', todo')
  BY <1>1, <1>2, <1>11
<1>14. marked' = KFound' \union KCurrent'
  BY <1>1, <1>2, <1>10, <1>11
<1>15. /\ edges' \subseteq State \X State
       /\ components' \in Seq(SUBSET State) /\ num' \in Nat
       /\ Len(components') = IF calls' = <<>> THEN num' ELSE num' + 1
  BY <1>1, <1>2, <1>4, <1>c
<1>16. KInv'
  BY <1>1, <1>4, <1>12, <1>13, <1>14, <1>15 DEF KInv
<1>. QED
  BY <1>1, <1>3, <1>5, <1>6, <1>9, <1>16 DEF p

-----------------------------------------------------------------------------
(* All of them.                                                            *)

\* A sequence of components stays the same, or gets the next one.
Adds(q, q2) ==
  \/ q2 = q
  \/ \E C \in SUBSET State : \E s \in State :
       /\ q2 = Append(q, C)
       /\ C = Component(G, s) /\ s \in C
       /\ C \intersect UNION Range(q) = {}
       /\ AllSuccessors(G, C) \subseteq C \union UNION Range(q)

\* What is promised is what StrongComponents promises.
LEMMA AddsLemma ==
  ASSUME Adds(Ready, Ready'), edges' = edges
  PROVE  [Abstract!Next]_Abstract!vars
<1>1. CASE Ready' = Ready
  BY <1>1 DEF Abstract!vars
<1>2. CASE \E C \in SUBSET State : \E s \in State :
             /\ Ready' = Append(Ready, C)
             /\ C = Component(G, s) /\ s \in C
             /\ C \intersect UNION Range(Ready) = {}
             /\ AllSuccessors(G, C) \subseteq C \union UNION Range(Ready)
  <2>. HIDE DEF Ready
  <2>1. PICK C \in SUBSET State : \E s \in State :
             /\ Ready' = Append(Ready, C)
             /\ C = Component(G, s) /\ s \in C
             /\ C \intersect UNION Range(Ready) = {}
             /\ AllSuccessors(G, C) \subseteq C \union UNION Range(Ready)
    BY <1>2
  <2>2. PICK s \in State :
             /\ Ready' = Append(Ready, C)
             /\ C = Component(G, s) /\ s \in C
             /\ C \intersect UNION Range(Ready) = {}
             /\ AllSuccessors(G, C) \subseteq C \union UNION Range(Ready)
    BY <2>1
  <2>3. Abstract!Digraph = G
    BY DEF Abstract!Digraph, G
  <2>4. Abstract!Component(G, s) = Component(G, s)
    BY DEF Abstract!Component, Component, Abstract!Reaches, Reaches,
           Abstract!Closed, Closed, Abstract!Successors, Successors
  <2>5. Abstract!AllSuccessors(G, C) = AllSuccessors(G, C)
    BY DEF Abstract!AllSuccessors, AllSuccessors, Abstract!Successors, Successors
  <2>6. Abstract!Range(Ready) = Range(Ready)
    BY DEF Abstract!Range, Range
  <2>7. C \notin Range(Ready)
    BY <2>2
  <2>8. C \in Abstract!Sccs
    BY <2>2, <2>3, <2>4 DEF Abstract!Sccs
  <2>9. Abstract!Emit(C)
    BY <2>2, <2>3, <2>5, <2>6, <2>7 DEF Abstract!Emit
  <2>. QED
    BY <2>8, <2>9 DEF Abstract!Next
<1>. QED
  BY <1>1, <1>2 DEF Adds

\* tarjan_iterative_tag.
LEMMA TIStart ==
  ASSUME IsFiniteSet(State), TI!Init
  PROVE  TIInv
<1>1. /\ number = <<>> /\ low = <<>> /\ dfs_stack = <<>> /\ stack = <<>>
      /\ components = <<>>
  BY DEF TI!Init
<1>2. /\ DOMAIN <<>> = {} /\ Range(<<>>) = {} /\ Len(<<>>) = 0 /\ UNION {} = {}
      /\ \A S : <<>> \in Seq(S)
      /\ <<>> \in [{} -> Nat]
  BY DEF Range
<1>3. Found = {}
  BY <1>1, <1>2 DEF Found
<1>4. Search(G, number, low, Len(dfs_stack), TIPath, TITodo, Found)
  BY <1>1, <1>2, <1>3, SearchInit
<1>5. Stacked(number, Found, stack)
  BY <1>1, <1>2, <1>3 DEF Stacked, Pending
<1>. QED
  BY <1>1, <1>2, <1>3, <1>4, <1>5 DEF TIInv

\* Stuttering.
LEMMA TISame ==
  ASSUME TIInv, UNCHANGED TI!vars
  PROVE  TIInv'
<1>1. /\ edges' = edges /\ number' = number /\ low' = low /\ dfs_stack' = dfs_stack
      /\ stack' = stack /\ components' = components
  BY DEF TI!vars
<1>2. G' = G /\ Found' = Found /\ TIPath' = TIPath /\ TITodo' = TITodo
  BY <1>1 DEF G, Found, TIPath, TITodo
<1>. QED
  BY <1>1, <1>2 DEF TIInv

\* Every step.
LEMMA TIStep ==
  ASSUME IsFiniteSet(State), TIInv, TI!Next
  PROVE  TIInv' /\ edges' = edges /\ Adds(components, components')
<1>1. CASE \E s \in State : TI!Root(s) \/ TI!Tree(s) \/ TI!NonTree(s)
  BY <1>1, TIVisitStep, TINonTreeStep DEF Adds
<1>2. CASE TI!Finish
  BY <1>2, TIFinishStep DEF Adds
<1>3. CASE TI!Emit
  BY <1>3, TIEmitStep DEF Adds, Found
<1>4. CASE TI!Done
  BY <1>4, TISame DEF TI!Done, TI!vars, Adds
<1>. QED
  BY <1>1, <1>2, <1>3, <1>4 DEF TI!Next

\* tarjan_recursive_tag.
LEMMA TRStart ==
  ASSUME IsFiniteSet(State), TR!Init
  PROVE  TRInv
<1>1. /\ low = <<>> /\ calls = <<>> /\ stack = <<>> /\ components = <<>>
  BY DEF TR!Init
<1>2. /\ DOMAIN <<>> = {} /\ Range(<<>>) = {} /\ Len(<<>>) = 0 /\ UNION {} = {}
      /\ \A S : <<>> \in Seq(S)
      /\ <<>> \in [{} -> Nat]
  BY DEF Range
<1>3. Found = {}
  BY <1>1, <1>2 DEF Found
<1>4. Search(G, <<>>, <<>>, Len(calls), TRPath, TRTodo, Found)
  BY <1>1, <1>2, <1>3, SearchInit
<1>5. Stacked(<<>>, Found, stack)
  BY <1>1, <1>2, <1>3 DEF Stacked, Pending
<1>6. TRHistory(<<>>, <<>>)
  BY <1>1, <1>2, <1>3, <1>4, <1>5 DEF TRHistory, Pending
<1>. QED
  BY <1>6 DEF TRInv

\* Stuttering.
LEMMA TRSame ==
  ASSUME TRInv, UNCHANGED TR!vars
  PROVE  TRInv'
<1>1. /\ edges' = edges /\ low' = low /\ calls' = calls
      /\ stack' = stack /\ components' = components
  BY DEF TR!vars
<1>2. G' = G /\ Found' = Found /\ TRPath' = TRPath /\ TRTodo' = TRTodo
  BY <1>1 DEF G, Found, TRPath, TRTodo
<1>3. PICK visit, lo : TRHistory(visit, lo)
  BY DEF TRInv
<1>4. TRHistory(visit, lo)'
  BY <1>1, <1>2, <1>3 DEF TRHistory
<1>. QED
  BY <1>4 DEF TRInv

\* Every step.
LEMMA TRStep ==
  ASSUME IsFiniteSet(State), TRInv, TR!Next
  PROVE  TRInv' /\ edges' = edges /\ Adds(components, components')
<1>1. CASE \E s \in State : TR!Root(s) \/ TR!Call(s) \/ TR!Compare(s)
  BY <1>1, TRVisitStep, TRCompareStep DEF Adds
<1>2. CASE TR!Finish
  BY <1>2, TRFinishStep DEF Adds
<1>3. CASE TR!Emit
  BY <1>3, TREmitStep DEF Adds, Found
<1>4. CASE TR!Done
  BY <1>4, TRSame DEF TR!Done, TR!vars, Adds
<1>. QED
  BY <1>1, <1>2, <1>3, <1>4 DEF TR!Next

\* kosaraju_tag.
LEMMA KStart ==
  ASSUME K!Init
  PROVE  KInv
<1>1. /\ edges \in Relations
      /\ pass = "transpose" /\ marked = {} /\ calls = <<>> /\ todo = <<>>
      /\ num = 0 /\ components = <<>>
  BY DEF K!Init
<1>2. edges \subseteq State \X State
  BY <1>1, RelationsAssumption
<1>3. Len(calls) = 0 /\ calls \in Seq(KFrame)
  BY <1>1
<1>4. Post(Transpose(G), {}, 0, KPath, KTodo, <<>>)
  BY PostInit
<1>5. Post(Transpose(G), marked, Len(calls), KPath, KTodo, todo)
  BY <1>1, <1>3, <1>4
<1>. QED
  BY <1>1, <1>2, <1>3, <1>5 DEF KInv

\* Stuttering.
LEMMA KSame ==
  ASSUME KInv, UNCHANGED K!vars
  PROVE  KInv'
<1>1. /\ edges' = edges /\ pass' = pass /\ marked' = marked /\ calls' = calls
      /\ todo' = todo /\ num' = num /\ components' = components
  BY DEF K!vars
<1>2. /\ G' = G /\ KPath' = KPath /\ KTodo' = KTodo
      /\ KReady' = KReady /\ KFound' = KFound /\ KCurrent' = KCurrent
  BY <1>1 DEF G, KPath, KTodo, KReady, KFound, KCurrent
<1>3. Transpose(G)' = Transpose(G)
  BY <1>2
<1>. QED
  BY <1>1, <1>2, <1>3 DEF KInv

\* Every step: a component is ready as the call for its root returns.
LEMMA KStep ==
  ASSUME KInv, K!Next
  PROVE  KInv' /\ edges' = edges /\ Adds(KReady, KReady')
<1>0. pass = "transpose" \/ pass = "components"
  BY DEF KInv
<1>1. CASE \E s \in State : K!RootTranspose(s) \/ K!Call(s)
  <2>1. PICK s \in State : K!RootTranspose(s) \/ K!Call(s)
    BY <1>1
  <2>2. CASE pass = "transpose"
    BY <2>1, <2>2, KMarkStep DEF Adds
  <2>3. CASE pass = "components"
    <3>1. K!Call(s)
      BY <2>1, <2>3 DEF K!RootTranspose
    <3>. QED
      BY <2>3, <3>1, KCallStep DEF Adds
  <2>. QED
    BY <1>0, <2>2, <2>3
<1>2. CASE K!ReturnTranspose
  BY <1>2, KRecordStep DEF Adds
<1>3. CASE K!Turn
  BY <1>3, KTurnStep DEF Adds
<1>4. CASE K!Skip
  BY <1>4, KSkipStep DEF Adds
<1>5. CASE K!Root
  BY <1>5, KRootStep DEF Adds
<1>6. CASE K!Return
  <2>1. CASE Len(calls) = 1
    <3>1. PICK C \in SUBSET State :
              /\ KReady' = Append(KReady, C)
              /\ C = Component(G, K!top.state) /\ K!top.state \in C
              /\ K!top.state \in State
              /\ C \intersect KFound = {}
              /\ AllSuccessors(G, C) \subseteq C \union KFound
      BY <1>6, <2>1, KEndStep
    <3>2. KInv' /\ edges' = edges
      BY <1>6, <2>1, KEndStep
    <3>3. PICK s : s = K!top.state
      OBVIOUS
    <3>4. KFound = UNION Range(KReady)
      BY DEF KFound
    <3>5. Adds(KReady, KReady')
      BY <3>1, <3>3, <3>4, Zenon DEF Adds
    <3>. QED
      BY <3>2, <3>5
  <2>2. CASE Len(calls) # 1
    BY <1>6, <2>2, KReturnStep DEF Adds
  <2>. QED
    BY <2>1, <2>2
<1>7. CASE K!Done
  <2>1. UNCHANGED K!vars
    BY <1>7 DEF K!Done
  <2>2. KInv'
    BY <2>1, KSame
  <2>3. edges' = edges /\ components' = components /\ num' = num
    BY <2>1 DEF K!vars
  <2>. QED
    BY <2>2, <2>3 DEF Adds, KReady
<1>. QED
  BY <1>1, <1>2, <1>3, <1>4, <1>5, <1>6, <1>7 DEF K!Next

\* dijkstra_tag.
LEMMA DStart ==
  ASSUME D!Init
  PROVE  DInv
<1>1. /\ preorder = <<>> /\ calls = <<>> /\ unassigned = <<>> /\ uncertain = <<>>
      /\ component = <<>> /\ components = <<>>
  BY DEF D!Init
<1>2. /\ DOMAIN <<>> = {} /\ Range(<<>>) = {} /\ Len(<<>>) = 0 /\ UNION {} = {}
      /\ \A S : <<>> \in Seq(S)
      /\ 1 .. 0 = {}
  BY DEF Range
<1>3. Found = {}
  BY <1>1, <1>2 DEF Found
<1>4. UNION Range(Fresh) = {}
  BY <1>1, <1>2 DEF Fresh, Range
<1>5. Search(G, <<>>, <<>>, 0, DPath, DTodo, {})
  BY SearchInit
<1>6. Search(G, preorder, <<>>, Len(calls), DPath, DTodo, Found)
  BY <1>1, <1>2, <1>3, <1>5
<1>7. Pending(preorder, Found) = {}
  BY <1>1, <1>2, <1>3 DEF Pending
<1>8. DSearch(<<>>)
  BY <1>6, <1>7 DEF DSearch
<1>9. DStacks
  BY <1>1, <1>2, <1>7 DEF DStacks
<1>. QED
  BY <1>1, <1>2, <1>3, <1>4, <1>8, <1>9 DEF DInv

\* Components that stay add the same states.
LEMMA FreshSame ==
  ASSUME components' = components
  PROVE  Fresh' = Fresh
<1>1. \A i : Earlier(i)' = Earlier(i)
  BY DEF Earlier
<1>. QED
  BY <1>1 DEF Fresh

\* Stuttering.
LEMMA DSame ==
  ASSUME DInv, UNCHANGED D!vars
  PROVE  DInv'
<1>1. /\ edges' = edges /\ preorder' = preorder /\ calls' = calls
      /\ unassigned' = unassigned /\ uncertain' = uncertain
      /\ component' = component /\ components' = components
  BY DEF D!vars
<1>2. /\ G' = G /\ Found' = Found /\ DPath' = DPath /\ DTodo' = DTodo
  BY <1>1 DEF G, Found, DPath, DTodo
<1>3. Fresh' = Fresh
  BY <1>1, FreshSame
<1>4. PICK lo : DSearch(lo)
  BY DEF DInv
<1>5. DSearch(lo)'
  BY <1>1, <1>2, <1>4 DEF DSearch, Under
<1>6. DStacks'
  BY <1>1, <1>2 DEF DInv, DStacks
<1>. QED
  BY <1>1, <1>2, <1>3, <1>5, <1>6 DEF DInv

\* Every step.
LEMMA DStep ==
  ASSUME IsFiniteSet(State), DInv, D!Next
  PROVE  DInv' /\ edges' = edges /\ Adds(Fresh, Fresh')
<1>1. CASE \E s \in State : D!Root(s) \/ D!Call(s) \/ D!Back(s) \/ D!Cross(s)
  BY <1>1, DVisitStep, DBackStep, DCrossStep, FreshSame DEF Adds
<1>2. CASE D!Finish
  BY <1>2, DFinishStep, FreshSame DEF Adds
<1>3. CASE D!Emit
  <2>1. /\ DInv' /\ edges' = edges
        /\ \E C \in SUBSET State :
              /\ Fresh' = Append(Fresh, C)
              /\ C = Component(G, D!top.state) /\ D!top.state \in C
              /\ D!top.state \in State
              /\ C \intersect Found = {}
              /\ AllSuccessors(G, C) \subseteq C \union Found
    BY <1>3, DEmitStep
  <2>2. Found = UNION Range(Fresh)
    BY DEF DInv
  <2>3. Adds(Fresh, Fresh')
    BY <2>1, <2>2, Zenon DEF Adds
  <2>. QED
    BY <2>1, <2>3
<1>4. CASE D!Done
  <2>1. UNCHANGED D!vars
    BY <1>4 DEF D!Done
  <2>2. components' = components /\ edges' = edges
    BY <2>1 DEF D!vars
  <2>. QED
    BY <2>1, <2>2, DSame, FreshSame DEF Adds
<1>. QED
  BY <1>1, <1>2, <1>3, <1>4 DEF D!Next

\* What each algorithm maintains.
Inv ==
  /\ algo \in Scc_algo_t
  /\ algo = "tarjan,iterative" => TIInv
  /\ algo = "tarjan,recursive" => TRInv
  /\ algo = "kosaraju" => KInv
  /\ algo = "dijkstra" => DInv

\* It holds as the algorithm starts, and no component is ready then.
LEMMA InitLemma ==
  ASSUME Init
  PROVE  Inv /\ edges \in Relations /\ Ready = <<>>
<1>. USE StateAssumption
<1>1. algo \in Scc_algo_t
  BY AlgorithmsAssumption DEF Init
<1>2. CASE algo = "tarjan,iterative" /\ TI!Init
  <2>1. edges \in Relations /\ components = <<>>
    BY <1>2 DEF TI!Init
  <2>. QED
    BY <1>1, <1>2, <2>1, TIStart DEF Inv, Ready
<1>3. CASE algo = "tarjan,recursive" /\ TR!Init
  <2>1. edges \in Relations /\ components = <<>>
    BY <1>3 DEF TR!Init
  <2>. QED
    BY <1>1, <1>3, <2>1, TRStart DEF Inv, Ready
<1>4. CASE algo = "kosaraju" /\ K!Init
  <2>1. edges \in Relations /\ components = <<>> /\ num = 0
    BY <1>4 DEF K!Init
  <2>2. SubSeq(components, 1, num) = <<>>
    BY <2>1
  <2>. QED
    BY <1>1, <1>4, <2>1, <2>2, KStart DEF Inv, Ready
<1>5. CASE algo = "dijkstra" /\ D!Init
  <2>1. edges \in Relations /\ components = <<>>
    BY <1>5 DEF D!Init
  <2>2. Fresh = <<>>
    BY <2>1 DEF Fresh
  <2>. QED
    BY <1>1, <1>5, <2>1, <2>2, DStart DEF Inv, Ready, Fresh
<1>. QED
  BY <1>2, <1>3, <1>4, <1>5 DEF Init

\* Every step maintains it, and adds at most one component.
LEMMA StepLemma ==
  ASSUME Inv, Next
  PROVE  Inv' /\ edges' = edges /\ Adds(Ready, Ready')
<1>. USE StateAssumption
<1>2. CASE algo = "tarjan,iterative" /\ TI!Next /\ algo' = algo
  <2>1. TIInv' /\ edges' = edges /\ Adds(components, components')
    BY <1>2, TIStep DEF Inv
  <2>2. Ready = components /\ Ready' = components'
    BY <1>2 DEF Ready
  <2>. QED
    BY <1>2, <2>1, <2>2 DEF Inv
<1>3. CASE algo = "tarjan,recursive" /\ TR!Next /\ algo' = algo
  <2>1. TRInv' /\ edges' = edges /\ Adds(components, components')
    BY <1>3, TRStep DEF Inv
  <2>2. Ready = components /\ Ready' = components'
    BY <1>3 DEF Ready
  <2>. QED
    BY <1>3, <2>1, <2>2 DEF Inv
<1>4. CASE algo = "kosaraju" /\ K!Next /\ algo' = algo
  <2>1. KInv' /\ edges' = edges /\ Adds(KReady, KReady')
    BY <1>4, KStep DEF Inv
  <2>2. Ready = KReady /\ Ready' = KReady'
    BY <1>4 DEF Ready, KReady
  <2>. QED
    BY <1>4, <2>1, <2>2 DEF Inv
<1>5. CASE algo = "dijkstra" /\ D!Next /\ algo' = algo
  <2>1. DInv' /\ edges' = edges /\ Adds(Fresh, Fresh')
    BY <1>5, DStep DEF Inv
  <2>2. Ready = Fresh /\ Ready' = Fresh'
    BY <1>5 DEF Ready, Fresh
  <2>. QED
    BY <1>5, <2>1, <2>2 DEF Inv
<1>. QED
  BY <1>2, <1>3, <1>4, <1>5 DEF Next

\* So does a step that changes nothing.
LEMMA SameLemma ==
  ASSUME Inv, UNCHANGED vars
  PROVE  Inv' /\ edges' = edges /\ Adds(Ready, Ready')
<1>1. /\ algo' = algo /\ edges' = edges /\ components' = components /\ num' = num
      /\ UNCHANGED TI!vars /\ UNCHANGED TR!vars
      /\ UNCHANGED K!vars /\ UNCHANGED D!vars
  BY DEF vars, iterative, tarjan, kosaraju, dijkstra,
         TI!vars, TR!vars, K!vars, D!vars
<1>2. Ready' = Ready
  <2>1. Fresh' = Fresh
    BY <1>1, FreshSame
  <2>. QED
    BY <1>1, <2>1 DEF Ready, Fresh
<1>3. Inv'
  BY <1>1, TISame, TRSame, KSame, DSame DEF Inv
<1>. QED
  BY <1>1, <1>2, <1>3 DEF Adds

\* What the algorithms maintain is an invariant.
THEOREM Invariance == Spec => []Inv
<1>1. Init => Inv
  BY InitLemma
<1>2. Inv /\ [Next]_vars => Inv'
  BY StepLemma, SameLemma
<1>. QED
  BY <1>1, <1>2, PTL DEF Spec

\* stack_ is what the algorithm that uses it takes it for.
THEOREM StacksArePendingTheorem == Spec => []StacksArePending
<1>1. Inv => StacksArePending
  <2>1. TIInv => TI!StackIsPending
    <3>1. SUFFICES ASSUME TIInv PROVE TI!StackIsPending
      OBVIOUS
    <3>2. /\ Range(stack) = Pending(number, Found)
          /\ \A i, j \in DOMAIN stack : i < j => number[stack[i]] < number[stack[j]]
      BY <3>1 DEF TIInv, Stacked
    <3>3. TI!Range(stack) = Range(stack) /\ TI!Range(components) = Range(components)
      BY DEF TI!Range, Range
    <3>4. Range(stack) = TI!Known \ UNION Range(components)
      BY <3>2 DEF TI!Known, Pending, Found
    <3>5. \A i \in DOMAIN dfs_stack : dfs_stack[i].state \in Range(stack)
      <4>1. DOMAIN dfs_stack = 1 .. Len(dfs_stack)
        BY <3>1, IsSeqLemma DEF TIInv
      <4>. QED
        BY <3>1, <3>2, <4>1, TIPathLemma, StateAssumption
    <3>. QED
      BY <3>2, <3>3, <3>4, <3>5 DEF TI!StackIsPending
  <2>2. TRInv => TR!WaitersHaveAnOwner
    BY TRWaiters, StateAssumption
  <2>. QED
    BY <2>1, <2>2 DEF Inv, StacksArePending
<1>. QED
  BY <1>1, Invariance, PTL

\* A low_ of the default algorithm is the number of a pending state that can
\* be reached.
THEOREM LowIsReachableTheorem == Spec => []LowIsReachable
<1>1. Inv => LowIsReachable
  <2>1. SUFFICES ASSUME TIInv PROVE TI!LowIsReachable
    BY DEF Inv, LowIsReachable
  <2>2. WayBack(G, number, low, Found) /\ Range(stack) = Pending(number, Found)
    BY <2>1 DEF TIInv, Search, Stacked
  <2>3. TI!Range(stack) = Range(stack) /\ TI!Digraph = G
    BY DEF TI!Range, Range, TI!Digraph, G
  <2>4. \A s, t : TI!Reaches(G, s, t) <=> Reaches(G, s, t)
    BY DEF TI!Reaches, Reaches, TI!Closed, Closed, TI!Successors, Successors
  <2>. QED
    BY <2>2, <2>3, <2>4 DEF TI!LowIsReachable, WayBack
<1>. QED
  BY <1>1, Invariance, PTL

\* The order in which the first search of Kosaraju's algorithm leaves the
\* states is right for the second one.
THEOREM NextRootIsBottomTheorem == Spec => []NextRootIsBottom
<1>1. Inv => NextRootIsBottom
  <2>1. SUFFICES ASSUME KInv, pass = "components", calls = <<>>, todo # <<>>,
                        K!Last(todo) \notin marked,
                        NEW s \in State, K!Reaches(K!Digraph, K!Last(todo), s)
                 PROVE  s \in marked \/ K!Reaches(K!Digraph, s, K!Last(todo))
    BY DEF Inv, NextRootIsBottom, K!NextRootIsBottom
  <2>2. PICK r : r = todo[Len(todo)]
    OBVIOUS
  <2>3. K!Last(todo) = r /\ K!Digraph = G
    BY <2>2 DEF K!Last, K!Digraph, G
  <2>4. \A t, u : K!Reaches(G, t, u) <=> Reaches(G, t, u)
    BY DEF K!Reaches, Reaches, K!Closed, Closed, K!Successors, Successors
  <2>5. \A t \in State : Reaches(G, r, t) => t \in marked \/ Reaches(G, t, r)
    BY <2>1, <2>2, <2>3, KBottomLemma
  <2>. QED
    BY <2>1, <2>3, <2>4, <2>5, Zenon
<1>. QED
  BY <1>1, Invariance, PTL

\* Whichever the algorithm, the steps of strong_components are those that
\* StrongComponents allows: a component is right, new, and comes after
\* those that it leads to.
THEOREM ComponentsAreRight == Spec => Abstract!Init /\ [][Abstract!Next]_Abstract!vars
<1>1. Init => Abstract!Init
  BY InitLemma DEF Abstract!Init
<1>2. Inv /\ [Next]_vars => [Abstract!Next]_Abstract!vars
  BY StepLemma, SameLemma, AddsLemma
<1>. QED
  BY <1>1, <1>2, Invariance, PTL DEF Spec
=============================================================================

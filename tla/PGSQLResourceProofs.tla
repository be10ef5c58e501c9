------------------------- MODULE PGSQLResourceProofs -------------------------
(***************************************************************************)
(* What TLAPS proves of the resources, for any requests, links, results    *)
(* and connections: whatever the order of pg_close, destructors and        *)
(* sweeps, a connection has one holder, and a usable result has its link.  *)
(***************************************************************************)
EXTENDS PGSQLResource, FiniteSetTheorems, TLAPS

-----------------------------------------------------------------------------
(* The inductive invariant *)

\* The results that were ever made over link l, and those still in use.
Made(l) == {k \in Results : m_link[k] = l}
Kept(l) == Made(l) \cap script

\* ScriptOK: a variable refers to a live resource of a running request.
ScriptOK ==
  \A x \in script :
    /\ life[x] = "live"
    /\ creator[x] \in Requests
    /\ request[creator[x]] = "running"

\* LinkOfResult: a result has the link it was made over, a link of its request.
LinkOfResult ==
  \A k \in Results :
    IF life[k] = "unused"
    THEN m_link[k] = NoLink
    ELSE /\ m_link[k] \in Links
         /\ life[m_link[k]] # "unused"
         /\ creator[m_link[k]] = creator[k]

\* CountOK: a link is counted once for the variables, once for each result made
\* over it, and once more for each that is still in use.
CountOK ==
  \A l \in Links :
    /\ IsFiniteSet(Made(l))
    /\ refCount[l] >= Cardinality(Made(l)) + Cardinality(Kept(l))
                      + (IF l \in script THEN 1 ELSE 0)

\* OpenedOK: the connection of a link has been opened.
OpenedOK == \A l \in Links : m_conn[l] # NoConn => status[m_conn[l]] # "new"

\* DropOK: a live link over which no result was made is in a variable.
DropOK ==
  \A l \in Links :
    Live(l) /\ request[creator[l]] = "running" /\ Made(l) = {} =>
      l \in script /\ refCount[l] = 1

\* What concerns the resources, and what concerns the connections.
ResourceOK == ScriptOK /\ LinkOfResult /\ CountOK /\ DropOK /\ ResultHasLink

ConnectionOK == OpenedOK /\ ReleasedOnce /\ NothingOutlivesRequest /\ NoticeToHolder

IInv == TypeOK /\ ResourceOK /\ ConnectionOK

\* The initial state satisfies the invariant.
LEMMA InitIInv == Init => IInv
<1> SUFFICES ASSUME Init PROVE IInv
  OBVIOUS
<1> USE ResourceAssumption
<1>1. TypeOK
  BY DEF Init, TypeOK
<1>2. \A l \in Links : Made(l) = {} /\ Kept(l) = {}
  BY DEF Init, Made, Kept
<1>3. IsFiniteSet({}) /\ Cardinality({}) = 0
  BY FS_EmptySet
<1>4. CountOK
  <2>1. \A l \in Links : refCount[l] = 0 /\ l \notin script
    BY DEF Init
  <2>2. \A l \in Links : Cardinality(Made(l)) = 0 /\ Cardinality(Kept(l)) = 0 /\ IsFiniteSet(Made(l))
    BY <1>2, <1>3
  <2>3. QED
    BY <2>1, <2>2 DEF CountOK
<1>5. ScriptOK /\ LinkOfResult /\ DropOK /\ ResultHasLink
  BY DEF Init, ScriptOK, LinkOfResult, DropOK, ResultHasLink, Live, Resources
<1>6. ConnectionOK
  BY DEF Init, ConnectionOK, OpenedOK, ReleasedOnce, NothingOutlivesRequest, NoticeToHolder,
         Live, Resources
<1>7. QED
  BY <1>1, <1>4, <1>5, <1>6 DEF IInv, ResourceOK

-----------------------------------------------------------------------------
(* Connections *)

\* A holder that gives its connection back, whether it lives on or not, leaves
\* every connection where it belongs.
LEMMA ReleaseKeeps ==
  ASSUME TypeOK, ConnectionOK, NEW l \in Links, Live(l), ReleaseConnection(l),
         life' \in [Resources -> {"unused", "live", "gone"}],
         \A n \in Links \ {l} : life'[n] = life[n],
         UNCHANGED notice
  PROVE  ConnectionOK'
<1> USE ResourceAssumption
<1>1. CASE m_conn[l] = NoConn
  <2>1. UNCHANGED <<status, free, m_conn, notice>>
    BY <1>1 DEF ReleaseConnection, linkVars
  <2>2. QED
    BY <1>1, <2>1 DEF ConnectionOK, OpenedOK, ReleasedOnce, NothingOutlivesRequest, NoticeToHolder,
       Live, TypeOK
<1>2. CASE m_conn[l] # NoConn /\ m_connectionPool[l]
  <2>1. /\ m_conn[l] \in Conns
        /\ m_conn' = [m_conn EXCEPT ![l] = NoConn]
        /\ \/ /\ status[m_conn[l]] = "OK"
              /\ free' = free \cup {m_conn[l]}
              /\ UNCHANGED status
           \/ /\ status' = [status EXCEPT ![m_conn[l]] = "finished"]
              /\ UNCHANGED free
    BY <1>2 DEF ReleaseConnection, PoolRelease, Finish, TypeOK
  <2>2. m_conn[l] \notin free
    BY DEF ConnectionOK, ReleasedOnce
  <2>3. \A n \in Links \ {l} : Live(n)' => Live(n) /\ m_conn'[n] = m_conn[n] /\ m_conn[n] # m_conn[l]
    BY <1>2, <2>1 DEF ConnectionOK, ReleasedOnce, Live, TypeOK
  <2>4. OpenedOK'
    BY <2>1 DEF ConnectionOK, OpenedOK, TypeOK
  <2>5. ReleasedOnce'
    BY <2>1, <2>2, <2>3 DEF ConnectionOK, ReleasedOnce, Live, TypeOK
  <2>6. NothingOutlivesRequest'
    BY <2>1, <2>2 DEF ConnectionOK, NothingOutlivesRequest, Live, TypeOK
  <2>7. NoticeToHolder'
    BY <2>1, <2>3 DEF ConnectionOK, NoticeToHolder, Live, TypeOK
  <2>8. QED
    BY <2>4, <2>5, <2>6, <2>7 DEF ConnectionOK
<1>3. CASE m_conn[l] # NoConn /\ ~m_connectionPool[l]
  <2>1. /\ m_conn[l] \in Conns
        /\ status' = [status EXCEPT ![m_conn[l]] = "finished"]
        /\ UNCHANGED <<free, m_conn>>
    BY <1>3 DEF ReleaseConnection, Finish, TypeOK, linkVars
  <2>2. m_conn[l] \notin free
    BY DEF ConnectionOK, ReleasedOnce
  <2>3. \A n \in Links \ {l} : Live(n)' => Live(n) /\ m_conn[n] # m_conn[l]
    BY <1>3, <2>1 DEF ConnectionOK, ReleasedOnce, Live, TypeOK
  <2>4. OpenedOK'
    BY <2>1 DEF ConnectionOK, OpenedOK, TypeOK
  <2>5. ReleasedOnce'
    BY <2>1, <2>2, <2>3 DEF ConnectionOK, ReleasedOnce, Live, TypeOK
  <2>6. NothingOutlivesRequest'
    BY <2>1, <2>2 DEF ConnectionOK, NothingOutlivesRequest, Live, TypeOK
  <2>7. NoticeToHolder'
    BY <2>1, <2>3 DEF ConnectionOK, NoticeToHolder, Live, TypeOK
  <2>8. QED
    BY <2>4, <2>5, <2>6, <2>7 DEF ConnectionOK
<1>4. QED
  BY <1>1, <1>2, <1>3 DEF ReleaseConnection

\* A new link takes a connection that nobody has.
LEMMA TakeKeeps ==
  ASSUME TypeOK, ConnectionOK, NEW l \in Links, life[l] = "unused", NEW c \in Conns,
         c \in free \/ status[c] = "new",
         life' = [life EXCEPT ![l] = "live"],
         m_conn' = [m_conn EXCEPT ![l] = c],
         status' = [status EXCEPT ![c] = "OK"],
         free' = free \ {c},
         notice' = [notice EXCEPT ![c] = l]
  PROVE  ConnectionOK'
<1> USE ResourceAssumption DEF Resources
<1>1. \A n \in Links \ {l} : Live(n) => m_conn[n] # c
  BY DEF ConnectionOK, OpenedOK, ReleasedOnce, TypeOK
<1>2. OpenedOK'
  BY DEF ConnectionOK, OpenedOK, TypeOK
<1>3. ReleasedOnce'
  BY <1>1 DEF ConnectionOK, ReleasedOnce, Live, TypeOK
<1>4. NothingOutlivesRequest'
  BY DEF ConnectionOK, NothingOutlivesRequest, Live, TypeOK
<1>5. NoticeToHolder'
  BY <1>1 DEF ConnectionOK, NoticeToHolder, Live, TypeOK
<1>6. QED
  BY <1>2, <1>3, <1>4, <1>5 DEF ConnectionOK

\* The status of a held connection changes; no other connection is concerned.
LEMMA StatusKeeps ==
  ASSUME TypeOK, ConnectionOK, NEW l \in Links, Live(l), m_conn[l] # NoConn,
         status[m_conn[l]] \in {"OK", "BAD"},
         \/ status' = [status EXCEPT ![m_conn[l]] = "BAD"]
         \/ status' = [status EXCEPT ![m_conn[l]] = "OK"],
         UNCHANGED <<life, m_conn, free, notice>>
  PROVE  ConnectionOK'
<1>1. m_conn[l] \in Conns /\ m_conn[l] \notin free
  BY DEF ConnectionOK, ReleasedOnce, TypeOK
<1>2. QED
  BY <1>1 DEF ConnectionOK, OpenedOK, ReleasedOnce, NothingOutlivesRequest, NoticeToHolder,
     Live, TypeOK

\* A step that changes no link and no connection, but for resources that are no
\* links, concerns none of this.
LEMMA SameConnections ==
  ASSUME TypeOK, ConnectionOK,
         \A l \in Links : life'[l] = life[l],
         UNCHANGED <<m_conn, status, free, notice>>
  PROVE  ConnectionOK'
BY DEF ConnectionOK, OpenedOK, ReleasedOnce, NothingOutlivesRequest, NoticeToHolder, Live

-----------------------------------------------------------------------------
(* Resources *)

\* What a variable of a running script refers to.
LEMMA HasLive ==
  ASSUME IInv, NEW r \in Requests, NEW x \in Resources, Has(r, x)
  PROVE  life[x] = "live" /\ creator[x] = r /\ request[r] = "running" /\ x \in script
BY DEF Has, IInv, ResourceOK, ScriptOK

\* The counts are numbers.
LEMMA Counted ==
  ASSUME IInv, NEW l \in Links
  PROVE  /\ IsFiniteSet(Made(l)) /\ IsFiniteSet(Kept(l))
         /\ Cardinality(Made(l)) \in Nat
         /\ Cardinality(Kept(l)) \in Nat
         /\ Cardinality(Made(l)) = 0 <=> Made(l) = {}
         /\ Cardinality(Kept(l)) = 0 <=> Kept(l) = {}
         /\ refCount[l] \in Nat
<1>1. IsFiniteSet(Made(l)) /\ refCount[l] \in Nat
  BY DEF IInv, ResourceOK, CountOK, TypeOK
<1>2. Kept(l) \in SUBSET Made(l)
  BY DEF Kept
<1>3. IsFiniteSet(Kept(l))
  BY <1>1, <1>2, FS_Subset
<1>4. QED
  BY <1>1, <1>3, FS_CardinalityType, FS_EmptySet

\* A link in a variable is counted.
LEMMA ScriptCounted ==
  ASSUME IInv, NEW l \in Links, l \in script
  PROVE  /\ refCount[l] >= 1
         /\ refCount[l] = 1 => Made(l) = {}
<1>1. refCount[l] >= Cardinality(Made(l)) + Cardinality(Kept(l)) + 1
  BY DEF IInv, ResourceOK, CountOK
<1>2. QED
  BY <1>1, Counted

\* The link of a result in use is counted at least twice.
LEMMA ResultCounted ==
  ASSUME IInv, NEW k \in Results, k \in script
  PROVE  /\ m_link[k] \in Links
         /\ creator[m_link[k]] = creator[k]
         /\ Live(m_link[k])
         /\ k \in Kept(m_link[k])
         /\ refCount[m_link[k]] >= 2
<1>1. life[k] = "live" /\ k \in Resources
  BY DEF IInv, ResourceOK, ScriptOK, Resources
<1>2. m_link[k] \in Links /\ creator[m_link[k]] = creator[k]
  BY <1>1 DEF IInv, ResourceOK, LinkOfResult
<1>3. k \in Kept(m_link[k]) /\ k \in Made(m_link[k])
  BY DEF Kept, Made
<1>4. /\ refCount[m_link[k]] >= Cardinality(Made(m_link[k])) + Cardinality(Kept(m_link[k]))
      /\ Cardinality(Made(m_link[k])) >= 1
      /\ Cardinality(Kept(m_link[k])) >= 1
  <2>1. refCount[m_link[k]] >= Cardinality(Made(m_link[k])) + Cardinality(Kept(m_link[k]))
                               + (IF m_link[k] \in script THEN 1 ELSE 0)
    BY <1>2 DEF IInv, ResourceOK, CountOK
  <2>2. QED
    BY <1>2, <1>3, <2>1, Counted
<1>5. QED
  BY <1>2, <1>3, <1>4, Counted DEF IInv, ResourceOK, ResultHasLink

\* Neither the variables nor the results change, so neither do the counts.
LEMMA SameResources ==
  ASSUME IInv, UNCHANGED <<request, life, creator, script, refCount, m_link>>
  PROVE  ResourceOK'
<1>1. \A l \in Links : Made(l)' = Made(l) /\ Kept(l)' = Kept(l)
  BY DEF Made, Kept
<1>2. ScriptOK' /\ LinkOfResult'
  BY DEF IInv, ResourceOK, ScriptOK, LinkOfResult
<1>3. CountOK'
  BY <1>1 DEF IInv, ResourceOK, CountOK
<1>4. DropOK' /\ ResultHasLink'
  BY <1>1 DEF IInv, ResourceOK, DropOK, ResultHasLink, Live
<1>5. QED
  BY <1>2, <1>3, <1>4 DEF ResourceOK

\* A new link has one reference and no result.
LEMMA NewLink ==
  ASSUME IInv, NEW r \in Requests, NEW l \in Links, Make(r, l),
         refCount' = [refCount EXCEPT ![l] = 1], UNCHANGED <<request, m_link>>
  PROVE  ResourceOK'
<1> USE ResourceAssumption DEF Resources
<1>1. /\ request[r] = "running"
      /\ life[l] = "unused"
      /\ life' = [life EXCEPT ![l] = "live"]
      /\ creator' = [creator EXCEPT ![l] = r]
      /\ script' = script \cup {l}
  BY DEF Make
<1>2. Made(l) = {}
  BY <1>1 DEF Made, IInv, ResourceOK, LinkOfResult
<1>3. \A n \in Links : Made(n)' = Made(n) /\ Kept(n)' = Kept(n)
  BY <1>1 DEF Made, Kept
<1>4. ScriptOK'
  BY <1>1 DEF IInv, ResourceOK, ScriptOK, TypeOK
<1>5. LinkOfResult'
  BY <1>1 DEF IInv, ResourceOK, LinkOfResult, TypeOK
<1>6. CountOK'
  <2>1. Kept(l) = {} /\ IsFiniteSet({}) /\ Cardinality({}) = 0
    BY <1>2, FS_EmptySet DEF Kept
  <2>2. refCount'[l] = 1 /\ \A n \in Links \ {l} : refCount'[n] = refCount[n]
    BY DEF IInv, TypeOK
  <2>3. ASSUME NEW n \in Links
        PROVE  /\ IsFiniteSet(Made(n)')
               /\ refCount'[n] >= Cardinality(Made(n)') + Cardinality(Kept(n)')
                                  + (IF n \in script' THEN 1 ELSE 0)
    <3>1. CASE n = l
      <4>1. IsFiniteSet(Made(n)') /\ Cardinality(Made(n)') = 0 /\ Cardinality(Kept(n)') = 0
        BY <1>2, <1>3, <2>1, <3>1
      <4>2. QED
        BY <2>2, <3>1, <4>1
    <3>2. CASE n # l
      <4>1. n \in script' <=> n \in script
        BY <1>1, <3>2
      <4>2. QED
        BY <1>3, <2>2, <3>2, <4>1 DEF IInv, ResourceOK, CountOK
    <3>3. QED
      BY <3>1, <3>2
  <2>4. QED
    BY <2>3 DEF CountOK
<1>7. DropOK'
  BY <1>1, <1>3 DEF IInv, ResourceOK, DropOK, Live, TypeOK
<1>8. ResultHasLink'
  BY <1>1 DEF IInv, ResourceOK, ResultHasLink, Live, TypeOK
<1>9. QED
  BY <1>4, <1>5, <1>6, <1>7, <1>8 DEF ResourceOK

\* A query adds a result and its two references.
LEMMA NewResult ==
  ASSUME IInv, NEW r \in Requests, NEW l \in Links, NEW k \in Results, Query(r, l, k)
  PROVE  ResourceOK'
<1> USE ResourceAssumption DEF Resources
<1>1. /\ request[r] = "running"
      /\ life[k] = "unused"
      /\ life' = [life EXCEPT ![k] = "live"]
      /\ creator' = [creator EXCEPT ![k] = r]
      /\ script' = script \cup {k}
      /\ m_link' = [m_link EXCEPT ![k] = l]
      /\ refCount' = [refCount EXCEPT ![l] = @ + 2]
      /\ request' = request
  BY DEF Query, Make, requestVars, ReferencesOfResult
<1>2. life[l] = "live" /\ creator[l] = r /\ l \in script
  BY HasLive DEF Query
<1>3. m_link[k] = NoLink /\ k \notin script
  BY <1>1 DEF IInv, ResourceOK, LinkOfResult, ScriptOK
<1>4. /\ Made(l)' = Made(l) \cup {k} /\ Kept(l)' = Kept(l) \cup {k}
      /\ k \notin Made(l) /\ k \notin Kept(l)
      /\ \A n \in Links \ {l} : Made(n)' = Made(n) /\ Kept(n)' = Kept(n)
  BY <1>1, <1>3 DEF Made, Kept, IInv, TypeOK
<1>5. ScriptOK'
  BY <1>1 DEF IInv, ResourceOK, ScriptOK, TypeOK
<1>6. LinkOfResult'
  BY <1>1, <1>2 DEF IInv, ResourceOK, LinkOfResult, TypeOK
<1>7. CountOK'
  <2>1. ASSUME NEW n \in Links
        PROVE  /\ IsFiniteSet(Made(n)')
               /\ refCount'[n] >= Cardinality(Made(n)') + Cardinality(Kept(n)')
                                  + (IF n \in script' THEN 1 ELSE 0)
    <3>1. /\ IsFiniteSet(Made(n)) /\ IsFiniteSet(Kept(n))
          /\ Cardinality(Made(n)) \in Nat /\ Cardinality(Kept(n)) \in Nat
          /\ refCount[n] \in Nat
          /\ refCount[n] >= Cardinality(Made(n)) + Cardinality(Kept(n))
                            + (IF n \in script THEN 1 ELSE 0)
      BY Counted DEF IInv, ResourceOK, CountOK
    <3>2. n \in script' <=> n \in script
      BY <1>1
    <3>3. CASE n = l
      <4>1. /\ IsFiniteSet(Made(n)')
            /\ Cardinality(Made(n)') = Cardinality(Made(n)) + 1
            /\ Cardinality(Kept(n)') = Cardinality(Kept(n)) + 1
        BY <1>4, <3>1, <3>3, FS_AddElement
      <4>2. refCount'[n] = refCount[n] + 2
        BY <1>1, <3>3 DEF IInv, TypeOK
      <4>3. QED
        BY <3>1, <3>2, <4>1, <4>2
    <3>4. CASE n # l
      BY <1>1, <1>4, <3>1, <3>2, <3>4 DEF IInv, TypeOK
    <3>5. QED
      BY <3>3, <3>4
  <2>2. QED
    BY <2>1 DEF CountOK
<1>8. DropOK'
  BY <1>1, <1>4 DEF IInv, ResourceOK, DropOK, Live, TypeOK
<1>9. ResultHasLink'
  BY <1>1, <1>2 DEF IInv, ResourceOK, ResultHasLink, Live, TypeOK
<1>10. QED
  BY <1>5, <1>6, <1>7, <1>8, <1>9 DEF ResourceOK

\* The last reference of a link in a variable is only its own: no result was
\* ever made over it.
LEMMA DropLink ==
  ASSUME IInv, NEW r \in Requests, NEW l \in Links, UnsetLink(r, l)
  PROVE  ResourceOK'
<1> USE ResourceAssumption DEF Resources
<1>1. /\ script' = script \ {l}
      /\ refCount' = [refCount EXCEPT ![l] = @ - 1]
      /\ \/ refCount[l] = 1 /\ life' = [x \in Resources |-> IF x = l THEN "gone" ELSE life[x]]
         \/ refCount[l] # 1 /\ life' = [x \in Resources |-> life[x]]
      /\ UNCHANGED <<request, creator, m_link>>
  BY DEF UnsetLink, Unreference, requestVars, resultVars
<1>2. life[l] = "live" /\ creator[l] = r /\ l \in script
  BY HasLive DEF UnsetLink
<1>3. refCount[l] = 1 => Made(l) = {}
  BY <1>2, ScriptCounted
<1>4. \A n \in Links : Made(n)' = Made(n) /\ Kept(n)' = Kept(n)
  BY <1>1 DEF Made, Kept
<1>5. ScriptOK'
  BY <1>1 DEF IInv, ResourceOK, ScriptOK, TypeOK
<1>6. LinkOfResult'
  BY <1>1 DEF IInv, ResourceOK, LinkOfResult, TypeOK
<1>7. CountOK'
  <2>1. ASSUME NEW n \in Links
        PROVE  refCount'[n] >= Cardinality(Made(n)') + Cardinality(Kept(n)')
                               + (IF n \in script' THEN 1 ELSE 0)
    <3>1. /\ Cardinality(Made(n)) \in Nat /\ Cardinality(Kept(n)) \in Nat
          /\ refCount[n] \in Nat
          /\ refCount[n] >= Cardinality(Made(n)) + Cardinality(Kept(n))
                            + (IF n \in script THEN 1 ELSE 0)
      BY Counted DEF IInv, ResourceOK, CountOK
    <3>2. n \in script' <=> n \in script /\ n # l
      BY <1>1
    <3>3. refCount'[n] = IF n = l THEN refCount[n] - 1 ELSE refCount[n]
      BY <1>1 DEF IInv, TypeOK
    <3>4. QED
      BY <1>2, <1>4, <3>1, <3>2, <3>3
  <2>2. QED
    BY <1>4, <2>1 DEF IInv, ResourceOK, CountOK
<1>8. DropOK'
  <2>1. ASSUME NEW n \in Links, Live(n)', request'[creator'[n]] = "running", Made(n)' = {}
        PROVE  n \in script' /\ refCount'[n] = 1
    <3>1. Live(n) /\ request[creator[n]] = "running" /\ Made(n) = {}
      BY <1>1, <1>4, <2>1 DEF Live
    <3>2. n \in script /\ refCount[n] = 1
      BY <3>1 DEF IInv, ResourceOK, DropOK
    <3>3. n # l
      BY <1>1, <2>1, <3>2 DEF Live
    <3>4. QED
      BY <1>1, <3>2, <3>3 DEF IInv, TypeOK
  <2>2. QED
    BY <2>1 DEF DropOK
<1>9. ResultHasLink'
  <2>1. ASSUME NEW k \in Results \cap script'
        PROVE  Live(m_link[k])'
    <3>1. m_link[k] \in Links /\ Live(m_link[k]) /\ k \in Made(m_link[k])
      BY <1>1, ResultCounted DEF Kept
    <3>2. QED
      BY <1>1, <1>3, <3>1 DEF Live
  <2>2. QED
    BY <2>1 DEF ResultHasLink
<1>10. QED
  BY <1>5, <1>6, <1>7, <1>8, <1>9 DEF ResourceOK

\* A result that dies takes one reference along, never the last one.
LEMMA DropResult ==
  ASSUME IInv, NEW r \in Requests, NEW k \in Results, UnsetResult(r, k)
  PROVE  ResourceOK' /\ \A l \in Links : life'[l] = life[l]
<1> USE ResourceAssumption DEF Resources
<1>1. life[k] = "live" /\ creator[k] = r /\ k \in script
  BY HasLive DEF UnsetResult
<1>2. PICK l \in Links : l = m_link[k] /\ k \in Kept(l) /\ refCount[l] >= 2
  BY <1>1, ResultCounted
<1>3. /\ script' = script \ {k}
      /\ refCount' = [refCount EXCEPT ![l] = @ - 1]
      /\ life' = [x \in Resources |-> IF x \in {k} THEN "gone" ELSE life[x]]
      /\ UNCHANGED <<request, creator, m_link>>
  BY <1>2 DEF UnsetResult, Unreference, requestVars
<1>4. \A n \in Links : life'[n] = life[n]
  BY <1>3
<1>5. /\ \A n \in Links : Made(n)' = Made(n)
      /\ Kept(l)' = Kept(l) \ {k}
      /\ \A n \in Links \ {l} : Kept(n)' = Kept(n)
  BY <1>2, <1>3 DEF Made, Kept
<1>6. ScriptOK'
  BY <1>3 DEF IInv, ResourceOK, ScriptOK, TypeOK
<1>7. LinkOfResult'
  BY <1>1, <1>3 DEF IInv, ResourceOK, LinkOfResult, TypeOK
<1>8. CountOK'
  <2>1. ASSUME NEW n \in Links
        PROVE  refCount'[n] >= Cardinality(Made(n)') + Cardinality(Kept(n)')
                               + (IF n \in script' THEN 1 ELSE 0)
    <3>1. /\ IsFiniteSet(Kept(n))
          /\ Cardinality(Made(n)) \in Nat /\ Cardinality(Kept(n)) \in Nat
          /\ refCount[n] \in Nat
          /\ refCount[n] >= Cardinality(Made(n)) + Cardinality(Kept(n))
                            + (IF n \in script THEN 1 ELSE 0)
      BY Counted DEF IInv, ResourceOK, CountOK
    <3>2. n \in script' <=> n \in script
      BY <1>3
    <3>3. refCount'[n] = IF n = l THEN refCount[n] - 1 ELSE refCount[n]
      BY <1>3 DEF IInv, TypeOK
    <3>4. CASE n = l
      <4>1. Cardinality(Kept(n)') = Cardinality(Kept(n)) - 1
        BY <1>2, <1>5, <3>1, <3>4, FS_RemoveElement
      <4>2. QED
        BY <1>5, <3>1, <3>2, <3>3, <3>4, <4>1
    <3>5. CASE n # l
      BY <1>5, <3>1, <3>2, <3>3, <3>5
    <3>6. QED
      BY <3>4, <3>5
  <2>2. QED
    BY <1>5, <2>1 DEF IInv, ResourceOK, CountOK
<1>9. DropOK'
  <2>1. Made(l) # {}
    BY <1>2 DEF Kept
  <2>2. \A n \in Links : Made(n)' = {} => n # l /\ refCount'[n] = refCount[n]
    BY <1>3, <1>5, <2>1 DEF IInv, TypeOK
  <2>3. QED
    BY <1>3, <1>4, <1>5, <2>2 DEF IInv, ResourceOK, DropOK, Live
<1>10. ResultHasLink'
  BY <1>3, <1>4, ResultCounted DEF ResultHasLink, Live
<1>11. QED
  BY <1>4, <1>6, <1>7, <1>8, <1>9, <1>10 DEF ResourceOK

\* At its end a request loses its variables; the counts stay.
LEMMA EndKeeps ==
  ASSUME IInv, NEW r \in Requests, EndRequest(r)
  PROVE  ResourceOK'
<1> USE ResourceAssumption DEF Resources
<1>1. /\ request' = [request EXCEPT ![r] = "ending"]
      /\ script' = {x \in script : creator[x] # r}
      /\ UNCHANGED <<life, creator, refCount, m_link>>
  BY DEF EndRequest, resultVars
<1>2. \A n \in Links : Made(n)' = Made(n) /\ Kept(n)' \in SUBSET Kept(n)
  BY <1>1 DEF Made, Kept
<1>3. ScriptOK' /\ LinkOfResult' /\ ResultHasLink'
  BY <1>1 DEF IInv, ResourceOK, ScriptOK, LinkOfResult, ResultHasLink, Live, TypeOK
<1>4. CountOK'
  <2>1. ASSUME NEW n \in Links
        PROVE  refCount[n] >= Cardinality(Made(n)) + Cardinality(Kept(n)')
                              + (IF n \in script' THEN 1 ELSE 0)
    <3>1. /\ IsFiniteSet(Kept(n))
          /\ Cardinality(Made(n)) \in Nat /\ Cardinality(Kept(n)) \in Nat
          /\ refCount[n] \in Nat
          /\ refCount[n] >= Cardinality(Made(n)) + Cardinality(Kept(n))
                            + (IF n \in script THEN 1 ELSE 0)
      BY Counted DEF IInv, ResourceOK, CountOK
    <3>2. Cardinality(Kept(n)') <= Cardinality(Kept(n)) /\ Cardinality(Kept(n)') \in Nat
      BY <1>2, <3>1, FS_Subset, FS_CardinalityType
    <3>3. n \in script' => n \in script
      BY <1>1
    <3>4. QED
      BY <3>1, <3>2, <3>3
  <2>2. QED
    BY <1>1, <1>2, <2>1 DEF IInv, ResourceOK, CountOK
<1>5. DropOK'
  BY <1>1, <1>2 DEF IInv, ResourceOK, DropOK, Live, TypeOK
<1>6. QED
  BY <1>3, <1>4, <1>5 DEF ResourceOK

\* What is swept belongs to a request that ended: no variable refers to it.
LEMMA SweepKeeps ==
  ASSUME IInv, NEW x \in Resources, life[x] = "live", request[creator[x]] = "ending",
         life' = [life EXCEPT ![x] = "gone"],
         UNCHANGED <<request, creator, script, refCount, m_link>>
  PROVE  ResourceOK'
<1> USE ResourceAssumption DEF Resources
<1>1. x \notin script
  BY DEF IInv, ResourceOK, ScriptOK
<1>2. \A n \in Links : Made(n)' = Made(n) /\ Kept(n)' = Kept(n)
  BY DEF Made, Kept
<1>3. ScriptOK' /\ LinkOfResult'
  BY <1>1 DEF IInv, ResourceOK, ScriptOK, LinkOfResult, TypeOK
<1>4. CountOK'
  BY <1>2 DEF IInv, ResourceOK, CountOK
<1>5. DropOK'
  BY <1>2 DEF IInv, ResourceOK, DropOK, Live, TypeOK
<1>6. ResultHasLink'
  <2>1. ASSUME NEW k \in Results \cap script
        PROVE  m_link[k] # x /\ Live(m_link[k])
    <3>1. Live(m_link[k]) /\ creator[m_link[k]] = creator[k]
      BY ResultCounted
    <3>2. request[creator[k]] = "running"
      BY DEF IInv, ResourceOK, ScriptOK
    <3>3. QED
      BY <3>1, <3>2
  <2>2. QED
    BY <2>1, ResultCounted DEF ResultHasLink, Live, IInv, TypeOK
<1>7. QED
  BY <1>3, <1>4, <1>5, <1>6 DEF ResourceOK

-----------------------------------------------------------------------------
(* Steps *)

\* A link that loses a reference keeps the types, and gives its connection back
\* when it was the last.
LEMMA UnreferenceKeeps ==
  ASSUME IInv, NEW l \in Links, NEW gone \in SUBSET Results, Live(l), refCount[l] >= 1,
         Unreference(l, gone), UNCHANGED notice
  PROVE  /\ life' \in [Resources -> {"unused", "live", "gone"}]
         /\ refCount' \in [Links -> Nat]
         /\ status' \in [Conns -> {"new", "OK", "BAD", "finished"}]
         /\ free' \subseteq Conns
         /\ m_conn' \in [Links -> Conns \cup {NoConn}]
         /\ m_connectionPool' \in [Links -> BOOLEAN]
         /\ ConnectionOK'
<1> USE ResourceAssumption DEF Resources
<1>1. refCount' \in [Links -> Nat]
  BY DEF Unreference, IInv, TypeOK
<1>2. life' \in [Resources -> {"unused", "live", "gone"}]
  BY DEF Unreference, IInv, TypeOK
<1>3. \A n \in Links \ {l} : life'[n] = life[n]
  BY DEF Unreference
<1>4. CASE ReleaseConnection(l)
  <2>1. ConnectionOK'
    BY <1>2, <1>3, <1>4, ReleaseKeeps DEF IInv
  <2>2. /\ status' \in [Conns -> {"new", "OK", "BAD", "finished"}]
        /\ free' \subseteq Conns
        /\ m_conn' \in [Links -> Conns \cup {NoConn}]
        /\ m_connectionPool' \in [Links -> BOOLEAN]
    <3>1. CASE m_conn[l] = NoConn
      BY <1>4, <3>1 DEF ReleaseConnection, linkVars, IInv, TypeOK
    <3>2. CASE m_conn[l] # NoConn
      <4>1. m_conn[l] \in Conns
        BY <3>2 DEF IInv, TypeOK
      <4>2. /\ \/ free' = free \cup {m_conn[l]} /\ UNCHANGED status
               \/ status' = [status EXCEPT ![m_conn[l]] = "finished"] /\ UNCHANGED free
            /\ \/ UNCHANGED linkVars
               \/ /\ m_conn' = [m_conn EXCEPT ![l] = NoConn]
                  /\ m_connectionPool' = [m_connectionPool EXCEPT ![l] = FALSE]
        BY <1>4, <3>2 DEF ReleaseConnection, PoolRelease, Finish
      <4>3. QED
        BY <4>1, <4>2 DEF linkVars, IInv, TypeOK
    <3>3. QED
      BY <3>1, <3>2
  <2>3. QED
    BY <1>1, <1>2, <2>1, <2>2
<1>5. CASE UNCHANGED <<status, free, linkVars>> /\ \A n \in Links : life'[n] = life[n]
  BY <1>1, <1>2, <1>5, SameConnections DEF linkVars, IInv, TypeOK
<1>6. QED
  BY <1>4, <1>5 DEF Unreference

\* pg_connect and pg_pconnect keep the invariant.
LEMMA CreationStep ==
  ASSUME IInv, NEW r \in Requests, NEW l \in Links, Connect(r, l) \/ PConnect(r, l)
  PROVE  IInv'
<1> USE ResourceAssumption DEF Resources
<1>1. PICK c \in Conns :
        /\ c \in free \/ status[c] = "new"
        /\ status' = [status EXCEPT ![c] = "OK"]
        /\ free' = free \ {c}
        /\ m_conn' = [m_conn EXCEPT ![l] = c]
        /\ notice' = [notice EXCEPT ![c] = l]
  <2>1. CASE Connect(r, l)
    <3>1. PICK c \in Conns :
            /\ status[c] = "new"
            /\ status' = [status EXCEPT ![c] = "OK"]
            /\ m_conn' = [m_conn EXCEPT ![l] = c]
            /\ SetupInformation(l, c, FALSE)
      BY <2>1 DEF Connect
    <3>2. free' = free /\ c \notin free
      BY <2>1, <3>1 DEF Connect, IInv, ConnectionOK, ReleasedOnce
    <3>3. QED
      BY <3>1, <3>2 DEF SetupInformation
  <2>2. CASE PConnect(r, l)
    BY <2>2 DEF PConnect, SetupInformation, IInv, TypeOK
  <2>3. QED
    BY <2>1, <2>2
<1>2. /\ Make(r, l)
      /\ refCount' = [refCount EXCEPT ![l] = 1]
      /\ m_connectionPool' \in [Links -> BOOLEAN]
      /\ UNCHANGED <<requestVars, resultVars>>
  BY DEF Connect, PConnect, IInv, TypeOK
<1>3. ResourceOK'
  BY <1>2, NewLink DEF requestVars, resultVars
<1>4. ConnectionOK'
  BY <1>1, <1>2, TakeKeeps DEF Make, IInv
<1>5. TypeOK'
  BY <1>1, <1>2 DEF Make, IInv, TypeOK, requestVars, resultVars
<1>6. QED
  BY <1>3, <1>4, <1>5 DEF IInv

\* A query keeps the invariant.
LEMMA QueryStep ==
  ASSUME IInv, NEW r \in Requests, NEW l \in Links, NEW k \in Results, Query(r, l, k)
  PROVE  IInv'
<1> USE ResourceAssumption DEF Resources
<1>1. TypeOK'
  BY DEF Query, Make, ReferencesOfResult, requestVars, linkVars, connVars, IInv, TypeOK
<1>2. ConnectionOK'
  <2>1. \A n \in Links : life'[n] = life[n]
    BY DEF Query, Make, IInv, TypeOK
  <2>2. QED
    BY <2>1, SameConnections DEF Query, linkVars, connVars, IInv
<1>3. QED
  BY <1>1, <1>2, NewResult DEF IInv

\* What a script does with a link or a result it has keeps the invariant.
LEMMA UseStep ==
  ASSUME IInv, NEW r \in Requests,
         \/ \E l \in Links : ChangeStatus(r, l) \/ Close(r, l)
         \/ \E k \in Results : FreeResult(r, k)
         \/ NullDereference(r)
  PROVE  IInv'
<1> USE ResourceAssumption DEF Resources
<1>1. ResourceOK'
  BY SameResources DEF ChangeStatus, Close, FreeResult, NullDereference, requestVars, objectVars,
     resultVars
<1>2. ASSUME NEW l \in Links, ChangeStatus(r, l)
      PROVE  TypeOK' /\ ConnectionOK'
  <2>1. Live(l)
    BY <1>2, HasLive DEF ChangeStatus, Live
  <2>2. TypeOK'
    BY <1>2 DEF ChangeStatus, requestVars, objectVars, linkVars, resultVars, IInv, TypeOK
  <2>3. ConnectionOK'
    BY <1>2, <2>1, StatusKeeps DEF ChangeStatus, objectVars, linkVars, IInv
  <2>4. QED
    BY <2>2, <2>3
<1>3. ASSUME NEW l \in Links, Close(r, l)
      PROVE  TypeOK' /\ ConnectionOK'
  <2>1. Live(l)
    BY <1>3, HasLive DEF Close, Live
  <2>2. TypeOK'
    BY <1>3 DEF Close, ReleaseConnection, PoolRelease, Finish, requestVars, objectVars, linkVars,
       resultVars, IInv, TypeOK
  <2>3. ConnectionOK'
    BY <1>3, <2>1, <2>2, ReleaseKeeps DEF Close, objectVars, IInv, TypeOK
  <2>4. QED
    BY <2>2, <2>3
<1>4. ASSUME NEW k \in Results, FreeResult(r, k)
      PROVE  TypeOK' /\ ConnectionOK'
  BY <1>4, SameConnections DEF FreeResult, requestVars, objectVars, linkVars, connVars, IInv, TypeOK
<1>5. ASSUME NullDereference(r)
      PROVE  TypeOK' /\ ConnectionOK'
  BY <1>5, SameConnections DEF NullDereference, objectVars, linkVars, resultVars, connVars, IInv,
     TypeOK
<1>6. QED
  BY <1>1, <1>2, <1>3, <1>4, <1>5 DEF IInv

\* What takes resources out of the scripts keeps the invariant.
LEMMA ReleaseStep ==
  ASSUME IInv, NEW r \in Requests,
         \/ \E l \in Links : UnsetLink(r, l)
         \/ \E k \in Results : UnsetResult(r, k)
         \/ EndRequest(r)
  PROVE  IInv'
<1> USE ResourceAssumption DEF Resources
<1>1. ASSUME NEW l \in Links, UnsetLink(r, l)
      PROVE  IInv'
  <2>1. Live(l) /\ refCount[l] >= 1
    BY <1>1, HasLive, ScriptCounted DEF UnsetLink, Live
  <2>2. Unreference(l, {}) /\ UNCHANGED <<requestVars, creator, resultVars, notice>>
    BY <1>1 DEF UnsetLink
  <2>3. TypeOK' /\ ConnectionOK'
    BY <1>1, <2>1, <2>2, UnreferenceKeeps DEF UnsetLink, requestVars, resultVars, IInv, TypeOK
  <2>4. QED
    BY <1>1, <2>3, DropLink DEF IInv
<1>2. ASSUME NEW k \in Results, UnsetResult(r, k)
      PROVE  IInv'
  <2>1. k \in script
    BY <1>2 DEF UnsetResult, Has
  <2>2. m_link[k] \in Links /\ Live(m_link[k]) /\ refCount[m_link[k]] >= 2
    BY <2>1, ResultCounted
  <2>3. Unreference(m_link[k], {k}) /\ UNCHANGED <<requestVars, creator, m_link, notice>>
    BY <1>2 DEF UnsetResult
  <2>4. refCount[m_link[k]] >= 1 /\ {k} \in SUBSET Results
    BY <2>2 DEF IInv, TypeOK
  <2>5. TypeOK' /\ ConnectionOK'
    BY <1>2, <2>2, <2>3, <2>4, UnreferenceKeeps DEF UnsetResult, requestVars, IInv, TypeOK
  <2>6. QED
    BY <1>2, <2>5, DropResult DEF IInv
<1>3. ASSUME EndRequest(r)
      PROVE  IInv'
  BY <1>3, EndKeeps, SameConnections DEF EndRequest, linkVars, resultVars, connVars, IInv, TypeOK
<1>4. QED
  BY <1>1, <1>2, <1>3

\* The sweep at the end of a request keeps the invariant, in any order.
LEMMA SweepKeepsIInv ==
  ASSUME IInv, SweepStep
  PROVE  IInv'
<1> USE ResourceAssumption DEF Resources
<1>1. ASSUME NEW l \in Links, SweepLink(l)
      PROVE  IInv'
  <2>1. ResourceOK'
    BY <1>1, SweepKeeps DEF SweepLink, requestVars, resultVars
  <2>2. TypeOK'
    BY <1>1 DEF SweepLink, ReleaseConnection, PoolRelease, Finish, requestVars, linkVars,
       resultVars, IInv, TypeOK
  <2>3. \A n \in Links \ {l} : life'[n] = life[n]
    BY <1>1 DEF SweepLink, IInv, TypeOK
  <2>4. ConnectionOK'
    BY <1>1, <2>2, <2>3, ReleaseKeeps DEF SweepLink, Live, IInv, TypeOK
  <2>5. QED
    BY <2>1, <2>2, <2>4 DEF IInv
<1>2. ASSUME NEW k \in Results, SweepResult(k)
      PROVE  IInv'
  <2>1. ResourceOK'
    BY <1>2, SweepKeeps DEF SweepResult, requestVars
  <2>2. TypeOK'
    BY <1>2 DEF SweepResult, requestVars, linkVars, connVars, IInv, TypeOK
  <2>3. \A n \in Links : life'[n] = life[n]
    BY <1>2 DEF SweepResult, IInv, TypeOK
  <2>4. ConnectionOK'
    BY <1>2, <2>3, SameConnections DEF SweepResult, linkVars, connVars, IInv
  <2>5. QED
    BY <2>1, <2>2, <2>4 DEF IInv
<1>3. QED
  BY <1>1, <1>2 DEF SweepStep

\* Every step of the scripts and of the sweep keeps the invariant.
LEMMA StepIInv == IInv /\ [Next]_vars => IInv'
<1> SUFFICES ASSUME IInv, [Next]_vars
             PROVE  IInv'
  OBVIOUS
<1>1. ASSUME NEW r \in Requests, ScriptStep(r)
      PROVE  IInv'
  BY <1>1, CreationStep, QueryStep, UseStep, ReleaseStep DEF ScriptStep
<1>2. CASE UNCHANGED vars
  BY <1>2, SameResources, SameConnections
     DEF vars, requestVars, objectVars, linkVars, resultVars, connVars, IInv, TypeOK
<1>3. QED
  BY <1>1, <1>2, SweepKeepsIInv DEF Next

\* The invariant holds in every state of every behaviour.
THEOREM Invariance == Spec => []IInv
<1>1. QED
  BY InitIInv, StepIInv, PTL DEF Spec

-----------------------------------------------------------------------------
(* What follows *)

\* Every variable of the model keeps its type; above all, no reference count
\* falls below zero.
THEOREM ResourceTypes == Spec => []TypeOK
<1>1. IInv => TypeOK
  BY DEF IInv
<1>2. QED
  BY <1>1, Invariance, PTL

\* pg_close, the destructor and the sweep together give a connection back once:
\* it is never in the pool while a live link holds it, nor shared by two links.
THEOREM NeverReleasedTwice == Spec => []ReleasedOnce
<1>1. IInv => ReleasedOnce
  BY DEF IInv, ConnectionOK
<1>2. QED
  BY <1>1, Invariance, PTL

\* No open connection is lost: a live link holds it or the pool has it.
THEOREM NoConnectionLeaks == Spec => []NothingOutlivesRequest
<1>1. IInv => NothingOutlivesRequest
  BY DEF IInv, ConnectionOK
<1>2. QED
  BY <1>1, Invariance, PTL

\* SetupInformation points the notice processor of a connection at its holder.
THEOREM NoticeReachesHolder == Spec => []NoticeToHolder
<1>1. IInv => NoticeToHolder
  BY DEF IInv, ConnectionOK
<1>2. QED
  BY <1>1, Invariance, PTL

\* The reference of a result keeps its link alive as long as a script can use it.
THEOREM LinkOutlivesResult == Spec => []ResultHasLink
<1>1. IInv => ResultHasLink
  BY DEF IInv, ResourceOK
<1>2. QED
  BY <1>1, Invariance, PTL

\* A link without results that no variable refers to has released its connection.
THEOREM DropReleases == Spec => []DroppedIsReleased
<1>1. IInv => DroppedIsReleased
  BY DEF IInv, ResourceOK, DropOK, DroppedIsReleased, Made
<1>2. QED
  BY <1>1, Invariance, PTL

=============================================================================

--------------------------- MODULE WorkerPoolProofs ---------------------------
(***************************************************************************)
(* Theorems about WorkerPool for any finite set of addresses, any maxchild *)
(* and any number of threads that cannot be started.  Two lemmas on linked *)
(* lists do not mention the threads; the inductive invariant IInv says who *)
(* is in the critical section and what of the registry's change is still   *)
(* to be counted.                                                          *)
(***************************************************************************)
EXTENDS WorkerPool, FiniteSetTheorems, TLAPS

-----------------------------------------------------------------------------
(* Lists.                                                                  *)

Links == [Addresses -> Addresses \union {NULL}]

\* ListIsLinked of any list: its members, head, successors and predecessors.
Linked(R, c, n, p) ==
  /\ c = NULL <=> R = {}
  /\ c # NULL => c \in R /\ p[c] = NULL
  /\ \A a \in R :
       /\ n[a] # NULL => n[a] \in R /\ p[n[a]] = a
       /\ p[a] # NULL => p[a] \in R /\ n[p[a]] = a
       /\ p[a] = NULL => c = a
  /\ \A S \in SUBSET R :
       c \in S /\ (\A a \in S : n[a] # NULL => n[a] \in S) => S = R

\* Putting a worker in front (Main.cpp, the assignments to newparam->next,
\* srv.child->prev and srv.child) makes a list of it and the others.
LEMMA InsertedIsLinked ==
  ASSUME NEW R \in SUBSET Addresses, NEW c, NEW n \in Links, NEW p \in Links,
         NEW a \in Addresses, a \notin R, n[a] = NULL, p[a] = NULL,
         Linked(R, c, n, p),
         NEW n1, n1 = IF c = NULL THEN n ELSE [n EXCEPT ![a] = c],
         NEW p1, p1 = IF c = NULL THEN p ELSE [p EXCEPT ![c] = a]
  PROVE  Linked(R \union {a}, a, n1, p1)
PROOF
<1> USE PoolAssumption
<1>1. \A b \in R : b # a /\ n1[b] = n[b] /\ (b # c => p1[b] = p[b])
  BY DEF Linked, Links
<1>2. c # NULL => c \in R /\ n1[a] = c /\ p1[c] = a /\ p1[a] = NULL
  BY DEF Linked, Links
<1>3. c = NULL => R = {} /\ n1[a] = NULL /\ p1[a] = NULL
  BY DEF Linked, Links
<1>4. a # NULL
  BY PoolAssumption
<1>5. \A b \in R \union {a} :
        /\ n1[b] # NULL => n1[b] \in R \union {a} /\ p1[n1[b]] = b
        /\ p1[b] # NULL => p1[b] \in R \union {a} /\ n1[p1[b]] = b
        /\ p1[b] = NULL => a = b
  <2> SUFFICES ASSUME NEW b \in R \union {a}
               PROVE  /\ n1[b] # NULL => n1[b] \in R \union {a} /\ p1[n1[b]] = b
                      /\ p1[b] # NULL => p1[b] \in R \union {a} /\ n1[p1[b]] = b
                      /\ p1[b] = NULL => a = b
    OBVIOUS
  <2>1. CASE b = a
    BY <2>1, <1>2, <1>3
  <2>2. CASE b \in R
    <3>1. n[b] # NULL => n[b] \in R /\ p[n[b]] = b
      BY <2>2 DEF Linked
    <3>2. n[b] # NULL => n[b] # c
      BY <3>1, <2>2, <1>2, <1>4 DEF Linked
    <3>3. n1[b] # NULL => n1[b] \in R \union {a} /\ p1[n1[b]] = b
      BY <3>1, <3>2, <1>1, <2>2
    <3>4. b = c => p1[b] = a /\ n1[a] = b
      BY <1>2, <2>2, <1>3
    <3>5. b # c => p1[b] = p[b] /\ p[b] # NULL /\ p[b] \in R /\ n[p[b]] = b
      BY <1>1, <2>2 DEF Linked
    <3> QED
      BY <3>3, <3>4, <3>5, <1>1, <1>4
  <2> QED
    BY <2>1, <2>2
<1>6. ASSUME NEW S \in SUBSET (R \union {a}), a \in S,
             \A b \in S : n1[b] # NULL => n1[b] \in S
      PROVE  S = R \union {a}
  <2>1. CASE c = NULL
    BY <1>6, <1>3, <2>1
  <2>2. CASE c # NULL
    <3> DEFINE T == S \ {a}
    <3>1. T \in SUBSET R
      OBVIOUS
    <3>2. c \in T
      BY <1>6, <1>2, <2>2, <1>1
    <3>3. ASSUME NEW b \in T, n[b] # NULL
          PROVE  n[b] \in T
      <4>1. b \in R /\ n1[b] = n[b] /\ n1[b] \in S
        BY <3>3, <1>1, <1>6
      <4>2. n[b] \in R
        BY <4>1, <3>3 DEF Linked
      <4> QED
        BY <4>1, <4>2
    <3>4. T = R
      BY <3>1, <3>2, <3>3 DEF Linked
    <3> QED
      BY <3>4, <1>6
  <2> QED
    BY <2>1, <2>2
<1> QED
  BY <1>2, <1>3, <1>4, <1>5, <1>6 DEF Linked

\* The links that Unlink leaves.
HeadWithout(a, c, n, p) == IF p[a] # NULL THEN c ELSE n[a]
NextWithout(a, n, p) == IF p[a] # NULL THEN [n EXCEPT ![p[a]] = n[a]] ELSE n
PrevWithout(a, n, p) == IF n[a] # NULL THEN [p EXCEPT ![n[a]] = p[a]] ELSE p

\* Taking a worker out, wherever it stands (~ProxyWorker), leaves the others
\* linked, and changes no link of a worker that is not in the list.
LEMMA UnlinkedIsLinked ==
  ASSUME NEW R \in SUBSET Addresses, NEW c, NEW n \in Links, NEW p \in Links,
         NEW a \in R, Linked(R, c, n, p)
  PROVE  /\ Linked(R \ {a}, HeadWithout(a, c, n, p), NextWithout(a, n, p),
                            PrevWithout(a, n, p))
         /\ \A b \in Addresses \ R : /\ NextWithout(a, n, p)[b] = n[b]
                                     /\ PrevWithout(a, n, p)[b] = p[b]
PROOF
<1>0. PICK c1, n1, p1 : /\ c1 = IF p[a] # NULL THEN c ELSE n[a]
                        /\ n1 = IF p[a] # NULL THEN [n EXCEPT ![p[a]] = n[a]] ELSE n
                        /\ p1 = IF n[a] # NULL THEN [p EXCEPT ![n[a]] = p[a]] ELSE p
  OBVIOUS
<1> USE PoolAssumption, <1>0
<1> DEFINE Q == R \ {a}
<1>1. /\ n[a] # NULL => n[a] \in R /\ p[n[a]] = a
      /\ p[a] # NULL => p[a] \in R /\ n[p[a]] = a
      /\ p[a] = NULL => c = a
  BY DEF Linked
<1>2. a # NULL /\ c # NULL /\ c \in R /\ p[c] = NULL
  BY DEF Linked
<1>3. \A b \in Addresses : n1[b] = IF b = p[a] /\ p[a] # NULL THEN n[a] ELSE n[b]
  BY <1>1 DEF Links
<1>4. \A b \in Addresses : p1[b] = IF b = n[a] /\ n[a] # NULL THEN p[a] ELSE p[b]
  BY <1>1 DEF Links
<1>5. \A b \in Addresses \ R : n1[b] = n[b] /\ p1[b] = p[b]
  BY <1>1, <1>3, <1>4
<1>6. n[a] # a /\ p[a] # a
  \* otherwise the list is {a}, and its head has no predecessor
  <2>1. p[a] # a
    <3> SUFFICES ASSUME p[a] = a PROVE FALSE
      OBVIOUS
    <3>1. c # a /\ n[a] = a
      BY <1>1, <1>2
    <3>2. R \ {a} \in SUBSET R /\ c \in R \ {a}
      BY <1>2, <3>1
    <3>3. \A b \in R \ {a} : n[b] # NULL => n[b] \in R \ {a}
      BY <3>1 DEF Linked
    <3>4. R \ {a} = R
      BY <3>2, <3>3 DEF Linked
    <3> QED
      BY <3>4
  <2> QED
    BY <2>1, <1>1, <1>2
<1>7. \A b \in Q : b \in R /\ b # a /\ b \in Addresses
  OBVIOUS
<1>8. ASSUME NEW b \in Q
      PROVE  /\ n1[b] # NULL => n1[b] \in Q /\ p1[n1[b]] = b
             /\ p1[b] # NULL => p1[b] \in Q /\ n1[p1[b]] = b
             /\ p1[b] = NULL => c1 = b
  <2>1. /\ n[b] # NULL => n[b] \in R /\ p[n[b]] = b
        /\ p[b] # NULL => p[b] \in R /\ n[p[b]] = b
        /\ p[b] = NULL => c = b
    BY <1>7 DEF Linked
  <2>2. n1[b] # NULL => n1[b] \in Q /\ p1[n1[b]] = b
    <3>1. CASE b = p[a]
      BY <3>1, <1>1, <1>2, <1>3, <1>4, <1>6, <1>7
    <3>2. CASE b # p[a]
      <4>1. n1[b] = n[b] /\ (n[b] # NULL => n[b] # a)
        BY <3>2, <1>3, <1>7, <2>1
      <4>2. n[b] # NULL => n[b] # n[a]
        BY <2>1, <1>1, <1>7
      <4> QED
        BY <4>1, <4>2, <2>1, <1>4
    <3> QED
      BY <3>1, <3>2
  <2>3. p1[b] # NULL => p1[b] \in Q /\ n1[p1[b]] = b
    <3>1. CASE b = n[a]
      BY <3>1, <1>1, <1>2, <1>3, <1>4, <1>6, <1>7
    <3>2. CASE b # n[a]
      <4>1. p1[b] = p[b] /\ (p[b] # NULL => p[b] # a)
        BY <3>2, <1>4, <1>7, <2>1
      <4>2. p[b] # NULL => p[b] # p[a]
        BY <2>1, <1>1, <1>7
      <4> QED
        BY <4>1, <4>2, <2>1, <1>3
    <3> QED
      BY <3>1, <3>2
  <2>4. p1[b] = NULL => c1 = b
    <3>1. CASE b = n[a]
      BY <3>1, <1>4, <1>7
    <3>2. CASE b # n[a]
      BY <3>2, <1>1, <1>4, <1>7, <2>1
    <3> QED
      BY <3>1, <3>2
  <2> QED
    BY <2>2, <2>3, <2>4
<1>9. ASSUME NEW S \in SUBSET Q, c1 \in S,
             \A b \in S : n1[b] # NULL => n1[b] \in S
      PROVE  S = Q
  <2> DEFINE T == S \union {a}
  <2>1. T \in SUBSET R
    OBVIOUS
  <2>2. CASE p[a] = NULL
    <3>1. c \in T
      BY <2>2, <1>1
    <3>2. \A b \in T : n[b] # NULL => n[b] \in T
      BY <2>2, <1>3, <1>9, <1>7
    <3>3. T = R
      BY <2>1, <3>1, <3>2 DEF Linked
    <3> QED
      BY <3>3
  <2>3. CASE p[a] # NULL
    <3>1. c1 = c
      BY <2>3
    <3>2. \A b \in S : n[b] = a => b = p[a]
      BY <1>2, <1>7 DEF Linked
    <3>3. p[a] \in S
      <4> SUFFICES ASSUME p[a] \notin S PROVE FALSE
        OBVIOUS
      <4>1. \A b \in S : n[b] # NULL => n[b] \in S
        BY <1>9, <1>3, <1>7
      <4>2. S = R
        BY <4>1, <3>1, <1>9 DEF Linked
      <4> QED
        BY <4>2
    <3>4. n[a] # NULL => n[a] \in S
      BY <3>3, <1>3, <1>9, <1>7, <2>3
    <3>5. \A b \in T : n[b] # NULL => n[b] \in T
      BY <3>4, <1>9, <1>1, <1>3, <1>7, <2>3
    <3>6. c \in T
      BY <3>1, <1>9
    <3>7. T = R
      BY <2>1, <3>5, <3>6 DEF Linked
    <3> QED
      BY <3>7
  <2> QED
    BY <2>2, <2>3
<1>10. c1 = NULL <=> Q = {}
  <2>1. CASE p[a] # NULL
    BY <2>1, <1>1, <1>2, <1>6
  <2>2. CASE p[a] = NULL /\ n[a] # NULL
    BY <2>2, <1>1, <1>6
  <2>3. CASE p[a] = NULL /\ n[a] = NULL
    <3>1. {a} \in SUBSET R /\ c \in {a} /\ \A b \in {a} : n[b] = NULL
      BY <2>3, <1>1
    <3>2. \A S \in SUBSET R :
            c \in S /\ (\A b \in S : n[b] # NULL => n[b] \in S) => S = R
      BY DEF Linked
    <3>3. {a} = R
      BY <3>1, <3>2
    <3> QED
      BY <3>3, <2>3
  <2> QED
    BY <2>1, <2>2, <2>3
<1>11. c1 # NULL => c1 \in Q /\ p1[c1] = NULL
  <2>1. CASE p[a] # NULL
    BY <2>1, <1>1, <1>2, <1>4
  <2>2. CASE p[a] = NULL
    BY <2>2, <1>1, <1>4, <1>6
  <2> QED
    BY <2>1, <2>2
<1> QED
  <2>1. Linked(Q, c1, n1, p1)
    BY <1>8, <1>9, <1>10, <1>11 DEF Linked
  <2> HIDE DEF Q
  <2> QED
    BY <2>1, <1>5 DEF Q, HeadWithout, NextWithout, PrevWithout

-----------------------------------------------------------------------------
(* The inductive invariant.                                                *)

\* Where main, and where a worker, is in the critical section.
MainInSection == {"insert", "begin", "threadid", "count", "delete", "unlock"}
WorkerInSection == {"unlinking", "counting", "unlocking"}

\* The types, with any count.
Types ==
  /\ child \in Addresses \union {NULL}
  /\ next \in Links
  /\ prev \in Links
  /\ childcount \in Int
  /\ counter_mutex \in Addresses \union {NULL, Main}
  /\ worker \in [Addresses -> WorkerStages]
  /\ pc \in MainStages
  /\ newparam \in Addresses \union {NULL}
  /\ failures \in 0..MaxFailures
  /\ ended \in BOOLEAN

\* The thread that the mutex names is the one in the critical section.
MutexIsOwned ==
  /\ counter_mutex = Main <=> pc \in MainInSection
  /\ \A a \in Addresses : counter_mutex = a <=> worker[a] \in WorkerInSection

\* A worker without a thread is the one that main is registering; it is linked
\* to nothing until main puts it into the list.
NewIsMains ==
  /\ \A a \in Addresses :
       worker[a] = "new" =>
         a = newparam /\ pc \in {"lock", "insert", "begin", "threadid", "delete"}
  /\ pc \in {"lock", "insert", "begin", "threadid", "count", "delete"} =>
       newparam \in Addresses
  /\ pc \in {"lock", "insert", "begin", "delete"} => worker[newparam] = "new"
  /\ pc = "threadid" => worker[newparam] \in {"new", "running", "stuck", "locking"}
  /\ pc = "count" => worker[newparam] \in {"running", "stuck", "locking"}
  /\ pc \in {"lock", "insert"} =>
       next[newparam] = NULL /\ prev[newparam] = NULL

\* A registered worker that main has not counted yet, and one that has taken
\* itself out and not counted down.
Uncounted == IF \/ pc \in {"begin", "count"}
                \/ pc = "threadid" /\ worker[newparam] # "new"
               THEN 1 ELSE 0
Overcounted == IF \E a \in Addresses : worker[a] = "counting" THEN 1 ELSE 0

CountIsExact ==
  childcount = Cardinality(Registered) - failures - Uncounted + Overcounted

\* What main has decided on the old count still holds when it registers.
RoomIsLeft ==
  pc \in {"accept", "lock", "insert"} => Cardinality(Registered) < maxchild + failures

IInv ==
  /\ Types /\ MutexIsOwned /\ NewIsMains
  /\ ListIsLinked
  /\ CountIsExact
  /\ RoomIsLeft /\ AtMostMaxchild

-----------------------------------------------------------------------------

LEMMA RegisteredIsFinite ==
  /\ Registered \subseteq Addresses
  /\ IsFiniteSet(Registered)
  /\ Cardinality(Registered) \in Nat
PROOF
<1>1. Registered \subseteq Addresses
  BY DEF Registered
<1>2. IsFiniteSet(Registered)
  BY <1>1, PoolAssumption, FS_Subset
<1> QED
  BY <1>1, <1>2, FS_CardinalityType

LEMMA ListIsALinkedList == ListIsLinked <=> Linked(Registered, child, next, prev)
BY DEF ListIsLinked, Linked

LEMMA InitIInv == Init => IInv
PROOF
<1> SUFFICES ASSUME Init PROVE IInv
  OBVIOUS
<1> USE PoolAssumption DEF Init
<1>1. Types
  <2>1. ended \in BOOLEAN
    OBVIOUS
  <2>2. /\ child = NULL /\ next \in Links /\ prev \in Links
        /\ childcount \in Int /\ counter_mutex = NULL
        /\ worker \in [Addresses -> WorkerStages] /\ pc \in MainStages
        /\ newparam = NULL /\ failures \in 0..MaxFailures
    BY DEF Links, WorkerStages, MainStages
  <2> QED
    BY <2>1, <2>2 DEF Types
<1>2. MutexIsOwned /\ NewIsMains
  BY DEF MutexIsOwned, NewIsMains, MainInSection, WorkerInSection
<1>3. Registered = {}
  BY DEF Registered
<1>4. ListIsLinked
  BY <1>3 DEF ListIsLinked
<1>5. Cardinality(Registered) = 0
  BY <1>3, FS_EmptySet
<1>6. CountIsExact /\ RoomIsLeft /\ AtMostMaxchild
  BY <1>5 DEF CountIsExact, Uncounted, Overcounted, RoomIsLeft, AtMostMaxchild
<1> QED
  BY <1>1, <1>2, <1>4, <1>6 DEF IInv

\* The steps that neither put a worker into the list nor take one out.
QuietStep ==
  \/ RoomForAChild \/ PollError \/ Accept \/ MainLocks \/ BeginThread
  \/ WriteThreadid \/ CountChild \/ MainUnlocks \/ Drained \/ ProcessEnds
  \/ \E a \in Addresses : Finish(a) \/ Stick(a) \/ AssertFails(a) \/ WorkerLocks(a)
                          \/ WorkerCounts(a) \/ WorkerUnlocks(a) \/ Freed(a)

\* They keep the control part of the invariant.
LEMMA QuietControl ==
  ASSUME Types, MutexIsOwned, NewIsMains, QuietStep
  PROVE  Types' /\ MutexIsOwned' /\ NewIsMains'
PROOF
<1> USE PoolAssumption
    DEF Types, MutexIsOwned, NewIsMains, Links, WorkerStages, MainStages,
        MainInSection, WorkerInSection, MainStep, WorkerStep, ListUnchanged, Runs
<1>1. CASE RoomForAChild \/ PollError \/ Drained \/ ProcessEnds
  BY <1>1 DEF RoomForAChild, PollError, Drained, ProcessEnds
<1>2. CASE Accept
  BY <1>2 DEF Accept
<1>3. CASE MainLocks
  BY <1>3 DEF MainLocks
<1>4. CASE BeginThread
  BY <1>4 DEF BeginThread
<1>5. CASE WriteThreadid
  BY <1>5 DEF WriteThreadid
<1>6. CASE CountChild
  BY <1>6 DEF CountChild
<1>7. CASE MainUnlocks
  BY <1>7 DEF MainUnlocks
<1>8. ASSUME NEW a \in Addresses, Finish(a) \/ Stick(a)
      PROVE  Types' /\ MutexIsOwned' /\ NewIsMains'
  BY <1>8 DEF Finish, Stick
<1>9. ASSUME NEW a \in Addresses, WorkerLocks(a)
      PROVE  Types' /\ MutexIsOwned' /\ NewIsMains'
  BY <1>9 DEF WorkerLocks
<1>10. ASSUME NEW a \in Addresses, WorkerCounts(a)
       PROVE  Types' /\ MutexIsOwned' /\ NewIsMains'
  BY <1>10 DEF WorkerCounts
<1>11. ASSUME NEW a \in Addresses, WorkerUnlocks(a)
       PROVE  Types' /\ MutexIsOwned' /\ NewIsMains'
  BY <1>11 DEF WorkerUnlocks
<1>12. ASSUME NEW a \in Addresses, Freed(a)
       PROVE  Types' /\ MutexIsOwned' /\ NewIsMains'
  BY <1>12 DEF Freed
<1>13. ASSUME NEW a \in Addresses, AssertFails(a)
       PROVE  Types' /\ MutexIsOwned' /\ NewIsMains'
  BY <1>13 DEF AssertFails
<1> QED
  BY <1>1, <1>2, <1>3, <1>4, <1>5, <1>6, <1>7, <1>8, <1>9, <1>10, <1>11, <1>12, <1>13
     DEF QuietStep

LEMMA QuietRegistered ==
  ASSUME Types, MutexIsOwned, NewIsMains, QuietStep
  PROVE  Registered' = Registered
PROOF
<1> USE PoolAssumption
    DEF Registered, MainStep, WorkerStep, Types, NewIsMains, MainStages, WorkerStages
<1>1. CASE RoomForAChild \/ PollError \/ Drained \/ ProcessEnds
  BY <1>1 DEF RoomForAChild, PollError, Drained, ProcessEnds
<1>2. CASE Accept
  BY <1>2 DEF Accept
<1>3. CASE MainLocks
  BY <1>3 DEF MainLocks
<1>4. CASE BeginThread
  BY <1>4 DEF BeginThread
<1>5. CASE WriteThreadid
  BY <1>5 DEF WriteThreadid
<1>6. CASE CountChild
  BY <1>6 DEF CountChild
<1>7. CASE MainUnlocks
  BY <1>7 DEF MainUnlocks
<1>8. ASSUME NEW a \in Addresses,
             \/ Finish(a) \/ Stick(a) \/ AssertFails(a) \/ WorkerLocks(a)
             \/ WorkerCounts(a) \/ WorkerUnlocks(a) \/ Freed(a)
      PROVE  Registered' = Registered
  BY <1>8 DEF Finish, Stick, AssertFails, WorkerLocks, WorkerCounts, WorkerUnlocks, Freed
<1> QED
  BY <1>1, <1>2, <1>3, <1>4, <1>5, <1>6, <1>7, <1>8 DEF QuietStep

\* Accept clears the links of a worker that is in no list; nothing else is
\* written to a link.
LEMMA QuietLinks ==
  ASSUME Types, MutexIsOwned, NewIsMains, ListIsLinked, QuietStep
  PROVE  ListIsLinked'
PROOF
<1>1. child' = child /\ \A b \in Registered : next'[b] = next[b] /\ prev'[b] = prev[b]
  <2>1. CASE Accept
    BY <2>1 DEF Accept, Types, Links, Registered
  <2>2. CASE ~Accept
    BY <2>2 DEF QuietStep, ListUnchanged, RoomForAChild, PollError, MainLocks,
                BeginThread, WriteThreadid, CountChild, MainUnlocks, Drained,
                ProcessEnds, Finish, Stick, AssertFails, WorkerLocks, WorkerCounts, WorkerUnlocks, Freed
  <2> QED
    BY <2>1, <2>2
<1>2. Registered' = Registered
  BY QuietRegistered
<1>3. Linked(Registered, child, next, prev) => Linked(Registered, child', next', prev')
  BY <1>1 DEF Linked
<1>4. ListIsLinked' <=> Linked(Registered', child', next', prev')
  BY DEF ListIsLinked, Linked
<1> QED
  BY <1>2, <1>3, <1>4, ListIsALinkedList

\* What is uncounted in main's steps, and overcounted in the workers'.
LEMMA QuietCount ==
  ASSUME IInv, QuietStep
  PROVE  CountIsExact' /\ RoomIsLeft' /\ AtMostMaxchild'
PROOF
<1>1. Types /\ MutexIsOwned /\ NewIsMains /\ CountIsExact /\ RoomIsLeft /\ AtMostMaxchild
  BY DEF IInv
<1>2. PICK n \in Nat : Cardinality(Registered) = n /\ Cardinality(Registered') = n
  BY <1>1, QuietRegistered, RegisteredIsFinite
<1>3. /\ childcount = n - failures - Uncounted + Overcounted
      /\ pc \in {"accept", "lock", "insert"} => n < maxchild + failures
      /\ n <= maxchild + failures
  BY <1>1, <1>2 DEF CountIsExact, RoomIsLeft, AtMostMaxchild
<1>4. SUFFICES /\ childcount' = n - failures' - Uncounted' + Overcounted'
               /\ pc' \in {"accept", "lock", "insert"} => n < maxchild + failures'
               /\ n <= maxchild + failures'
  BY <1>2 DEF CountIsExact, RoomIsLeft, AtMostMaxchild
<1>5. /\ Uncounted \in {0, 1} /\ Overcounted \in {0, 1}
      /\ childcount \in Int /\ failures \in Nat /\ maxchild \in Nat
  BY <1>1, PoolAssumption DEF Uncounted, Overcounted, Types
<1> USE <1>3, <1>5 DEF MainStep, WorkerStep
<1>6. CASE RoomForAChild
  <2>1. Overcounted' = Overcounted /\ Uncounted = 0 /\ Uncounted' = 0
    BY <1>6 DEF RoomForAChild, Uncounted, Overcounted
  <2> QED
    BY <1>6, <2>1 DEF RoomForAChild
<1>7. CASE PollError \/ MainUnlocks \/ Drained \/ ProcessEnds
  <2>1. Overcounted' = Overcounted /\ Uncounted = 0 /\ Uncounted' = 0
    BY <1>7 DEF PollError, MainUnlocks, Drained, ProcessEnds, Uncounted, Overcounted
  <2> QED
    BY <1>7, <2>1 DEF PollError, MainUnlocks, Drained, ProcessEnds
<1>8. CASE Accept \/ MainLocks
  <2>1. Overcounted' = Overcounted
    BY <1>1, <1>8 DEF Accept, MainLocks, Overcounted, Types
  <2>2. Uncounted = 0 /\ Uncounted' = 0
    BY <1>8 DEF Accept, MainLocks, Uncounted
  <2> QED
    BY <1>8, <2>1, <2>2 DEF Accept, MainLocks
<1>9. CASE BeginThread
  <2>1. Overcounted' = Overcounted
    BY <1>1, <1>9 DEF BeginThread, Overcounted, Types, NewIsMains
  <2>2. Uncounted = 1
    BY <1>9 DEF BeginThread, Uncounted
  <2>3. \/ failures' = failures /\ Uncounted' = 1
        \/ failures' = failures + 1 /\ Uncounted' = 0
    BY <1>1, <1>9 DEF BeginThread, Uncounted, Types, NewIsMains
  <2>4. childcount' = childcount /\ pc' = "threadid"
    BY <1>9 DEF BeginThread
  <2> QED
    BY <2>1, <2>2, <2>3, <2>4
<1>10. CASE WriteThreadid
  <2>1. Overcounted' = Overcounted /\ Uncounted' = Uncounted
    BY <1>10 DEF WriteThreadid, Uncounted, Overcounted
  <2> QED
    BY <1>10, <2>1 DEF WriteThreadid
<1>11. CASE CountChild
  <2>1. Overcounted' = Overcounted /\ Uncounted = 1 /\ Uncounted' = 0
    BY <1>11 DEF CountChild, Uncounted, Overcounted
  <2> QED
    BY <1>11, <2>1 DEF CountChild
<1>12. ASSUME NEW a \in Addresses,
              Finish(a) \/ Stick(a) \/ WorkerLocks(a) \/ WorkerUnlocks(a) \/ Freed(a)
       PROVE  /\ childcount' = n - failures' - Uncounted' + Overcounted'
              /\ pc' \in {"accept", "lock", "insert"} => n < maxchild + failures'
              /\ n <= maxchild + failures'
  <2>1. PICK w \in WorkerStages :
          /\ worker[a] \notin {"new", "counting"} /\ w \notin {"new", "counting"}
          /\ worker' = [worker EXCEPT ![a] = w]
    BY <1>12 DEF Finish, Stick, WorkerLocks, WorkerUnlocks, Freed, WorkerStages
  <2>2. /\ pc' = pc /\ newparam' = newparam
        /\ failures' = failures /\ childcount' = childcount
    BY <1>12 DEF Finish, Stick, WorkerLocks, WorkerUnlocks, Freed
  <2>3. \A b \in Addresses : /\ worker'[b] = "counting" <=> worker[b] = "counting"
                             /\ worker'[b] = "new" <=> worker[b] = "new"
    BY <1>1, <2>1 DEF Types
  <2>4. Overcounted' = Overcounted
    BY <2>3 DEF Overcounted
  <2>5. Uncounted' = Uncounted
    BY <1>1, <2>2, <2>3 DEF Uncounted, NewIsMains
  <2> QED
    BY <2>2, <2>4, <2>5
<1>13. ASSUME NEW a \in Addresses, WorkerCounts(a)
       PROVE  /\ childcount' = n - failures' - Uncounted' + Overcounted'
              /\ pc' \in {"accept", "lock", "insert"} => n < maxchild + failures'
              /\ n <= maxchild + failures'
  <2>1. \A b \in Addresses : worker[b] = "counting" => b = a
    BY <1>1, <1>13 DEF WorkerCounts, MutexIsOwned, WorkerInSection
  <2>2. Overcounted = 1 /\ Overcounted' = 0
    BY <1>1, <1>13, <2>1 DEF WorkerCounts, Overcounted, Types
  <2>3. Uncounted' = Uncounted
    BY <1>1, <1>13 DEF WorkerCounts, Uncounted, Types
  <2>4. childcount' = childcount - 1 /\ pc' = pc /\ failures' = failures
    BY <1>13 DEF WorkerCounts
  <2> QED
    BY <2>2, <2>3, <2>4
<1>14. CASE \E a \in Addresses : \/ Finish(a) \/ Stick(a) \/ WorkerLocks(a)
                                \/ WorkerUnlocks(a) \/ Freed(a)
  BY <1>12, <1>14
<1>15. CASE \E a \in Addresses : WorkerCounts(a)
  BY <1>13, <1>15
<1>16. CASE \E a \in Addresses : AssertFails(a)
  <2>1. UNCHANGED << childcount, worker, pc, newparam, failures >>
    BY <1>16 DEF AssertFails
  <2>2. Overcounted' = Overcounted /\ Uncounted' = Uncounted
    BY <2>1 DEF Uncounted, Overcounted
  <2> QED
    BY <2>1, <2>2
<1> QED
  BY <1>6, <1>7, <1>8, <1>9, <1>10, <1>11, <1>14, <1>15, <1>16 DEF QuietStep

-----------------------------------------------------------------------------
(* The steps that change the list.                                         *)

\* main puts newparam in front.
LEMMA InsertKeeps ==
  ASSUME IInv, Insert
  PROVE  IInv'
PROOF
<1> USE PoolAssumption
<1>1. Types /\ MutexIsOwned /\ NewIsMains /\ ListIsLinked /\ CountIsExact /\ RoomIsLeft
  BY DEF IInv
<1>2. /\ pc = "insert" /\ pc' = "begin"
      /\ newparam \in Addresses /\ newparam \notin Registered
      /\ worker[newparam] = "new"
      /\ next[newparam] = NULL /\ prev[newparam] = NULL
      /\ child' = newparam
      /\ next' = IF child = NULL THEN next ELSE [next EXCEPT ![newparam] = child]
      /\ prev' = IF child = NULL THEN prev ELSE [prev EXCEPT ![child] = newparam]
      /\ UNCHANGED << childcount, counter_mutex, worker, newparam, failures, ended >>
  BY <1>1 DEF Insert, MainStep, Runs, NewIsMains, Registered
<1>3. Registered' = Registered \union {newparam}
  BY <1>1, <1>2 DEF Registered, NewIsMains
<1>4. Types' /\ MutexIsOwned' /\ NewIsMains'
  BY <1>1, <1>2 DEF Types, MutexIsOwned, NewIsMains, Links, MainStages, MainInSection
<1>5. ListIsLinked'
  <2>1. Linked(Registered \union {newparam}, newparam, next', prev')
    BY <1>1, <1>2, RegisteredIsFinite, ListIsALinkedList, InsertedIsLinked DEF Types
  <2>2. ListIsLinked' <=> Linked(Registered', child', next', prev')
    BY DEF ListIsLinked, Linked
  <2> QED
    BY <2>1, <2>2, <1>2, <1>3
<1>6. PICK n \in Nat : Cardinality(Registered) = n /\ Cardinality(Registered') = n + 1
  BY <1>2, <1>3, RegisteredIsFinite, FS_AddElement
<1>7. CountIsExact' /\ RoomIsLeft' /\ AtMostMaxchild'
  <2>1. /\ Overcounted' = Overcounted /\ Overcounted \in {0, 1}
        /\ Uncounted = 0 /\ Uncounted' = 1
    BY <1>2 DEF Overcounted, Uncounted
  <2>2. /\ childcount = n - failures + Overcounted
        /\ n < maxchild + failures
        /\ failures \in Nat /\ maxchild \in Nat
    BY <1>1, <1>2, <1>6, <2>1 DEF CountIsExact, RoomIsLeft, Types
  <2>3. childcount' = (n + 1) - failures' - Uncounted' + Overcounted'
    BY <1>2, <2>1, <2>2
  <2>4. n + 1 <= maxchild + failures'
    BY <1>2, <2>2
  <2> QED
    BY <2>3, <2>4, <1>2, <1>6 DEF CountIsExact, RoomIsLeft, AtMostMaxchild
<1> QED
  BY <1>4, <1>5, <1>7 DEF IInv

\* A worker is taken out, by its own thread or by main.
LEMMA UnlinkKeepsList ==
  ASSUME IInv, NEW a \in Registered, Unlink(a), Registered' = Registered \ {a}
  PROVE  /\ ListIsLinked'
         /\ child' \in Addresses \union {NULL} /\ next' \in Links /\ prev' \in Links
         /\ \A b \in Addresses \ Registered : next'[b] = next[b] /\ prev'[b] = prev[b]
         /\ \E n \in Nat : Cardinality(Registered) = n + 1 /\ Cardinality(Registered') = n
PROOF
<1>1. Types /\ Linked(Registered, child, next, prev) /\ a \in Addresses
  BY ListIsALinkedList, RegisteredIsFinite DEF IInv
<1>2. /\ child' = HeadWithout(a, child, next, prev)
      /\ next' = NextWithout(a, next, prev)
      /\ prev' = PrevWithout(a, next, prev)
  BY DEF Unlink, HeadWithout, NextWithout, PrevWithout
<1>3. /\ Linked(Registered \ {a}, child', next', prev')
      /\ \A b \in Addresses \ Registered : next'[b] = next[b] /\ prev'[b] = prev[b]
  <2>1. Registered \in SUBSET Addresses /\ next \in Links /\ prev \in Links
    BY <1>1, RegisteredIsFinite DEF Types
  <2>2. /\ Linked(Registered \ {a}, HeadWithout(a, child, next, prev),
                  NextWithout(a, next, prev), PrevWithout(a, next, prev))
        /\ \A b \in Addresses \ Registered : /\ NextWithout(a, next, prev)[b] = next[b]
                                             /\ PrevWithout(a, next, prev)[b] = prev[b]
    BY <1>1, <2>1, UnlinkedIsLinked
  <2> QED
    BY <1>2, <2>2
<1>4. ListIsLinked'
  <2>1. ListIsLinked' <=> Linked(Registered', child', next', prev')
    BY DEF ListIsLinked, Linked
  <2> QED
    BY <2>1, <1>3
<1>5. child' \in Addresses \union {NULL} /\ next' \in Links /\ prev' \in Links
  BY <1>1, <1>2 DEF Types, Links, HeadWithout, NextWithout, PrevWithout
<1>6. \E n \in Nat : Cardinality(Registered) = n + 1 /\ Cardinality(Registered') = n
  <2>1. Cardinality(Registered') = Cardinality(Registered) - 1 /\ IsFiniteSet(Registered')
    BY RegisteredIsFinite, FS_RemoveElement
  <2>2. Cardinality(Registered') \in Nat /\ Cardinality(Registered) \in Nat
    BY <2>1, RegisteredIsFinite, FS_CardinalityType
  <2> QED
    BY <2>1, <2>2
<1> QED
  BY <1>3, <1>4, <1>5, <1>6

\* main deletes the worker whose thread could not be started.
LEMMA DeleteNewKeeps ==
  ASSUME IInv, DeleteNew
  PROVE  IInv'
PROOF
<1> USE PoolAssumption
<1>1. Types /\ MutexIsOwned /\ NewIsMains /\ CountIsExact /\ RoomIsLeft /\ AtMostMaxchild
  BY DEF IInv
<1>2. /\ pc = "delete" /\ pc' = "unlock"
      /\ newparam \in Registered /\ newparam \in Addresses
      /\ Unlink(newparam)
      /\ childcount' = childcount - 1
      /\ worker[newparam] = "new"
      /\ worker' = [worker EXCEPT ![newparam] = "free"]
      /\ UNCHANGED << counter_mutex, newparam, failures, ended >>
  BY <1>1 DEF DeleteNew, MainStep, Runs, NewIsMains, Registered
<1>3. Registered' = Registered \ {newparam}
  BY <1>1, <1>2 DEF Registered, Types, NewIsMains, WorkerStages
<1>4. /\ ListIsLinked'
      /\ child' \in Addresses \union {NULL} /\ next' \in Links /\ prev' \in Links
  BY <1>2, <1>3, UnlinkKeepsList
<1>5. Types' /\ MutexIsOwned' /\ NewIsMains'
  BY <1>1, <1>2, <1>4 DEF Types, MutexIsOwned, NewIsMains, MainStages, WorkerStages,
                          MainInSection, WorkerInSection
<1>6. PICK n \in Nat : Cardinality(Registered) = n + 1 /\ Cardinality(Registered') = n
  BY <1>2, <1>3, UnlinkKeepsList
<1>7. CountIsExact' /\ RoomIsLeft' /\ AtMostMaxchild'
  <2>1. Overcounted' = Overcounted /\ Overcounted \in {0, 1}
    BY <1>1, <1>2 DEF Overcounted, Types
  <2>2. Uncounted = 0 /\ Uncounted' = 0
    BY <1>2 DEF Uncounted
  <2>3. /\ childcount = (n + 1) - failures + Overcounted
        /\ n + 1 <= maxchild + failures
        /\ failures \in Nat /\ maxchild \in Nat
    BY <1>1, <1>6, <2>1, <2>2 DEF CountIsExact, AtMostMaxchild, Types
  <2>4. childcount' = n - failures' - Uncounted' + Overcounted'
    BY <1>2, <2>1, <2>2, <2>3
  <2>5. n <= maxchild + failures'
    BY <1>2, <2>3
  <2> QED
    BY <2>4, <2>5, <1>2, <1>6 DEF CountIsExact, RoomIsLeft, AtMostMaxchild
<1> QED
  BY <1>4, <1>5, <1>7 DEF IInv

\* A worker takes itself out; it is overcounted until it has counted down.
LEMMA WorkerUnlinksKeeps ==
  ASSUME IInv, NEW a \in Addresses, WorkerUnlinks(a)
  PROVE  IInv'
PROOF
<1> USE PoolAssumption
<1>1. Types /\ MutexIsOwned /\ NewIsMains /\ CountIsExact /\ RoomIsLeft /\ AtMostMaxchild
  BY DEF IInv
<1>2. /\ worker[a] = "unlinking"
      /\ worker' = [worker EXCEPT ![a] = "counting"]
      /\ a \in Registered
      /\ Unlink(a)
      /\ UNCHANGED << pc, newparam, failures, ended, childcount, counter_mutex >>
  BY DEF WorkerUnlinks, WorkerStep, Runs, Registered
<1>3. Registered' = Registered \ {a}
  BY <1>1, <1>2 DEF Registered, Types, WorkerStages
<1>4. /\ ListIsLinked'
      /\ child' \in Addresses \union {NULL} /\ next' \in Links /\ prev' \in Links
      /\ \A b \in Addresses \ Registered : next'[b] = next[b] /\ prev'[b] = prev[b]
  BY <1>2, <1>3, UnlinkKeepsList
<1>5. Types' /\ MutexIsOwned'
  BY <1>1, <1>2, <1>4 DEF Types, MutexIsOwned, WorkerStages, WorkerInSection
<1>6. NewIsMains'
  <2>1. pc \in {"lock", "insert"} => newparam \in Addresses \ Registered
    BY <1>1 DEF NewIsMains, Registered
  <2> QED
    BY <1>1, <1>2, <1>4, <2>1 DEF NewIsMains, Types
<1>7. PICK n \in Nat : Cardinality(Registered) = n + 1 /\ Cardinality(Registered') = n
  BY <1>2, <1>3, UnlinkKeepsList
<1>8. CountIsExact' /\ RoomIsLeft' /\ AtMostMaxchild'
  <2>1. Overcounted = 0 /\ Overcounted' = 1
    BY <1>1, <1>2 DEF Overcounted, Types, MutexIsOwned, WorkerInSection
  <2>2. Uncounted' = Uncounted /\ Uncounted \in {0, 1}
    BY <1>1, <1>2 DEF Uncounted, Types
  <2>3. /\ childcount = (n + 1) - failures - Uncounted
        /\ n + 1 <= maxchild + failures
        /\ pc \in {"accept", "lock", "insert"} => n + 1 < maxchild + failures
        /\ failures \in Nat /\ maxchild \in Nat
    BY <1>1, <1>7, <2>1, <2>2 DEF CountIsExact, RoomIsLeft, AtMostMaxchild, Types
  <2>4. childcount' = n - failures' - Uncounted' + Overcounted'
    BY <1>2, <2>1, <2>2, <2>3
  <2>5. /\ n <= maxchild + failures'
        /\ pc' \in {"accept", "lock", "insert"} => n < maxchild + failures'
    BY <1>2, <2>3
  <2> QED
    BY <2>4, <2>5, <1>7 DEF CountIsExact, RoomIsLeft, AtMostMaxchild
<1> QED
  BY <1>4, <1>5, <1>6, <1>8 DEF IInv

-----------------------------------------------------------------------------

LEMMA NextIInv == IInv /\ [Next]_vars => IInv'
PROOF
<1> SUFFICES ASSUME IInv, [Next]_vars PROVE IInv'
  OBVIOUS
<1>1. CASE QuietStep
  <2>1. Types' /\ MutexIsOwned' /\ NewIsMains'
    BY <1>1, QuietControl DEF IInv
  <2>2. ListIsLinked'
    BY <1>1, QuietLinks DEF IInv
  <2>3. CountIsExact' /\ RoomIsLeft' /\ AtMostMaxchild'
    BY <1>1, QuietCount
  <2> QED
    BY <2>1, <2>2, <2>3 DEF IInv
<1>2. CASE Insert
  BY <1>2, InsertKeeps
<1>3. CASE DeleteNew
  BY <1>3, DeleteNewKeeps
<1>4. CASE \E a \in Addresses : WorkerUnlinks(a)
  BY <1>4, WorkerUnlinksKeeps
<1>5. CASE UNCHANGED vars
  BY <1>5 DEF vars, IInv, Types, MutexIsOwned, NewIsMains, ListIsLinked, Registered,
              CountIsExact, Uncounted, Overcounted, RoomIsLeft, AtMostMaxchild
<1>6. Next => QuietStep \/ Insert \/ DeleteNew \/ \E a \in Addresses : WorkerUnlinks(a)
  BY DEF Next, MainThread, Thread, QuietStep
<1> QED
  BY <1>1, <1>2, <1>3, <1>4, <1>5, <1>6

\* What the invariant says in the words of the properties.
LEMMA IInvImplies ==
  ASSUME IInv
  PROVE  TypeOK /\ CountIsRegistered /\ ThreadidIsWrittenToAWorker
PROOF
<1> USE PoolAssumption
<1>1. Types /\ MutexIsOwned /\ NewIsMains /\ CountIsExact
  BY DEF IInv
<1>2. PICK n \in Nat : Cardinality(Registered) = n
  BY RegisteredIsFinite
<1>3. PICK m \in Nat : Cardinality(Addresses) = m
  BY FS_CardinalityType
<1>4. childcount = n - failures - Uncounted + Overcounted
  BY <1>1, <1>2 DEF CountIsExact
<1>5. CountIsRegistered
  <2>1. counter_mutex = NULL => Uncounted = 0
    BY <1>1 DEF MutexIsOwned, MainInSection, Uncounted
  <2>2. counter_mutex = NULL => Overcounted = 0
    BY <1>1 DEF MutexIsOwned, WorkerInSection, Overcounted
  <2> QED
    BY <1>1, <1>2, <1>4, <2>1, <2>2 DEF CountIsRegistered, Types
<1>6. n + Overcounted <= m
  <2>1. n <= m
    BY <1>2, <1>3, RegisteredIsFinite, FS_Subset
  <2>2. Overcounted = 1 => n < m
    <3> SUFFICES ASSUME Overcounted = 1 PROVE n # m
      BY <2>1
    <3>1. Registered # Addresses
      BY <1>1 DEF Overcounted, Registered
    <3> QED
      BY <3>1, <1>2, <1>3, RegisteredIsFinite, FS_Subset
  <2> QED
    BY <2>1, <2>2 DEF Overcounted
<1>7. n >= Uncounted
  <2>1. Uncounted = 1 => newparam \in Registered
    BY <1>1 DEF Uncounted, NewIsMains, Registered
  <2>2. Uncounted = 1 => n # 0
    BY <2>1, <1>2, RegisteredIsFinite, FS_EmptySet
  <2> QED
    BY <2>2 DEF Uncounted
<1>8. childcount \in (-MaxFailures)..Cardinality(Addresses)
  <2>1. /\ Uncounted \in {0, 1} /\ Overcounted \in {0, 1}
        /\ failures \in 0..MaxFailures /\ MaxFailures \in Nat
    BY <1>1 DEF Uncounted, Overcounted, Types
  <2> QED
    BY <1>3, <1>4, <1>6, <1>7, <2>1
<1>9. TypeOK
  BY <1>1, <1>8 DEF TypeOK, Types, Links
<1>10. ThreadidIsWrittenToAWorker
  BY <1>1 DEF ThreadidIsWrittenToAWorker, NewIsMains
<1> QED
  BY <1>5, <1>9, <1>10

\* Who is in the critical section, and what of a change to the registry is done
\* and not yet counted: the invariant from which the others follow.
THEOREM PoolInvariant == Spec => []IInv
BY InitIInv, NextIInv, PTL DEF Spec

\* The type invariant, for any number of workers.
THEOREM PoolTypeCorrect == Spec => []TypeOK
BY PoolInvariant, IInvImplies, PTL

\* Whatever workers come and go, in whatever order they splice the list, it is
\* doubly linked and has the registered workers in it (Main.cpp 366-370,
\* ProxyServer.cpp 1180-1187).
THEOREM ListStaysLinked == Spec => []ListIsLinked
PROOF
<1>1. IInv => ListIsLinked
  BY DEF IInv
<1> QED
  BY <1>1, PoolInvariant, PTL

\* childcount is the number of registered workers, less the threads that could
\* not be started (Main.cpp 389, ProxyServer.cpp 1188).
THEOREM CountFollowsTheList == Spec => []CountIsRegistered
BY PoolInvariant, IInvImplies, PTL

\* main's bound on the workers holds, up to those threads, although main reads
\* the count without the mutex (Main.cpp 274).
THEOREM BoundOnWorkersHolds == Spec => []AtMostMaxchild
PROOF
<1>1. IInv => AtMostMaxchild
  BY DEF IInv
<1> QED
  BY <1>1, PoolInvariant, PTL

\* main writes newparam->threadid to a worker that has not been freed
\* (Main.cpp 387).
THEOREM NewparamIsNotFreed == Spec => []ThreadidIsWrittenToAWorker
BY PoolInvariant, IInvImplies, PTL

=============================================================================

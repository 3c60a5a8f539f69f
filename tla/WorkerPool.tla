------------------------------ MODULE WorkerPool ------------------------------
(***************************************************************************)
(* The accept loop (Main.cpp) and the registry of its workers: a doubly    *)
(* linked list of ProxyWorkers and their count, under counter_mutex.  Main *)
(* registers a worker and starts its thread; the worker's destructor takes *)
(* it out (ProxyServer.cpp), on the worker's thread.  What proxychild does *)
(* before is HandleRequest's: here it comes to its end, or never does, or  *)
(* a failed Assert in it stops the program.                                *)
(*                                                                         *)
(* An address is used again when its worker has been freed.                *)
(***************************************************************************)
EXTENDS Integers, FiniteSets

CONSTANTS Addresses, NULL, Main,
          maxchild,
          MaxFailures   \* bound on the threads that cannot be started

ASSUME PoolAssumption ==
  /\ IsFiniteSet(Addresses)
  /\ NULL \notin Addresses /\ Main \notin Addresses /\ NULL # Main
  /\ maxchild \in Nat \ {0}
  /\ MaxFailures \in Nat

VARIABLES
  child, next, prev,  \* the list: its head and the workers' links
  childcount,
  counter_mutex,      \* the thread that is in the critical section, or NULL
  worker,             \* where each worker's thread is
  pc,                 \* where the main thread is
  newparam,           \* the worker main is registering
  failures,           \* the threads that could not be started (history)
  ended               \* whether the process has ended

vars == << child, next, prev, childcount, counter_mutex, worker, pc, newparam,
           failures, ended >>

\* "free": not allocated; "new": no thread yet; "running": proxychild; "stuck":
\* in one of its two places that have no end; then the steps of the destructor.
WorkerStages == {"free", "new", "running", "stuck", "locking", "unlinking",
                 "counting", "unlocking", "closing"}
MainStages == {"room", "accept", "lock", "insert", "begin", "threadid", "count",
               "delete", "unlock", "draining", "returned"}

Init ==
  /\ child = NULL
  /\ next = [a \in Addresses |-> NULL]
  /\ prev = [a \in Addresses |-> NULL]
  /\ childcount = 0
  /\ counter_mutex = NULL
  /\ worker = [a \in Addresses |-> "free"]
  /\ pc = "room"
  /\ newparam = NULL
  /\ failures = 0
  /\ ended = FALSE

-----------------------------------------------------------------------------
(* The main thread.                                                        *)

\* No thread outlives the process.
Runs == ~ended /\ UNCHANGED ended

MainStep(from, to) == pc = from /\ pc' = to /\ Runs

ListUnchanged == UNCHANGED << child, next, prev >>

\* Faulty variant of RoomForAChild: one more fits.
RoomForOneMore ==
  /\ MainStep("room", "accept")
  /\ childcount <= maxchild
  /\ ListUnchanged
  /\ UNCHANGED << childcount, counter_mutex, worker, newparam, failures >>

\* The count is read without the mutex; then the listening socket is polled.
RoomForAChild ==
  /\ MainStep("room", "accept")
  /\ childcount < maxchild
  /\ ListUnchanged
  /\ UNCHANGED << childcount, counter_mutex, worker, newparam, failures >>

\* poll fails: the loop is left.
PollError ==
  /\ MainStep("accept", "draining")
  /\ ListUnchanged
  /\ UNCHANGED << childcount, counter_mutex, worker, newparam, failures >>

\* A client is accepted and its worker allocated.
Accept ==
  /\ MainStep("accept", "lock")
  /\ \E a \in Addresses :
       /\ worker[a] = "free"
       /\ worker' = [worker EXCEPT ![a] = "new"]
       /\ newparam' = a
       /\ next' = [next EXCEPT ![a] = NULL]
       /\ prev' = [prev EXCEPT ![a] = NULL]
  /\ UNCHANGED << child, childcount, counter_mutex, failures >>

MainLocks ==
  /\ MainStep("lock", "insert")
  /\ counter_mutex = NULL
  /\ counter_mutex' = Main
  /\ ListUnchanged
  /\ UNCHANGED << childcount, worker, newparam, failures >>

Insert ==
  /\ MainStep("insert", "begin")
  /\ child' = newparam
  /\ IF child = NULL
       THEN UNCHANGED << next, prev >>
       ELSE /\ next' = [next EXCEPT ![newparam] = child]
            /\ prev' = [prev EXCEPT ![child] = newparam]
  /\ UNCHANGED << childcount, counter_mutex, worker, newparam, failures >>

BeginThread ==
  /\ MainStep("begin", "threadid")
  /\ \/ /\ worker' = [worker EXCEPT ![newparam] = "running"]
        /\ UNCHANGED failures
     \/ /\ failures < MaxFailures
        /\ failures' = failures + 1
        /\ UNCHANGED worker
  /\ ListUnchanged
  /\ UNCHANGED << childcount, counter_mutex, newparam >>

\* newparam->threadid is written, whether there is a thread or not.
WriteThreadid ==
  /\ Runs
  /\ pc = "threadid"
  /\ pc' = IF worker[newparam] = "new" THEN "delete" ELSE "count"
  /\ ListUnchanged
  /\ UNCHANGED << childcount, counter_mutex, worker, newparam, failures >>

\* Faulty variant of CountChild: the worker is not counted.
CountNoChild ==
  /\ MainStep("count", "unlock")
  /\ ListUnchanged
  /\ UNCHANGED << childcount, counter_mutex, worker, newparam, failures >>

CountChild ==
  /\ MainStep("count", "unlock")
  /\ childcount' = childcount + 1
  /\ ListUnchanged
  /\ UNCHANGED << counter_mutex, worker, newparam, failures >>

\* Faulty variants of Unlink: the successor keeps its prev, the head its child.
UnlinkKeepsPrev(a) ==
  /\ IF prev[a] # NULL
       THEN /\ next' = [next EXCEPT ![prev[a]] = next[a]]
            /\ UNCHANGED child
       ELSE /\ child' = next[a]
            /\ UNCHANGED next
  /\ UNCHANGED prev

\* The destructor's part on the list.
Unlink(a) ==
  /\ IF prev[a] # NULL
       THEN /\ next' = [next EXCEPT ![prev[a]] = next[a]]
            /\ UNCHANGED child
       ELSE /\ child' = next[a]
            /\ UNCHANGED next
  /\ prev' = IF next[a] # NULL THEN [prev EXCEPT ![next[a]] = prev[a]] ELSE prev

\* No thread: main runs the destructor itself, in its own critical section.
DeleteNew ==
  /\ MainStep("delete", "unlock")
  /\ Unlink(newparam)
  /\ childcount' = childcount - 1
  /\ worker' = [worker EXCEPT ![newparam] = "free"]
  /\ UNCHANGED << counter_mutex, newparam, failures >>

MainUnlocks ==
  /\ MainStep("unlock", "room")
  /\ counter_mutex' = NULL
  /\ newparam' = NULL
  /\ ListUnchanged
  /\ UNCHANGED << childcount, worker, failures >>

\* The head of the list is read without the mutex until it is NULL.  main's return
\* destroys srv and its mutex.  A destructor that has taken the last worker out
\* and not counted or unlocked yet goes on with the memory that was srv's, which
\* nobody reads any more, or the process ends under it.
Drained ==
  /\ MainStep("draining", "returned")
  /\ child = NULL
  /\ ListUnchanged
  /\ UNCHANGED << childcount, counter_mutex, worker, newparam, failures >>

\* The process ends behind main's return, whatever threads there are.
ProcessEnds ==
  /\ pc = "returned"
  /\ ~ended
  /\ ended' = TRUE
  /\ UNCHANGED << child, next, prev, childcount, counter_mutex, worker, pc,
                  newparam, failures >>

-----------------------------------------------------------------------------
(* A worker's thread.                                                      *)

WorkerStep(a, from, to) ==
  /\ worker[a] = from
  /\ worker' = [worker EXCEPT ![a] = to]
  /\ Runs
  /\ UNCHANGED << pc, newparam, failures >>

\* proxychild is done: the worker is deleted.
Finish(a) ==
  /\ WorkerStep(a, "running", "locking")
  /\ ListUnchanged
  /\ UNCHANGED << childcount, counter_mutex >>

\* proxychild is never done: the loop over delimiters has begun, or a sendto on a
\* socket that blocks does not return.
Stick(a) ==
  /\ WorkerStep(a, "running", "stuck")
  /\ ListUnchanged
  /\ UNCHANGED << childcount, counter_mutex >>

\* A failed Assert in proxychild stops the program.
AssertFails(a) ==
  /\ worker[a] = "running"
  /\ ~ended
  /\ ended' = TRUE
  /\ UNCHANGED << child, next, prev, childcount, counter_mutex, worker, pc,
                  newparam, failures >>

\* Faulty variant of WorkerLocks: the mutex is not waited for.
WorkerDoesNotWait(a) ==
  /\ WorkerStep(a, "locking", "unlinking")
  /\ counter_mutex' = a
  /\ ListUnchanged
  /\ UNCHANGED childcount

WorkerLocks(a) ==
  /\ WorkerStep(a, "locking", "unlinking")
  /\ counter_mutex = NULL
  /\ counter_mutex' = a
  /\ ListUnchanged
  /\ UNCHANGED childcount

WorkerUnlinks(a) ==
  /\ WorkerStep(a, "unlinking", "counting")
  /\ Unlink(a)
  /\ UNCHANGED << childcount, counter_mutex >>

\* Faulty variant of WorkerCounts: the worker stays counted.
WorkerStaysCounted(a) ==
  /\ WorkerStep(a, "counting", "unlocking")
  /\ ListUnchanged
  /\ UNCHANGED << childcount, counter_mutex >>

WorkerCounts(a) ==
  /\ WorkerStep(a, "counting", "unlocking")
  /\ childcount' = childcount - 1
  /\ ListUnchanged
  /\ UNCHANGED counter_mutex

\* Faulty variant of WorkerUnlocks: the mutex is kept.
WorkerKeepsMutex(a) ==
  /\ WorkerStep(a, "unlocking", "closing")
  /\ ListUnchanged
  /\ UNCHANGED << childcount, counter_mutex >>

WorkerUnlocks(a) ==
  /\ WorkerStep(a, "unlocking", "closing")
  /\ counter_mutex' = NULL
  /\ ListUnchanged
  /\ UNCHANGED childcount

\* The sockets are closed and the worker's memory is free.
Freed(a) ==
  /\ WorkerStep(a, "closing", "free")
  /\ ListUnchanged
  /\ UNCHANGED << childcount, counter_mutex >>

MainThread ==
  \/ RoomForAChild \/ PollError \/ Accept \/ MainLocks \/ Insert \/ BeginThread
  \/ WriteThreadid \/ CountChild \/ DeleteNew \/ MainUnlocks \/ Drained
  \/ ProcessEnds

Thread(a) ==
  \/ Finish(a) \/ Stick(a) \/ AssertFails(a)
  \/ WorkerLocks(a) \/ WorkerUnlinks(a) \/ WorkerCounts(a)
  \/ WorkerUnlocks(a) \/ Freed(a)

Next == MainThread \/ \E a \in Addresses : Thread(a)

Spec == Init /\ [][Next]_vars

\* Threads are scheduled, and a critical section is not kept from a thread for
\* ever.  A thread in proxychild takes one of its three ways (HandleRequest:
\* WorkerEnds), of which no end is one.
FairSpec ==
  /\ Spec
  /\ WF_vars(MainThread) /\ SF_vars(MainLocks)
  /\ \A a \in Addresses : WF_vars(Thread(a)) /\ SF_vars(WorkerLocks(a))

-----------------------------------------------------------------------------

\* The values the variables range over.  The count can be negative: see
\* CountIsRegistered.
TypeOK ==
  /\ child \in Addresses \union {NULL}
  /\ next \in [Addresses -> Addresses \union {NULL}]
  /\ prev \in [Addresses -> Addresses \union {NULL}]
  /\ childcount \in (-MaxFailures)..Cardinality(Addresses)
  /\ counter_mutex \in Addresses \union {NULL, Main}
  /\ worker \in [Addresses -> WorkerStages]
  /\ pc \in MainStages
  /\ newparam \in Addresses \union {NULL}
  /\ failures \in 0..MaxFailures
  /\ ended \in BOOLEAN

\* The workers that are in the list.
Registered ==
  { a \in Addresses :
      \/ worker[a] \in {"running", "stuck", "locking", "unlinking"}
      \/ worker[a] = "new" /\ pc \in {"begin", "threadid", "delete"} }

\* The list is doubly linked, from a head without a predecessor, and it links
\* the registered workers, all of them and no others: none is lost from it by
\* another's insertion or removal, and none is freed while the list leads to it.
ListIsLinked ==
  /\ child = NULL <=> Registered = {}
  /\ child # NULL => child \in Registered /\ prev[child] = NULL
  /\ \A a \in Registered :
       /\ next[a] # NULL => next[a] \in Registered /\ prev[next[a]] = a
       /\ prev[a] # NULL => prev[a] \in Registered /\ next[prev[a]] = a
       /\ prev[a] = NULL => child = a
  /\ \A S \in SUBSET Registered :
       child \in S /\ (\A a \in S : next[a] # NULL => next[a] \in S)
         => S = Registered

\* When no thread is in the critical section, childcount is the number of
\* workers in the list, less one for every thread that could not be started:
\* that worker's destructor counts down what was never counted up.
CountIsRegistered ==
  counter_mutex = NULL => childcount = Cardinality(Registered) - failures

\* There are at most maxchild workers at a time, and one more for every thread
\* that could not be started, although main reads the count without the mutex.
AtMostMaxchild == Cardinality(Registered) <= maxchild + failures

\* Main writes newparam->threadid after the worker's thread has started: the
\* worker is never freed before, since its destructor needs the mutex.
ThreadidIsWrittenToAWorker ==
  pc \in {"threadid", "count", "delete"} =>
    worker[newparam] \in {"new", "running", "stuck", "locking"}

\* What the warning reports as the number of connected clients is that number.
ConnectedIsCount ==
  counter_mutex = NULL => childcount = Cardinality(Registered)

\* Every worker whose proxychild comes to its end goes away, unless the process
\* ends before: nothing that main or another worker does keeps it from leaving,
\* not even a worker that is stuck.
WorkersGoAway ==
  \A a \in Addresses :
    worker[a] \in {"running", "locking"} ~> worker[a] \in {"free", "stuck"} \/ ended


=============================================================================

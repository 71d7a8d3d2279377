----------------------- MODULE ConcurrentServerProofs -----------------------
(***************************************************************************)
(* What the thread pool of concurrent_server.cpp keeps, whatever the       *)
(* number of workers, clients and descriptors and the length of the queue: *)
(* who holds a descriptor, and what is counted and woken.                  *)
(***************************************************************************)
EXTENDS ConcurrentServer, FiniteSetTheorems, TLAPS

(* The types that the argument needs. *)
Types ==
    /\ shut \subseteq Clients
    /\ open \in [Fds -> Clients \cup {None}]
    /\ client \in Fds \cup {None}
    /\ worker \in [Workers -> [pc : WorkerStages, fd : Fds \cup {None}, ok : BOOLEAN]]
    /\ pending \in Seq(Fds)
    /\ active_connections \subseteq Fds

(* Who holds a descriptor can be read off the program counters. *)
Counters ==
    /\ \A w \in Workers : worker[w].fd # None <=> worker[w].pc \in Holding
    /\ \A w \in sleeping : w \in Workers /\ worker[w].pc = "asleep"
    /\ client # None <=> own \in {"enqueue", "reject"}

(* What is held is open, and what is open is held. *)
HeldIsOpen ==
    /\ \A w \in Workers : worker[w].fd # None => open[worker[w].fd] # None
    /\ \A i \in 1 .. Len(pending) : open[pending[i]] # None
    /\ client # None => open[client] # None

OpenIsHeld ==
    \A f \in Fds : open[f] # None =>
        \/ client = f
        \/ \E i \in 1 .. Len(pending) : pending[i] = f
        \/ \E w \in Workers : worker[w].fd = f

(* No two holders hold the same. *)
Apart ==
    /\ \A v, w \in Workers : v # w /\ worker[v].fd # None => worker[v].fd # worker[w].fd
    /\ \A i \in 1 .. Len(pending) :
          client # pending[i] /\ \A w \in Workers : worker[w].fd # pending[i]
    /\ \A i, j \in 1 .. Len(pending) : i # j => pending[i] # pending[j]
    /\ client # None => \A w \in Workers : worker[w].fd # client

(* The registered descriptors. *)
ActiveSet ==
    \A f \in Fds : f \in active_connections <=>
        \E w \in Workers : worker[w].pc \in Registered /\ worker[w].fd = f

PoolInv ==
    Types /\ Counters /\ HeldIsOpen /\ OpenIsHeld /\ Apart /\ ActiveSet /\ NobodyMissedByShutdown

LEMMA NoneIsNoFd == None \notin Fds /\ None \notin Clients
BY ServerAssumption

LEMMA InitPool == Init => PoolInv
<1> SUFFICES ASSUME Init PROVE PoolInv
  OBVIOUS
<1> USE NoneIsNoFd DEF Init
<1>1. Types
  BY DEF Types, WorkerStages
<1>2. Counters /\ HeldIsOpen /\ OpenIsHeld /\ Apart
  BY DEF Counters, HeldIsOpen, OpenIsHeld, Apart, Holding, Registered
<1>3. ActiveSet /\ NobodyMissedByShutdown
  BY DEF ActiveSet, NobodyMissedByShutdown, Registered, Mine
<1> QED  BY <1>1, <1>2, <1>3 DEF PoolInv

Blocked == {"auth", "first", "lock", "locked"}

(* A step that moves workers, and perhaps the owner, between places where   *)
(* they hold the same.                                                      *)
LEMMA MoveStep ==
    ASSUME PoolInv,
           UNCHANGED <<shut, open, client, pending, active_connections, active_stopping>>,
           worker' \in [Workers -> [pc : WorkerStages, fd : Fds \cup {None}, ok : BOOLEAN]],
           \A w \in Workers :
              /\ worker'[w].fd = worker[w].fd
              /\ worker'[w].pc \in Holding <=> worker[w].pc \in Holding
              /\ worker'[w].pc \in Registered <=> worker[w].pc \in Registered
              /\ worker'[w].pc \in Blocked => worker[w].pc \in Blocked,
           \A w \in sleeping' : w \in Workers /\ worker'[w].pc = "asleep",
           own' \in {"enqueue", "reject"} <=> own \in {"enqueue", "reject"}
    PROVE  PoolInv'
<1>1. Types'
  BY DEF PoolInv, Types
<1>2. Counters'
  BY DEF PoolInv, Counters
<1>3. HeldIsOpen'
  BY DEF PoolInv, HeldIsOpen
<1>4. OpenIsHeld'
  BY DEF PoolInv, OpenIsHeld
<1>5. Apart'
  BY DEF PoolInv, Apart
<1>6. ActiveSet'
  BY DEF PoolInv, ActiveSet
<1>7. NobodyMissedByShutdown'
  BY DEF PoolInv, NobodyMissedByShutdown, Mine, Blocked
<1> QED  BY <1>1, <1>2, <1>3, <1>4, <1>5, <1>6, <1>7 DEF PoolInv

(* A step that moves only the owner. *)
LEMMA OwnerMoveStep ==
    ASSUME PoolInv,
           UNCHANGED <<shut, open, client, worker, sleeping, pending, active_connections,
                       active_stopping>>,
           own' \in {"enqueue", "reject"} <=> own \in {"enqueue", "reject"}
    PROVE  PoolInv'
<1>1. worker' \in [Workers -> [pc : WorkerStages, fd : Fds \cup {None}, ok : BOOLEAN]]
  BY DEF PoolInv, Types
<1>2. \A w \in sleeping' : w \in Workers /\ worker'[w].pc = "asleep"
  BY DEF PoolInv, Counters
<1> QED  BY <1>1, <1>2, MoveStep

(* A step that moves one worker. *)
LEMMA WorkerMoveStep ==
    ASSUME PoolInv, NEW w \in Workers, NEW pc \in WorkerStages,
           UNCHANGED <<own, shut, open, client, pending, active_connections, active_stopping>>,
           worker' = [worker EXCEPT ![w].pc = pc],
           sleeping' \subseteq sleeping \cup {w},
           w \in sleeping' => pc = "asleep",
           pc \in Holding <=> worker[w].pc \in Holding,
           pc \in Registered <=> worker[w].pc \in Registered,
           pc \in Blocked => worker[w].pc \in Blocked
    PROVE  PoolInv'
<1>1. worker' \in [Workers -> [pc : WorkerStages, fd : Fds \cup {None}, ok : BOOLEAN]]
  BY DEF PoolInv, Types
<1>2. \A v \in sleeping' : v \in Workers /\ worker'[v].pc = "asleep"
  BY DEF PoolInv, Types, Counters
<1>3. \A v \in Workers :
          /\ worker'[v].fd = worker[v].fd
          /\ worker'[v].pc \in Holding <=> worker[v].pc \in Holding
          /\ worker'[v].pc \in Registered <=> worker[v].pc \in Registered
          /\ worker'[v].pc \in Blocked => worker[v].pc \in Blocked
  BY DEF PoolInv, Types
<1> QED  BY <1>1, <1>2, <1>3, MoveStep

(* The owner and the callers of request_stop: steps that touch no           *)
(* descriptor.                                                              *)
LEMMA IdleSteps ==
    ASSUME PoolInv,
           \/ \E c \in Clients : ClientConnects(c) \/ ClientLeaves(c)
           \/ Signal \/ RequestStop
           \/ Listen \/ EpollReady \/ StartFails \/ WorkerStartError \/ Started \/ Run \/ Destroy
           \/ Poll \/ EpollWait \/ AcceptEnds \/ AcceptError \/ Join
    PROVE  PoolInv'
<1> USE DEF poolVars, activeVars, OwnerGoes, OwnerOnly
<1>1. CASE \E c \in Clients : ClientConnects(c) \/ ClientLeaves(c)
  BY <1>1, OwnerMoveStep DEF ClientConnects, ClientLeaves
<1>2. CASE Signal \/ RequestStop
  BY <1>2, OwnerMoveStep DEF Signal, RequestStop
<1>3. CASE Listen \/ EpollReady \/ StartFails
  BY <1>3, OwnerMoveStep DEF Listen, EpollReady, StartFails
<1>4. CASE WorkerStartError \/ Started \/ Run \/ Destroy
  BY <1>4, OwnerMoveStep DEF WorkerStartError, Started, Run, Destroy
<1>5. CASE Poll \/ EpollWait
  BY <1>5, OwnerMoveStep DEF Poll, EpollWait
<1>6. CASE AcceptEnds \/ AcceptError \/ Join
  BY <1>6, OwnerMoveStep, SMTT(30) DEF AcceptEnds, AcceptError, Join
<1> QED  BY <1>1, <1>2, <1>3, <1>4, <1>5, <1>6

(* Steps that move workers without passing a descriptor on. *)
LEMMA StartWorkerStep == PoolInv /\ StartWorker => PoolInv'
<1> SUFFICES ASSUME PoolInv, StartWorker PROVE PoolInv'
  OBVIOUS
<1>1. PICK w \in Absent : worker' = [worker EXCEPT ![w].pc = "take"]
  BY Zenon DEF StartWorker, WorkerGoes
<1>2. w \in Workers /\ worker[w].pc = "absent" /\ w \notin sleeping
  BY <1>1 DEF Absent, PoolInv, Counters
<1>3. /\ own' = own /\ sleeping' = sleeping
      /\ UNCHANGED <<shut, open, client, pending, active_connections, active_stopping>>
  BY DEF StartWorker, OwnerGoes, poolVars, activeVars
<1> QED  BY <1>1, <1>2, <1>3, WorkerMoveStep, Zenon DEF WorkerStages, Holding, Registered, Blocked

LEMMA NotifyOneStep == PoolInv /\ NotifyOne => PoolInv'
<1> SUFFICES ASSUME PoolInv, NotifyOne PROVE PoolInv'
  OBVIOUS
<1>1. /\ own = "notify" /\ own' = "accept"
      /\ UNCHANGED <<shut, open, client, pending, active_connections, active_stopping>>
  BY DEF NotifyOne, OwnerGoes, activeVars
<1>2. CASE sleeping = {}
  BY <1>1, <1>2, OwnerMoveStep DEF NotifyOne
<1>3. CASE sleeping # {}
  <2>1. PICK w \in sleeping : sleeping' = sleeping \ {w} /\ worker' = [worker EXCEPT ![w].pc = "take"]
    BY <1>3 DEF NotifyOne, WorkerGoes
  <2>2. w \in Workers /\ worker[w].pc = "asleep"
    BY <2>1 DEF PoolInv, Counters
  <2>3. worker' \in [Workers -> [pc : WorkerStages, fd : Fds \cup {None}, ok : BOOLEAN]]
    BY <2>1, <2>2 DEF PoolInv, Types, WorkerStages
  <2>4. \A v \in sleeping' : v \in Workers /\ worker'[v].pc = "asleep"
    BY <2>1, <2>2 DEF PoolInv, Types, Counters
  <2>5. \A v \in Workers :
            /\ worker'[v].fd = worker[v].fd
            /\ worker'[v].pc \in Holding <=> worker[v].pc \in Holding
            /\ worker'[v].pc \in Registered <=> worker[v].pc \in Registered
            /\ worker'[v].pc \in Blocked => worker[v].pc \in Blocked
    BY <2>1, <2>2 DEF PoolInv, Types, Holding, Registered, Blocked
  <2> QED  BY <1>1, <2>3, <2>4, <2>5, MoveStep
<1> QED  BY <1>2, <1>3

LEMMA NotifyAllStep == PoolInv /\ NotifyAll => PoolInv'
<1> SUFFICES ASSUME PoolInv, NotifyAll PROVE PoolInv'
  OBVIOUS
<1>1. /\ own = "notifyall" /\ own' = "join" /\ sleeping' = {}
      /\ UNCHANGED <<shut, open, client, pending, active_connections, active_stopping>>
  BY DEF NotifyAll, OwnerGoes, activeVars
<1>2. \A v \in Workers :
          worker'[v] = IF v \in sleeping THEN [worker[v] EXCEPT !.pc = "take"] ELSE worker[v]
  BY DEF NotifyAll
<1>3. \A v \in sleeping : worker[v].pc = "asleep"
  BY DEF PoolInv, Counters
<1>4. \A v \in Workers : worker[v] \in [pc : WorkerStages, fd : Fds \cup {None}, ok : BOOLEAN]
  BY DEF PoolInv, Types
<1>5. \A v \in Workers :
          /\ worker'[v] \in [pc : WorkerStages, fd : Fds \cup {None}, ok : BOOLEAN]
          /\ worker'[v].fd = worker[v].fd
          /\ worker'[v].pc \in Holding <=> worker[v].pc \in Holding
          /\ worker'[v].pc \in Registered <=> worker[v].pc \in Registered
          /\ worker'[v].pc \in Blocked => worker[v].pc \in Blocked
  <2> TAKE v \in Workers
  <2>1. CASE v \in sleeping
    <3>1. worker'[v] = [worker[v] EXCEPT !.pc = "take"] /\ worker[v].pc = "asleep"
      BY <1>2, <1>3, <2>1
    <3>2. worker[v] \in [pc : WorkerStages, fd : Fds \cup {None}, ok : BOOLEAN]
      BY <1>4
    <3>3. /\ worker'[v] \in [pc : WorkerStages, fd : Fds \cup {None}, ok : BOOLEAN]
          /\ worker'[v].fd = worker[v].fd /\ worker'[v].pc = "take"
      BY <3>1, <3>2 DEF WorkerStages
    <3> QED  BY <3>1, <3>3 DEF Holding, Registered, Blocked
  <2>2. CASE v \notin sleeping
    BY <1>2, <1>4, <2>2, Zenon
  <2> QED  BY <2>1, <2>2
<1>6. worker' \in [Workers -> [pc : WorkerStages, fd : Fds \cup {None}, ok : BOOLEAN]]
  BY <1>5 DEF NotifyAll
<1> QED  BY <1>1, <1>5, <1>6, MoveStep

LEMMA SessionSteps ==
    ASSUME PoolInv, NEW w \in Workers,
           SpuriousWakeup(w) \/ Authenticated(w) \/ FirstFrame(w) \/ LockDestination(w)
             \/ CountResult(w)
    PROVE  PoolInv'
<1> USE DEF WorkerGoes, SessionGoes, ServerSide, poolVars, activeVars
<1>1. w \in sleeping => worker[w].pc = "asleep"
  BY DEF PoolInv, Counters
<1>2. CASE SpuriousWakeup(w)
  BY <1>1, <1>2, WorkerMoveStep, ZenonT(30) DEF SpuriousWakeup, WorkerStages, Holding, Registered, Blocked
<1>3. CASE Authenticated(w)
  BY <1>1, <1>3, WorkerMoveStep, ZenonT(30) DEF Authenticated, WorkerStages, Holding, Registered, Blocked
<1>4. CASE FirstFrame(w)
  BY <1>1, <1>4, WorkerMoveStep, ZenonT(30) DEF FirstFrame, WorkerStages, Holding, Registered, Blocked
<1>5. CASE LockDestination(w)
  BY <1>1, <1>5, WorkerMoveStep, ZenonT(30) DEF LockDestination, WorkerStages, Holding, Registered, Blocked
<1>6. CASE CountResult(w)
  BY <1>1, <1>6, WorkerMoveStep, Zenon DEF CountResult, WorkerStages, Holding, Registered, Blocked
<1> QED  BY <1>2, <1>3, <1>4, <1>5, <1>6

LEMMA SessionReturnsStep ==
    ASSUME PoolInv, NEW w \in Workers,
           SessionSucceeds(w) \/ SessionFails(w) \/ SessionAborts(w)
    PROVE  PoolInv'
<1>1. PICK ok \in BOOLEAN : worker' = [worker EXCEPT ![w].pc = "erase", ![w].ok = ok]
  BY Zenon DEF SessionSucceeds, SessionFails, SessionAborts, SessionReturns
<1>2. /\ UNCHANGED <<shut, open, client, pending, active_connections, active_stopping>>
      /\ own' = own /\ sleeping' = sleeping
  BY DEF SessionSucceeds, SessionFails, SessionAborts, SessionReturns, ServerSide, poolVars,
         activeVars
<1>3. worker[w].pc \in Blocked
  BY Zenon DEF SessionSucceeds, SessionFails, SessionAborts, Blocking, Blocked
<1>4. worker' \in [Workers -> [pc : WorkerStages, fd : Fds \cup {None}, ok : BOOLEAN]]
  BY <1>1, ZenonT(30) DEF PoolInv, Types, WorkerStages
<1>5. \A v \in Workers :
          /\ worker'[v].fd = worker[v].fd
          /\ worker'[v].pc \in Holding <=> worker[v].pc \in Holding
          /\ worker'[v].pc \in Registered <=> worker[v].pc \in Registered
          /\ worker'[v].pc \in Blocked => worker[v].pc \in Blocked
  BY <1>1, <1>3 DEF PoolInv, Types, Holding, Registered, Blocked
<1>6. \A v \in sleeping' : v \in Workers /\ worker'[v].pc = "asleep"
  BY <1>1, <1>2, <1>3 DEF PoolInv, Types, Counters, Blocked
<1> QED  BY <1>2, <1>4, <1>5, <1>6, MoveStep

(* The shutdown scan reaches every session that has been registered. *)
LEMMA ShutdownStep ==
    ASSUME PoolInv, ShutdownActive,
           UNCHANGED <<open, client, worker, sleeping, pending>>,
           own' \in {"enqueue", "reject"} <=> own \in {"enqueue", "reject"}
    PROVE  PoolInv'
<1>1. Types'
  BY DEF PoolInv, Types, ShutdownActive
<1>2. Counters' /\ HeldIsOpen' /\ OpenIsHeld' /\ Apart'
  BY DEF PoolInv, Counters, HeldIsOpen, OpenIsHeld, Apart
<1>3. ActiveSet'
  BY DEF PoolInv, ActiveSet, ShutdownActive
<1>4. ASSUME NEW w \in Workers, worker[w].pc \in Blocked
      PROVE  open[worker[w].fd] \in shut'
  <2>1. worker[w].fd # None /\ worker[w].fd \in Fds
    BY <1>4, NoneIsNoFd DEF PoolInv, Types, Counters, Holding, Registered, Blocked
  <2>2. open[worker[w].fd] # None /\ worker[w].fd \in active_connections
    BY <1>4, <2>1 DEF PoolInv, HeldIsOpen, ActiveSet, Registered, Blocked
  <2> QED  BY <2>1, <2>2 DEF ShutdownActive
<1>5. NobodyMissedByShutdown'
  BY <1>4 DEF NobodyMissedByShutdown, Mine, Blocked
<1> QED  BY <1>1, <1>2, <1>3, <1>5 DEF PoolInv

LEMMA ScanSteps == PoolInv /\ (RequestStopScans \/ StopScans) => PoolInv'
BY ShutdownStep DEF RequestStopScans, StopScans, poolVars, lifecycleVars

(* accept4 hands out a descriptor that nobody holds. *)
LEMMA AcceptStep == PoolInv /\ Accept => PoolInv'
<1> SUFFICES ASSUME PoolInv, Accept PROVE PoolInv'
  OBVIOUS
<1>1. PICK c \in Clients, f \in Fds :
          open[f] = None /\ open' = [open EXCEPT ![f] = c] /\ client' = f
  BY Zenon DEF Accept, Backlog, FreeFds
<1>2. /\ own = "accept" /\ own' = "enqueue"
      /\ UNCHANGED <<shut, worker, sleeping, pending, active_connections, active_stopping>>
  BY DEF Accept, poolVars, activeVars
<1>3. client = None /\ f # None /\ c # None
  BY <1>2, NoneIsNoFd DEF PoolInv, Counters
<1>4. \A w \in Workers : worker[w].fd # f
  BY <1>1, <1>3 DEF PoolInv, HeldIsOpen
<1>5. \A i \in 1 .. Len(pending) : pending[i] # f /\ pending[i] \in Fds
  BY <1>1 DEF PoolInv, HeldIsOpen, Types
<1>6. \A w \in Workers : worker[w].fd \in Fds \cup {None}
  BY DEF PoolInv, Types
<1>7. open \in [Fds -> Clients \cup {None}] /\ \A g \in Fds : open'[g] = IF g = f THEN c ELSE open[g]
  BY <1>1 DEF PoolInv, Types
<1>8. Types'
  BY <1>1, <1>2 DEF PoolInv, Types
<1>9. Counters'
  BY <1>1, <1>2, <1>3 DEF PoolInv, Counters
<1>10. HeldIsOpen'
  BY <1>1, <1>2, <1>3, <1>5, <1>6, <1>7 DEF PoolInv, HeldIsOpen
<1>11. OpenIsHeld'
  <2> SUFFICES ASSUME NEW g \in Fds, open'[g] # None, g # f
               PROVE  \/ \E i \in 1 .. Len(pending) : pending[i] = g
                      \/ \E w \in Workers : worker[w].fd = g
    BY <1>1, <1>2 DEF OpenIsHeld
  <2>1. open[g] # None /\ client # g
    BY <1>3, <1>7, NoneIsNoFd
  <2> QED  BY <2>1 DEF PoolInv, OpenIsHeld
<1>12. Apart'
  BY <1>1, <1>2, <1>4, <1>5 DEF PoolInv, Apart
<1>13. ActiveSet'
  BY <1>2 DEF PoolInv, ActiveSet
<1>14. NobodyMissedByShutdown'
  <2>1. \A w \in Workers : worker[w].pc \in Blocked => worker[w].fd \in Fds
    BY <1>6 DEF PoolInv, Counters, Holding, Registered, Blocked
  <2> QED  BY <1>2, <1>4, <1>7, <2>1 DEF PoolInv, NobodyMissedByShutdown, Mine, Blocked
<1> QED  BY <1>8, <1>9, <1>10, <1>11, <1>12, <1>13, <1>14 DEF PoolInv

(* The accepted descriptor passes from the owner to the queue. *)
LEMMA EnqueueStep == PoolInv /\ Enqueue => PoolInv'
<1> SUFFICES ASSUME PoolInv, Enqueue PROVE PoolInv'
  OBVIOUS
<1>1. /\ own = "enqueue"
      /\ UNCHANGED <<shut, open, worker, sleeping, active_connections, active_stopping>>
  BY DEF Enqueue, activeVars
<1>2. CASE ~(~workers_stopping /\ Len(pending) < MaxPending)
  BY <1>1, <1>2, OwnerMoveStep DEF Enqueue, OwnerGoes
<1>3. CASE ~workers_stopping /\ Len(pending) < MaxPending
  <2>1. pending' = Append(pending, client) /\ client' = None /\ own' = "notify"
    BY <1>3 DEF Enqueue, OwnerGoes
  <2>2. client \in Fds /\ client # None
    BY <1>1 DEF PoolInv, Types, Counters
  <2>3. /\ pending' \in Seq(Fds) /\ Len(pending') = Len(pending) + 1
        /\ \A i \in 1 .. Len(pending) : pending'[i] = pending[i]
        /\ pending'[Len(pending) + 1] = client
        /\ Len(pending) \in Nat
    BY <2>1, <2>2 DEF PoolInv, Types
  <2>4. \A i \in 1 .. Len(pending') : i \in 1 .. Len(pending) \/ i = Len(pending) + 1
    BY <2>3
  <2>5. Types'
    BY <1>1, <2>1, <2>3 DEF PoolInv, Types
  <2>6. Counters'
    BY <1>1, <2>1 DEF PoolInv, Counters
  <2>7. HeldIsOpen'
    BY <1>1, <2>1, <2>2, <2>3, <2>4 DEF PoolInv, HeldIsOpen
  <2>8. OpenIsHeld'
    BY <1>1, <2>1, <2>3 DEF PoolInv, OpenIsHeld
  <2>9. Apart'
    <3>1. \A v, w \in Workers : v # w /\ worker'[v].fd # None => worker'[v].fd # worker'[w].fd
      BY <1>1 DEF PoolInv, Apart
    <3>2. \A i \in 1 .. Len(pending') :
              client' # pending'[i] /\ \A w \in Workers : worker'[w].fd # pending'[i]
      BY <1>1, <2>1, <2>2, <2>3, <2>4, NoneIsNoFd DEF PoolInv, Apart, Types
    <3>3. \A i, j \in 1 .. Len(pending') : i # j => pending'[i] # pending'[j]
      BY <2>3, <2>4 DEF PoolInv, Apart
    <3> QED  BY <2>1, <3>1, <3>2, <3>3 DEF Apart
  <2>10. ActiveSet' /\ NobodyMissedByShutdown'
    BY <1>1 DEF PoolInv, ActiveSet, NobodyMissedByShutdown, Mine
  <2> QED  BY <2>5, <2>6, <2>7, <2>8, <2>9, <2>10 DEF PoolInv
<1> QED  BY <1>2, <1>3

(* The owner closes what it holds. *)
LEMMA RejectStep == PoolInv /\ Reject => PoolInv'
<1> SUFFICES ASSUME PoolInv, Reject PROVE PoolInv'
  OBVIOUS
<1>1. /\ own = "reject" /\ own' = "accept" /\ client' = None
      /\ UNCHANGED <<shut, worker, sleeping, pending, active_connections, active_stopping>>
  BY DEF Reject, OwnerGoes, poolVars, activeVars
<1>2. \A g \in Fds : open'[g] = IF g = client THEN None ELSE open[g]
  BY DEF Reject, Closed
<1>3. client \in Fds /\ client # None
  BY <1>1 DEF PoolInv, Types, Counters
<1>4. \A w \in Workers : worker[w].fd # client /\ worker[w].fd \in Fds \cup {None}
  BY <1>3 DEF PoolInv, Apart, Types
<1>5. \A i \in 1 .. Len(pending) : pending[i] # client /\ pending[i] \in Fds
  BY DEF PoolInv, Apart, Types
<1>6. Types'
  BY <1>1 DEF PoolInv, Types, Reject, Closed
<1>7. Counters'
  BY <1>1 DEF PoolInv, Counters
<1>8. HeldIsOpen'
  BY <1>1, <1>2, <1>4, <1>5 DEF PoolInv, HeldIsOpen
<1>9. OpenIsHeld'
  BY <1>1, <1>2 DEF PoolInv, OpenIsHeld
<1>10. Apart'
  BY <1>1, <1>5, NoneIsNoFd DEF PoolInv, Apart
<1>11. ActiveSet'
  BY <1>1 DEF PoolInv, ActiveSet
<1>12. NobodyMissedByShutdown'
  <2>1. \A w \in Workers : worker[w].pc \in Blocked => worker[w].fd \in Fds
    BY <1>4 DEF PoolInv, Counters, Holding, Registered, Blocked
  <2> QED  BY <1>1, <1>2, <1>4, <2>1 DEF PoolInv, NobodyMissedByShutdown, Mine, Blocked
<1> QED  BY <1>6, <1>7, <1>8, <1>9, <1>10, <1>11, <1>12 DEF PoolInv

(* stop_workers closes what the queue holds, and nothing else. *)
LEMMA StopDrainsStep == PoolInv /\ StopDrains => PoolInv'
<1> SUFFICES ASSUME PoolInv, StopDrains PROVE PoolInv'
  OBVIOUS
<1>1. /\ own = "drain" /\ own' = "notifyall" /\ pending' = << >>
      /\ UNCHANGED <<shut, client, worker, sleeping, active_connections, active_stopping>>
  BY DEF StopDrains, OwnerGoes, activeVars
<1>2. \A g \in Fds : open'[g] = IF g \in Range(pending) THEN None ELSE open[g]
  BY DEF StopDrains, Closed
<1>3. pending \in Seq(Fds) /\ DOMAIN pending = 1 .. Len(pending)
  BY DEF PoolInv, Types
<1>4. \A g : g \in Range(pending) <=> \E i \in 1 .. Len(pending) : pending[i] = g
  BY <1>3 DEF Range
<1>5. client = None
  BY <1>1 DEF PoolInv, Counters
<1>6. \A w \in Workers : worker[w].fd \notin Range(pending) /\ worker[w].fd \in Fds \cup {None}
  BY <1>4 DEF PoolInv, Apart, Types
<1>7. Len(pending') = 0
  BY <1>1
<1>8. Types'
  BY <1>1 DEF PoolInv, Types, StopDrains, Closed
<1>9. Counters'
  BY <1>1 DEF PoolInv, Counters
<1>10. HeldIsOpen'
  BY <1>1, <1>2, <1>5, <1>6, <1>7 DEF PoolInv, HeldIsOpen
<1>11. OpenIsHeld'
  BY <1>1, <1>2, <1>4, <1>7 DEF PoolInv, OpenIsHeld
<1>12. Apart'
  BY <1>1, <1>5, <1>7 DEF PoolInv, Apart
<1>13. ActiveSet'
  BY <1>1 DEF PoolInv, ActiveSet
<1>14. NobodyMissedByShutdown'
  <2>1. \A w \in Workers : worker[w].pc \in Blocked => worker[w].fd \in Fds
    BY <1>6 DEF PoolInv, Counters, Holding, Registered, Blocked
  <2> QED  BY <1>1, <1>2, <1>6, <2>1 DEF PoolInv, NobodyMissedByShutdown, Mine, Blocked
<1> QED  BY <1>8, <1>9, <1>10, <1>11, <1>12, <1>13, <1>14 DEF PoolInv

(* A descriptor passes from the head of the queue to a worker. *)
LEMMA TakeStep == ASSUME PoolInv, NEW w \in Workers, Take(w) PROVE PoolInv'
<1>1. /\ worker[w].pc = "take"
      /\ UNCHANGED <<own, shut, open, client, active_connections, active_stopping>>
  BY DEF Take, ServerSide, activeVars
<1>2. w \notin sleeping /\ worker[w].fd = None
  BY <1>1 DEF PoolInv, Counters, Holding, Registered
<1>3. CASE pending = << >> /\ workers_stopping
  BY <1>1, <1>2, <1>3, WorkerMoveStep DEF Take, WorkerGoes, WorkerStages, Holding, Registered, Blocked
<1>4. CASE pending = << >> /\ ~workers_stopping
  BY <1>1, <1>2, <1>4, WorkerMoveStep DEF Take, WorkerGoes, WorkerStages, Holding, Registered, Blocked
<1>5. CASE pending # << >>
  <2>1. /\ worker' = [worker EXCEPT ![w].pc = "register", ![w].fd = Head(pending)]
        /\ pending' = Tail(pending) /\ sleeping' = sleeping
    BY <1>5 DEF Take
  <2>2. /\ pending \in Seq(Fds) /\ Len(pending) \in Nat /\ Len(pending) >= 1
        /\ Head(pending) = pending[1] /\ pending[1] \in Fds
        /\ pending' \in Seq(Fds) /\ Len(pending') = Len(pending) - 1
        /\ \A i \in 1 .. Len(pending') : pending'[i] = pending[i + 1]
    BY <1>5, <2>1 DEF PoolInv, Types
  <2>3. /\ 1 \in 1 .. Len(pending)
         /\ \A i \in 1 .. Len(pending') :
               pending'[i] = pending[i + 1] /\ i + 1 \in 1 .. Len(pending) /\ i + 1 # 1
    BY <2>2
  <2>4. \A i \in 1 .. Len(pending) :
             i # 1 => i - 1 \in 1 .. Len(pending') /\ pending'[i - 1] = pending[i]
    <3> TAKE i \in 1 .. Len(pending)
    <3> HAVE i # 1
    <3>1. i - 1 \in 1 .. Len(pending') /\ (i - 1) + 1 = i
      BY <2>2
    <3> QED  BY <2>2, <3>1
  <2>5. /\ worker' \in [Workers -> [pc : WorkerStages, fd : Fds \cup {None}, ok : BOOLEAN]]
        /\ worker'[w].pc = "register" /\ worker'[w].fd = pending[1]
        /\ \A v \in Workers \ {w} : worker'[v] = worker[v]
    BY <2>1, <2>2, ZenonT(30) DEF PoolInv, Types, WorkerStages
  <2>6. Types'
    BY <1>1, <2>2, <2>5 DEF PoolInv, Types
  <2>7. Counters'
    BY <1>1, <1>2, <2>1, <2>2, <2>5, NoneIsNoFd DEF PoolInv, Counters, Holding, Registered
  <2>8. HeldIsOpen'
    <3>1. \A v \in Workers : worker'[v].fd # None => open[worker'[v].fd] # None
      BY <2>5, <2>3 DEF PoolInv, HeldIsOpen
    <3>2. \A i \in 1 .. Len(pending') : open[pending'[i]] # None
      BY <2>3 DEF PoolInv, HeldIsOpen
    <3> QED  BY <1>1, <3>1, <3>2 DEF PoolInv, HeldIsOpen
  <2>9. OpenIsHeld'
    <3> SUFFICES ASSUME NEW g \in Fds, open[g] # None
                 PROVE  \/ client = g
                        \/ \E i \in 1 .. Len(pending') : pending'[i] = g
                        \/ \E v \in Workers : worker'[v].fd = g
      BY <1>1 DEF OpenIsHeld
    <3>1. CASE \E i \in 1 .. Len(pending) : pending[i] = g
      <4>1. PICK i \in 1 .. Len(pending) : pending[i] = g
        BY <3>1
      <4>2. CASE i = 1
        BY <2>5, <4>1, <4>2
      <4>3. CASE i # 1
        BY <2>4, <4>1, <4>3
      <4> QED  BY <4>2, <4>3
    <3>2. CASE \E v \in Workers : worker[v].fd = g
      BY <1>2, <2>5, <3>2, NoneIsNoFd
    <3> QED  BY <3>1, <3>2 DEF PoolInv, OpenIsHeld
  <2>10. Apart'
    <3>1. \A v, u \in Workers : v # u /\ worker'[v].fd # None => worker'[v].fd # worker'[u].fd
      BY <2>5, <2>3 DEF PoolInv, Apart
    <3>2. \A i \in 1 .. Len(pending') :
              client' # pending'[i] /\ \A v \in Workers : worker'[v].fd # pending'[i]
      <4> TAKE i \in 1 .. Len(pending')
      <4>1. /\ i + 1 \in 1 .. Len(pending) /\ pending'[i] = pending[i + 1]
            /\ pending[1] # pending[i + 1]
        BY <2>3 DEF PoolInv, Apart
      <4>2. client # pending[i + 1] /\ \A v \in Workers : worker[v].fd # pending[i + 1]
        BY <4>1 DEF PoolInv, Apart
      <4> QED  BY <1>1, <2>5, <4>1, <4>2
    <3>3. \A i, j \in 1 .. Len(pending') : i # j => pending'[i] # pending'[j]
      <4> TAKE i, j \in 1 .. Len(pending')
      <4> HAVE i # j
      <4>1. i + 1 # j + 1 /\ i + 1 \in 1 .. Len(pending) /\ j + 1 \in 1 .. Len(pending)
        BY <2>2
      <4> QED  BY <2>3, <4>1 DEF PoolInv, Apart
    <3>4. client' # None => \A v \in Workers : worker'[v].fd # client'
      BY <1>1, <2>5, <2>3 DEF PoolInv, Apart
    <3> QED  BY <3>1, <3>2, <3>3, <3>4 DEF Apart
  <2>11. ActiveSet'
    BY <1>1, <2>5, SMTT(30) DEF PoolInv, ActiveSet, Registered
  <2>12. NobodyMissedByShutdown'
    BY <1>1, <2>5 DEF PoolInv, NobodyMissedByShutdown, Mine
  <2> QED  BY <2>6, <2>7, <2>8, <2>9, <2>10, <2>11, <2>12 DEF PoolInv
<1> QED  BY <1>3, <1>4, <1>5

(* A worker that is not registered closes what it holds. *)
LEMMA ReleaseStep ==
    ASSUME PoolInv, NEW w \in Workers,
           UNCHANGED <<own, shut, client, sleeping, pending, active_connections, active_stopping>>,
           worker[w].fd \in Fds, worker[w].fd # None, w \notin sleeping,
           worker[w].pc \notin Registered,
           \A g \in Fds : open'[g] = IF g = worker[w].fd THEN None ELSE open[g],
           open' \in [Fds -> Clients \cup {None}],
           worker' \in [Workers -> [pc : WorkerStages, fd : Fds \cup {None}, ok : BOOLEAN]],
           worker'[w].pc = "take", worker'[w].fd = None,
           \A v \in Workers \ {w} : worker'[v] = worker[v]
    PROVE  PoolInv'
<1>1. \A v \in Workers \ {w} : worker[v].fd # worker[w].fd /\ worker[v].fd \in Fds \cup {None}
  BY DEF PoolInv, Apart, Types
<1>2. \A i \in 1 .. Len(pending) : pending[i] # worker[w].fd /\ pending[i] \in Fds
  BY DEF PoolInv, Apart, Types
<1>3. client # worker[w].fd
  BY DEF PoolInv, Apart
<1>4. "take" \notin Holding /\ "take" \notin Registered /\ "take" \notin Blocked
  BY DEF Holding, Registered, Blocked
<1>5. Types'
  BY DEF PoolInv, Types
<1>6. Counters'
  BY <1>4 DEF PoolInv, Counters
<1>7. HeldIsOpen'
  <2>1. \A v \in Workers : worker'[v].fd # None => open'[worker'[v].fd] # None
    BY <1>1 DEF PoolInv, HeldIsOpen
  <2>2. \A i \in 1 .. Len(pending) : open'[pending[i]] # None
    BY <1>2 DEF PoolInv, HeldIsOpen
  <2>3. client # None => open'[client] # None
    BY <1>3 DEF PoolInv, HeldIsOpen, Types
  <2> QED  BY <2>1, <2>2, <2>3, SMTT(30) DEF HeldIsOpen
<1>8. OpenIsHeld'
  <2> SUFFICES ASSUME NEW g \in Fds, open'[g] # None
               PROVE  \/ client = g
                      \/ \E i \in 1 .. Len(pending) : pending[i] = g
                      \/ \E v \in Workers : worker'[v].fd = g
    BY DEF OpenIsHeld
  <2>1. g # worker[w].fd /\ open[g] # None
    OBVIOUS
  <2> QED  BY <2>1, SMTT(30) DEF PoolInv, OpenIsHeld
<1>9. Apart'
  <2>1. \A v, u \in Workers : v # u /\ worker'[v].fd # None => worker'[v].fd # worker'[u].fd
    BY SMTT(30) DEF PoolInv, Apart
  <2>2. \A i \in 1 .. Len(pending) :
            client # pending[i] /\ \A v \in Workers : worker'[v].fd # pending[i]
    BY <1>2, NoneIsNoFd, SMTT(30) DEF PoolInv, Apart
  <2>3. client # None => \A v \in Workers : worker'[v].fd # client
    BY DEF PoolInv, Apart
  <2>4. \A i, j \in 1 .. Len(pending) : i # j => pending[i] # pending[j]
    BY DEF PoolInv, Apart
  <2> QED  BY <2>1, <2>2, <2>3, <2>4, SMTT(30) DEF Apart
<1>10. ActiveSet'
  BY <1>4 DEF PoolInv, ActiveSet
<1>11. NobodyMissedByShutdown'
  <2>1. \A v \in Workers : worker'[v].pc \in Blocked => v # w /\ worker[v].fd \in Fds
    BY <1>1, <1>4 DEF PoolInv, Counters, Holding, Registered, Blocked
  <2> QED  BY <1>1, <2>1 DEF PoolInv, NobodyMissedByShutdown, Mine, Blocked
<1> QED  BY <1>5, <1>6, <1>7, <1>8, <1>9, <1>10, <1>11, SMTT(30) DEF PoolInv

(* A worker registers its descriptor or, when the server stops, closes it. *)
LEMMA RegisterStep == ASSUME PoolInv, NEW w \in Workers, Register(w) PROVE PoolInv'
<1>1. /\ worker[w].pc = "register"
      /\ UNCHANGED <<own, shut, client, sleeping, pending, active_stopping>>
  BY DEF Register, ServerSide, poolVars
<1>2. worker[w].fd \in Fds /\ worker[w].fd # None /\ w \notin sleeping
  BY <1>1, NoneIsNoFd DEF PoolInv, Types, Counters, Holding
<1>3. CASE active_stopping
  <2>1. /\ \A g \in Fds : open'[g] = IF g = worker[w].fd THEN None ELSE open[g]
        /\ open' \in [Fds -> Clients \cup {None}]
        /\ worker' = [worker EXCEPT ![w].pc = "take", ![w].fd = None]
        /\ active_connections' = active_connections
    BY <1>3 DEF Register, Closed, PoolInv, Types
  <2>2. /\ worker' \in [Workers -> [pc : WorkerStages, fd : Fds \cup {None}, ok : BOOLEAN]]
        /\ worker'[w].pc = "take" /\ worker'[w].fd = None
        /\ \A v \in Workers \ {w} : worker'[v] = worker[v]
    BY <2>1, ZenonT(30) DEF PoolInv, Types, WorkerStages
  <2>3. "take" \notin Holding /\ "take" \notin Registered /\ "register" \notin Registered
    BY DEF Holding, Registered
  <2> QED  BY <1>1, <1>2, <2>1, <2>2, <2>3, ReleaseStep
<1>4. CASE ~active_stopping
  <2>1. /\ active_connections' = active_connections \cup {worker[w].fd}
        /\ worker' = [worker EXCEPT ![w].pc = "auth"]
        /\ open' = open
    BY <1>4 DEF Register, WorkerGoes
  <2>2. /\ worker' \in [Workers -> [pc : WorkerStages, fd : Fds \cup {None}, ok : BOOLEAN]]
        /\ worker'[w].pc = "auth"
        /\ \A v \in Workers : worker'[v].fd = worker[v].fd
        /\ \A v \in Workers \ {w} : worker'[v] = worker[v]
    BY <2>1 DEF PoolInv, Types, WorkerStages
  <2>3. Types'
    BY <1>1, <1>2, <2>1, <2>2 DEF PoolInv, Types
  <2>4. Counters'
    BY <1>1, <1>2, <2>2 DEF PoolInv, Counters, Holding, Registered
  <2>5. HeldIsOpen' /\ OpenIsHeld' /\ Apart'
    BY <1>1, <2>1, <2>2 DEF PoolInv, HeldIsOpen, OpenIsHeld, Apart
  <2>6. ActiveSet'
    BY <1>1, <1>2, <2>1, <2>2 DEF PoolInv, ActiveSet, Registered
  <2>7. NobodyMissedByShutdown'
    BY <1>1, <1>4 DEF NobodyMissedByShutdown
  <2> QED  BY <2>3, <2>4, <2>5, <2>6, <2>7 DEF PoolInv
<1> QED  BY <1>3, <1>4

LEMMA EraseStep == ASSUME PoolInv, NEW w \in Workers, Erase(w) PROVE PoolInv'
<1>1. /\ worker[w].pc = "erase"
      /\ active_connections' = active_connections \ {worker[w].fd}
      /\ worker' = [worker EXCEPT ![w].pc = "count"]
      /\ UNCHANGED <<own, shut, open, client, sleeping, pending, active_stopping>>
  BY DEF Erase, WorkerGoes, ServerSide, poolVars
<1>2. w \notin sleeping /\ worker[w].fd # None
  BY <1>1 DEF PoolInv, Counters, Holding, Registered
<1>3. /\ worker' \in [Workers -> [pc : WorkerStages, fd : Fds \cup {None}, ok : BOOLEAN]]
      /\ worker'[w].pc = "count"
      /\ \A v \in Workers : worker'[v].fd = worker[v].fd
      /\ \A v \in Workers \ {w} : worker'[v] = worker[v]
  BY <1>1 DEF PoolInv, Types, WorkerStages
<1>4. Types'
  BY <1>1, <1>3 DEF PoolInv, Types
<1>5. Counters'
  BY <1>1, <1>2, <1>3 DEF PoolInv, Counters, Holding, Registered
<1>6. HeldIsOpen' /\ OpenIsHeld' /\ Apart'
  BY <1>1, <1>3 DEF PoolInv, HeldIsOpen, OpenIsHeld, Apart
<1>7. ActiveSet'
  <2>1. \A v \in Workers \ {w} : worker[v].fd # worker[w].fd
    BY <1>2 DEF PoolInv, Apart
  <2> QED  BY <1>1, <1>3, <2>1 DEF PoolInv, ActiveSet, Registered
<1>8. NobodyMissedByShutdown'
  BY <1>1, <1>3, SMTT(30) DEF PoolInv, NobodyMissedByShutdown, Mine
<1> QED  BY <1>4, <1>5, <1>6, <1>7, <1>8 DEF PoolInv

LEMMA CloseClientStep == ASSUME PoolInv, NEW w \in Workers, CloseClient(w) PROVE PoolInv'
<1>1. /\ worker[w].pc = "close"
      /\ worker' = [worker EXCEPT ![w] = [pc |-> "take", fd |-> None, ok |-> FALSE]]
      /\ UNCHANGED <<own, shut, client, sleeping, pending, active_connections, active_stopping>>
  BY DEF CloseClient, ServerSide, poolVars, activeVars
<1>2. worker[w].fd \in Fds /\ worker[w].fd # None /\ w \notin sleeping
  BY <1>1, NoneIsNoFd DEF PoolInv, Types, Counters, Holding
<1>3. /\ \A g \in Fds : open'[g] = IF g = worker[w].fd THEN None ELSE open[g]
      /\ open' \in [Fds -> Clients \cup {None}]
  BY DEF CloseClient, Closed, PoolInv, Types
<1>4. /\ worker' \in [Workers -> [pc : WorkerStages, fd : Fds \cup {None}, ok : BOOLEAN]]
      /\ worker'[w].pc = "take" /\ worker'[w].fd = None
      /\ \A v \in Workers \ {w} : worker'[v] = worker[v]
  BY <1>1 DEF PoolInv, Types, WorkerStages
<1>5. "close" \notin Registered
  BY DEF Registered
<1> QED  BY <1>1, <1>2, <1>3, <1>4, <1>5, ReleaseStep

(* The invariant holds in every reachable state of the pool. *)
THEOREM PoolInvariance == Spec => []PoolInv
<1>1. PoolInv /\ [Next]_vars => PoolInv'
  <2> SUFFICES ASSUME PoolInv, [Next]_vars PROVE PoolInv'
    OBVIOUS
  <2>1. CASE UNCHANGED vars
    BY <2>1, OwnerMoveStep DEF vars
  <2>2. CASE OwnerStep
    BY <2>2, IdleSteps, StartWorkerStep, AcceptStep, EnqueueStep, NotifyOneStep, RejectStep,
       ScanSteps, StopDrainsStep, NotifyAllStep, SMTT(30) DEF OwnerStep
  <2>3. ASSUME NEW w \in Workers, WorkerStep(w) PROVE PoolInv'
    BY <2>3, TakeStep, RegisterStep, SessionSteps, SessionReturnsStep, EraseStep, CloseClientStep
       DEF WorkerStep
  <2>4. ASSUME NEW w \in Workers, SessionStep(w) \/ SpuriousWakeup(w) PROVE PoolInv'
    BY <2>4, SessionSteps, SessionReturnsStep DEF SessionStep
  <2>5. CASE (\E c \in Clients : ClientConnects(c) \/ ClientLeaves(c)) \/ Signal \/ RequestStop
    BY <2>5, IdleSteps
  <2>6. CASE RequestStopScans
    BY <2>6, ScanSteps
  <2> QED  BY <2>1, <2>2, <2>3, <2>4, <2>5, <2>6 DEF Next
<1> QED  BY <1>1, InitPool, PTL DEF Spec

(* For every number of workers, clients and descriptors: once the shutdown  *)
(* scan of request_stop or stop_workers is over, every session that may     *)
(* block on its client has been shut down, however the scan interleaved     *)
(* with workers that were taking connections from the queue.                *)
THEOREM NobodyMissed == Spec => []NobodyMissedByShutdown
<1>1. PoolInv => NobodyMissedByShutdown
  BY DEF PoolInv
<1> QED  BY <1>1, PoolInvariance, PTL

(* For every size of the pool: active_connections holds exactly the open    *)
(* descriptors of the sessions in progress, so that shutdown never hits a   *)
(* descriptor number that has been reused.                                  *)
THEOREM ActiveInProgress == Spec => []ActiveAreInProgress
<1>1. PoolInv => ActiveAreInProgress
  <2> SUFFICES ASSUME PoolInv PROVE ActiveAreInProgress
    OBVIOUS
  <2>1. \A w \in Workers : worker[w].pc \in Registered =>
            worker[w].fd \in Fds /\ worker[w].fd # None /\ open[worker[w].fd] # None
    BY NoneIsNoFd DEF PoolInv, Types, Counters, HeldIsOpen, Holding
  <2>2. active_connections \subseteq Fds
    BY DEF PoolInv, Types
  <2>3. active_connections =
            {worker[w].fd : w \in {v \in Workers : worker[v].pc \in Registered}}
    BY <2>1, <2>2 DEF PoolInv, ActiveSet
  <2>4. \A f \in active_connections : open[f] # None
    BY <2>1, <2>3
  <2> QED  BY <2>3, <2>4 DEF ActiveAreInProgress
<1> QED  BY <1>1, PoolInvariance, PTL

(* For every size of the pool: each open descriptor has exactly one holder, *)
(* the accepting thread, the queue or a worker; no interleaving leaks one   *)
(* or closes it twice.                                                      *)
THEOREM EachHasOneHolder == Spec => []OneHolder
<1>1. PoolInv => OneHolder
  <2> SUFFICES ASSUME PoolInv, NEW f \in Fds
               PROVE  /\ open[f] # None <=> Holders(f) # {}
                      /\ \A h1, h2 \in Holders(f) : h1 = h2
    BY DEF OneHolder
  <2>1. f # None /\ DOMAIN pending = 1 .. Len(pending)
    BY NoneIsNoFd DEF PoolInv, Types
  <2>2. \A h : h \in Holders(f) <=>
            \/ h = <<"owner", f>> /\ client = f
            \/ \E i \in 1 .. Len(pending) : h = <<"queue", i>> /\ pending[i] = f
            \/ \E w \in Workers : h = <<"worker", w>> /\ worker[w].fd = f
    BY <2>1, Zenon DEF Holders
  <2>3. open[f] # None => Holders(f) # {}
    BY <2>2, Zenon DEF PoolInv, OpenIsHeld
  <2>4. Holders(f) # {} => open[f] # None
    BY <2>1, <2>2 DEF PoolInv, HeldIsOpen
  <2>5. \A h1, h2 \in Holders(f) : h1 = h2
    BY <2>1, <2>2, SMTT(30) DEF PoolInv, Apart
  <2> QED  BY <2>3, <2>4, <2>5
<1> QED  BY <1>1, PoolInvariance, PTL
-----------------------------------------------------------------------------
(* What the pool counts and what it wakes.                                  *)

(* The workers at one of the given places. *)
At(S) == {v \in Workers : worker[v].pc \in S}

(* Two sets that differ in one element at most. *)
LEMMA OneDiffers ==
    ASSUME NEW A, NEW B, NEW w, IsFiniteSet(A), \A v : v # w => (v \in B <=> v \in A)
    PROVE  /\ IsFiniteSet(B) /\ Cardinality(A) \in Nat /\ Cardinality(B) \in Nat
           /\ (w \in B <=> w \in A) => Cardinality(B) = Cardinality(A)
           /\ w \in B /\ w \notin A => Cardinality(B) = Cardinality(A) + 1
           /\ w \notin B /\ w \in A => Cardinality(B) = Cardinality(A) - 1
<1>1. CASE w \in B <=> w \in A
  <2>1. B = A
    BY <1>1
  <2> QED  BY <1>1, <2>1, FS_CardinalityType
<1>2. CASE w \in B /\ w \notin A
  <2>1. B = A \cup {w}
    BY <1>2
  <2>2. IsFiniteSet(B) /\ Cardinality(B) = Cardinality(A) + 1
    BY <1>2, <2>1, FS_AddElement
  <2> QED  BY <1>2, <2>2, FS_CardinalityType
<1>3. CASE w \notin B /\ w \in A
  <2>1. B = A \ {w}
    BY <1>3
  <2>2. IsFiniteSet(B) /\ Cardinality(B) = Cardinality(A) - 1
    BY <1>3, <2>1, FS_RemoveElement, SMTT(30)
  <2> QED  BY <1>3, <2>2, FS_CardinalityType
<1> QED  BY <1>1, <1>2, <1>3

(* One worker moves. *)
LEMMA OneMoves ==
    ASSUME NEW S, NEW w \in Workers, 
           \A v \in Workers \ {w} : worker'[v].pc = worker[v].pc
    PROVE  /\ Cardinality(At(S)) \in Nat /\ Cardinality(At(S)') \in Nat
           /\ (worker'[w].pc \in S <=> worker[w].pc \in S) =>
                 Cardinality(At(S)') = Cardinality(At(S))
           /\ worker'[w].pc \in S /\ worker[w].pc \notin S =>
                 Cardinality(At(S)') = Cardinality(At(S)) + 1
           /\ worker'[w].pc \notin S /\ worker[w].pc \in S =>
                 Cardinality(At(S)') = Cardinality(At(S)) - 1
<1> DEFINE A == At(S)
           B == At(S)'
<1>1. IsFiniteSet(A)
  <2>1. A \subseteq Workers
    BY DEF At
  <2> QED  BY <2>1, ServerAssumption, FS_Subset
<1>2. \A v : v # w => (v \in B <=> v \in A)
  BY DEF At
<1>3. (w \in A <=> worker[w].pc \in S) /\ (w \in B <=> worker'[w].pc \in S)
  BY SMTT(30) DEF At
<1> HIDE DEF A, B
<1>4. /\ IsFiniteSet(B) /\ Cardinality(A) \in Nat /\ Cardinality(B) \in Nat
      /\ (w \in B <=> w \in A) => Cardinality(B) = Cardinality(A)
      /\ w \in B /\ w \notin A => Cardinality(B) = Cardinality(A) + 1
      /\ w \notin B /\ w \in A => Cardinality(B) = Cardinality(A) - 1
  BY <1>1, <1>2, OneDiffers, SMTT(30)
<1> QED  BY <1>3, <1>4 DEF A, B

(* The counters that the pool keeps. *)
Tallies == [{"accepted", "completed", "failed", "rejected", "cancelled", "peak_pending"} -> Nat]

(* The rest of the types. *)
RestTypes ==
    /\ peer \in [Clients -> {"idle", "backlog", "open", "gone", "refused"}]
    /\ own \in OwnerStages /\ call \in {"start", "run", "destructor"}
    /\ {started, listening} \subseteq BOOLEAN
    /\ {workers_stopping, active_stopping, stop_requested, external_stop} \subseteq BOOLEAN
    /\ stopper \in {"idle", "storing", "done"}
    /\ destination_mutex \in Workers \cup {None}
    /\ stats \in Tallies /\ stats.peak_pending <= MaxPending
    /\ Len(pending) <= MaxPending

LEMMA RestTypesStep == ASSUME PoolInv, RestTypes, Next PROVE RestTypes'
<1> USE DEF RestTypes
<1>0. pending \in Seq(Fds) /\ Len(pending) \in Nat /\ MaxPending \in Nat
  BY ServerAssumption DEF PoolInv, Types
<1>1. CASE (\E c \in Clients : ClientConnects(c) \/ ClientLeaves(c)) \/ Signal \/ RequestStop
  BY <1>1, Zenon DEF ClientConnects, ClientLeaves, Signal, RequestStop, poolVars, activeVars, stopVars,
     lifecycleVars
<1>2. CASE RequestStopScans \/ StopScans
  BY <1>2, Zenon DEF RequestStopScans, StopScans, ShutdownActive, OwnerStages, poolVars, lifecycleVars
<1>3. CASE Listen \/ EpollReady \/ StartFails \/ Started \/ Run \/ Destroy \/ Join
  BY <1>3, Zenon DEF Listen, EpollReady, StartFails, Started, Run, Destroy, Join, CloseListener, OwnerOnly,
     OwnerStages, poolVars, activeVars, stopVars, lifecycleVars
<1>4. CASE StartWorker \/ WorkerStartError \/ Poll \/ EpollWait \/ AcceptEnds \/ AcceptError
           \/ NotifyOne \/ NotifyAll
  BY <1>4, SMTT(30) DEF StartWorker, WorkerStartError, Poll, EpollWait, AcceptEnds, AcceptError, NotifyOne,
     NotifyAll, OwnerGoes, OwnerStages, poolVars, activeVars, stopVars, lifecycleVars
<1>5. CASE Accept
  <2>1. stats' \in Tallies /\ stats'.peak_pending = stats.peak_pending
    BY <1>5 DEF Accept, Count, Tallies
  <2>2. PICK c \in Clients : peer' = [peer EXCEPT ![c] = "open"]
    BY <1>5, Zenon DEF Accept, Backlog
  <2>3. peer' \in [Clients -> {"idle", "backlog", "open", "gone", "refused"}]
    BY <2>2
  <2> QED  BY <1>5, <2>1, <2>3, SMTT(30) DEF Accept, OwnerStages, poolVars, activeVars, stopVars, lifecycleVars
<1>6. CASE Enqueue
  <2>1. CASE ~(~workers_stopping /\ Len(pending) < MaxPending)
    BY <1>6, <2>1 DEF Enqueue, OwnerGoes, OwnerStages, activeVars, stopVars, lifecycleVars
  <2>2. CASE ~workers_stopping /\ Len(pending) < MaxPending
    <3>1. pending' = Append(pending, client) /\ client \in Fds
      BY <1>6, <2>2 DEF Enqueue, PoolInv, Types, Counters
    <3>2. Len(pending') = Len(pending) + 1
      BY <1>0, <3>1, SMT
    <3>3. stats' = [stats EXCEPT !.peak_pending = Max({@, Len(pending')})]
      BY <1>6, <2>2 DEF Enqueue
    <3>4. ASSUME NEW a \in Nat, NEW b \in Nat, a <= MaxPending, b <= MaxPending
          PROVE  Max({a, b}) \in Nat /\ Max({a, b}) <= MaxPending
      <4>1. \E x \in {a, b} : \A y \in {a, b} : x >= y
        BY <3>4
      <4>2. Max({a, b}) \in {a, b}
        BY <4>1 DEF Max
      <4> QED  BY <3>4, <4>2
    <3>5. stats.peak_pending \in Nat
      BY DEF Tallies
    <3>6. /\ Max({stats.peak_pending, Len(pending')}) \in Nat
          /\ Max({stats.peak_pending, Len(pending')}) <= MaxPending
      BY <1>0, <2>2, <3>2, <3>4, <3>5
    <3>7. stats' \in Tallies /\ stats'.peak_pending <= MaxPending
      BY <3>3, <3>6 DEF Tallies
    <3> QED  BY <1>0, <1>6, <2>2, <3>2, <3>7 DEF Enqueue, OwnerGoes, OwnerStages, activeVars,
                stopVars, lifecycleVars
  <2> QED  BY <2>1, <2>2
<1>7. CASE Reject
  BY <1>7 DEF Reject, Count, Tallies, OwnerGoes, OwnerStages, poolVars, activeVars, stopVars,
     lifecycleVars
<1>8. CASE StopDrains
  <2>1. Len(pending') = 0
    BY <1>8 DEF StopDrains
  <2> QED  BY <1>0, <1>8, <2>1 DEF StopDrains, Count, Tallies, OwnerGoes, OwnerStages, activeVars,
              stopVars, lifecycleVars
<1>9. ASSUME NEW w \in Workers, Take(w) \/ SpuriousWakeup(w) PROVE RestTypes'
  <2>1. Len(pending') \in Nat /\ Len(pending') <= Len(pending)
    BY <1>0, <1>9 DEF Take, SpuriousWakeup
  <2> QED  BY <1>0, <1>9, <2>1 DEF Take, SpuriousWakeup, ServerSide, activeVars, stopVars
<1>10. ASSUME NEW w \in Workers, Register(w) PROVE RestTypes'
  BY <1>10 DEF Register, Count, Tallies, ServerSide, poolVars, stopVars
<1>11. ASSUME NEW w \in Workers,
              Authenticated(w) \/ FirstFrame(w) \/ LockDestination(w) \/ SessionSucceeds(w)
                \/ SessionFails(w) \/ SessionAborts(w)
       PROVE  RestTypes'
  BY <1>11 DEF Authenticated, FirstFrame, LockDestination, SessionSucceeds, SessionFails,
     SessionAborts, SessionGoes, SessionReturns, ServerSide, poolVars, activeVars, stopVars
<1>12. ASSUME NEW w \in Workers, Erase(w) \/ CloseClient(w) PROVE RestTypes'
  BY <1>12 DEF Erase, CloseClient, ServerSide, poolVars, activeVars, stopVars
<1>13. ASSUME NEW w \in Workers, CountResult(w) PROVE RestTypes'
  BY <1>13 DEF CountResult, Count, Tallies, ServerSide, poolVars, activeVars, stopVars
<1> QED  BY <1>1, <1>2, <1>3, <1>4, <1>5, <1>6, <1>7, <1>8, <1>9, <1>10, <1>11, <1>12, <1>13, ZenonT(30)
         DEF Next, OwnerStep, WorkerStep, SessionStep

(* What the owner thread has left to do: stop_workers empties the queue for *)
(* good, and before start has created a worker or after the last one was    *)
(* joined none runs.                                                        *)
Idle == own \in {"created", "epoll", "returned", "destroyed"}

StageInv ==
    /\ workers_stopping => pending = << >>
    /\ own \in {"notifyall", "join"} => workers_stopping
    /\ Idle => pending = << >> /\ \A w \in Workers : worker[w].pc \in {"absent", "exited"}
    /\ Ended => ~listening

LEMMA StageStep == ASSUME PoolInv, StageInv, Next PROVE StageInv'
<1> USE DEF StageInv, Idle, Ended
<1>1. CASE (\E c \in Clients : ClientConnects(c) \/ ClientLeaves(c)) \/ Signal \/ RequestStop
           \/ RequestStopScans
  BY <1>1, SMTT(30) DEF ClientConnects, ClientLeaves, Signal, RequestStop, RequestStopScans, poolVars,
     lifecycleVars
<1>2. CASE StopScans \/ Poll \/ EpollWait \/ AcceptEnds \/ AcceptError \/ Accept \/ Reject
           \/ WorkerStartError
  BY <1>2 DEF StopScans, Poll, EpollWait, AcceptEnds, AcceptError, Accept, Reject, WorkerStartError,
     OwnerGoes, poolVars, lifecycleVars
<1>3. CASE Listen \/ EpollReady \/ StartFails \/ Started \/ Run \/ Destroy \/ Join
  BY <1>3 DEF Listen, EpollReady, StartFails, Started, Run, Destroy, Join, CloseListener, OwnerOnly,
     poolVars, lifecycleVars
<1>4. CASE StartWorker \/ NotifyOne \/ NotifyAll
  BY <1>4 DEF StartWorker, NotifyOne, NotifyAll, OwnerGoes, poolVars, lifecycleVars
<1>5. CASE Enqueue \/ StopDrains
  BY <1>5, SMTT(30) DEF Enqueue, StopDrains, OwnerGoes, poolVars, lifecycleVars
<1>6. ASSUME NEW w \in Workers, WorkerStep(w) \/ SessionStep(w) \/ SpuriousWakeup(w)
      PROVE  StageInv'
  <2>1. UNCHANGED <<own, listening, workers_stopping>>
    BY <1>6 DEF WorkerStep, SessionStep, SpuriousWakeup, Take, Register, LockDestination,
       SessionAborts, Erase, CountResult, CloseClient, Authenticated, FirstFrame, SessionSucceeds,
       SessionFails, SessionGoes, SessionReturns, ServerSide, poolVars
  <2>2. worker[w].pc \notin {"absent", "exited"}
    BY <1>6, Zenon DEF WorkerStep, SessionStep, SpuriousWakeup, Take, Register, LockDestination,
       SessionAborts, Erase, CountResult, CloseClient, Authenticated, FirstFrame, SessionSucceeds,
       SessionFails, Blocking, PoolInv, Counters
  <2>3. pending = << >> => pending' = pending
    BY <1>6 DEF WorkerStep, SessionStep, SpuriousWakeup, Take, Register, LockDestination,
       SessionAborts, Erase, CountResult, CloseClient, Authenticated, FirstFrame, SessionSucceeds,
       SessionFails, SessionGoes, SessionReturns, poolVars
  <2> QED  BY <2>1, <2>2, <2>3
<1> QED  BY <1>1, <1>2, <1>3, <1>4, <1>5, <1>6, SMTT(30) DEF Next, OwnerStep

(* A step of one worker leaves the program counters of the others alone. *)
LEMMA WorkerAlone ==
    ASSUME PoolInv, NEW w \in Workers, WorkerStep(w) \/ SessionStep(w) \/ SpuriousWakeup(w)
    PROVE  \A v \in Workers \ {w} : worker'[v].pc = worker[v].pc
BY DEF PoolInv, Types, WorkerStep, SessionStep, SpuriousWakeup, Take, Register, LockDestination,
       SessionAborts, Erase, CountResult, CloseClient, Authenticated, FirstFrame, SessionSucceeds,
       SessionFails, SessionGoes, SessionReturns, WorkerGoes

(* Takers are the workers on their way to the queue. *)
Takers == At({"take"})

Wakeup ==
    sleeping # {} => Len(pending) <= Cardinality(Takers) + (IF own = "notify" THEN 1 ELSE 0)

LEMMA WakeupStep == ASSUME PoolInv, Wakeup, Next PROVE Wakeup'
<1> USE DEF Wakeup
<1>0. /\ pending \in Seq(Fds) /\ Len(pending) \in Nat
      /\ worker \in [Workers -> [pc : WorkerStages, fd : Fds \cup {None}, ok : BOOLEAN]]
  BY DEF PoolInv, Types
<1>1. Cardinality(Takers) \in Nat
  <2>1. Takers \subseteq Workers
    BY Zenon DEF Takers, At
  <2> QED  BY <2>1, ServerAssumption, FS_Subset, FS_CardinalityType, SMTT(30)
<1>2. CASE UNCHANGED <<pending, sleeping, worker>> /\ (own # "notify" \/ own' = "notify")
  <2>1. Takers' = Takers
    BY <1>2 DEF Takers, At
  <2> QED  BY <1>0, <1>1, <1>2, <2>1
<1>3. ASSUME NEW w \in Workers, \A v \in Workers \ {w} : worker'[v].pc = worker[v].pc,
             worker[w].pc = "take" => worker'[w].pc = "take",
             UNCHANGED <<pending, own>>, sleeping' \subseteq sleeping
      PROVE  Wakeup'
  <2>1. /\ Cardinality(Takers') \in Nat
        /\ Cardinality(Takers') >= Cardinality(Takers)
    BY <1>1, <1>3, OneMoves DEF Takers
  <2> QED  BY <1>0, <1>1, <1>3, <2>1
<1>4. CASE (\E c \in Clients : ClientConnects(c) \/ ClientLeaves(c)) \/ Signal \/ RequestStop
           \/ RequestStopScans
  BY <1>2, <1>4, SMTT(30) DEF ClientConnects, ClientLeaves, Signal, RequestStop, RequestStopScans, poolVars
<1>5. CASE Listen \/ EpollReady \/ StartFails \/ Started \/ Run \/ Destroy \/ Join \/ WorkerStartError
  BY <1>2, <1>5 DEF Listen, EpollReady, StartFails, Started, Run, Destroy, Join, WorkerStartError,
     OwnerOnly, OwnerGoes, poolVars
<1>6. CASE Poll \/ EpollWait \/ AcceptEnds \/ AcceptError \/ Accept \/ Reject \/ StopScans
  BY <1>2, <1>6 DEF Poll, EpollWait, AcceptEnds, AcceptError, Accept, Reject, StopScans, OwnerGoes,
     poolVars
<1>7. CASE StartWorker
  <2>1. PICK w \in Absent : worker' = [worker EXCEPT ![w].pc = "take"]
    BY <1>7, Zenon DEF StartWorker, WorkerGoes
  <2> QED  BY <1>0, <1>3, <1>7, <2>1 DEF StartWorker, Absent, OwnerGoes, poolVars
<1>8. CASE Enqueue
  <2>1. UNCHANGED <<worker, sleeping>> /\ own = "enqueue"
    BY <1>8 DEF Enqueue
  <2>2. Takers' = Takers
    BY <2>1 DEF Takers, At
  <2>3. CASE own' = "reject"
    BY <1>2, <1>8, <2>1, <2>3 DEF Enqueue, OwnerGoes
  <2>4. CASE own' = "notify"
    <3>1. pending' = Append(pending, client) /\ client \in Fds
      BY <1>8, <2>4 DEF Enqueue, OwnerGoes, PoolInv, Types, Counters
    <3>2. Len(pending') = Len(pending) + 1
      BY <1>0, <3>1
    <3> QED  BY <1>0, <1>1, <2>1, <2>2, <2>4, <3>2
  <2> QED  BY <1>8, <2>3, <2>4 DEF Enqueue, OwnerGoes
<1>9. CASE NotifyOne
  <2>1. CASE sleeping = {}
    BY <1>9, <2>1 DEF NotifyOne
  <2>2. CASE sleeping # {}
    <3>1. PICK w \in sleeping : worker' = [worker EXCEPT ![w].pc = "take"]
      BY <1>9, <2>2 DEF NotifyOne, WorkerGoes
    <3>2. w \in Workers /\ worker[w].pc = "asleep" /\ worker'[w].pc = "take"
      BY <1>0, <3>1 DEF PoolInv, Counters
    <3>3. \A v \in Workers \ {w} : worker'[v].pc = worker[v].pc
      BY <1>0, <3>1, SMTT(30)
    <3>4. Cardinality(Takers') = Cardinality(Takers) + 1
      BY <3>2, <3>3, OneMoves DEF Takers
    <3>5. pending' = pending /\ own = "notify" /\ own' = "accept"
      BY <1>9 DEF NotifyOne, OwnerGoes
    <3> QED  BY <1>0, <1>1, <2>2, <3>4, <3>5
  <2> QED  BY <2>1, <2>2
<1>10. CASE NotifyAll
  BY <1>10 DEF NotifyAll
<1>11. CASE StopDrains
  <2>1. Len(pending') = 0 /\ worker' = worker /\ own' # "notify"
    BY <1>11 DEF StopDrains, OwnerGoes
  <2>2. Takers' = Takers
    BY <2>1 DEF Takers, At
  <2> QED  BY <1>1, <2>1, <2>2
<1>12. ASSUME NEW w \in Workers, Take(w) PROVE Wakeup'
  <2>1. own' = own /\ worker[w].pc = "take" /\ \A v \in Workers \ {w} : worker'[v].pc = worker[v].pc
    BY <1>12, WorkerAlone DEF Take, ServerSide, WorkerStep
  <2>2. worker'[w].pc \notin {"take"}
    BY <1>0, <1>12, SMTT(30) DEF Take, WorkerGoes
  <2>3. Cardinality(Takers') \in Nat /\ Cardinality(Takers') = Cardinality(Takers) - 1
    BY <2>1, <2>2, OneMoves, SMTT(30) DEF Takers
  <2>4. CASE pending = << >>
    BY <1>12, <2>1, <2>3, <2>4 DEF Take
  <2>5. CASE pending # << >>
    <3>1. Len(pending') = Len(pending) - 1 /\ sleeping' = sleeping
      BY <1>0, <1>12, <2>5 DEF Take
    <3> QED  BY <1>0, <1>1, <2>1, <2>3, <3>1
  <2> QED  BY <2>4, <2>5
<1>13. ASSUME NEW w \in Workers, \/ SpuriousWakeup(w) \/ SessionStep(w)
                                 \/ WorkerStep(w) /\ ~Take(w)
       PROVE  Wakeup'
  <2>1. \A v \in Workers \ {w} : worker'[v].pc = worker[v].pc
    BY <1>13, WorkerAlone
  <2>2. UNCHANGED <<pending, own>> /\ sleeping' \subseteq sleeping
    BY <1>13 DEF WorkerStep, SessionStep, SpuriousWakeup, Register, LockDestination,
       SessionAborts, Erase, CountResult, CloseClient, Authenticated, FirstFrame, SessionSucceeds,
       SessionFails, SessionGoes, SessionReturns, ServerSide, poolVars
  <2>3. worker[w].pc # "take"
    BY <1>13, Zenon DEF WorkerStep, SessionStep, SpuriousWakeup, Register, LockDestination,
       SessionAborts, Erase, CountResult, CloseClient, Authenticated, FirstFrame, SessionSucceeds,
       SessionFails, Blocking, PoolInv, Counters
  <2> QED  BY <1>3, <2>1, <2>2, <2>3
<1> QED  BY <1>4, <1>5, <1>6, <1>7, <1>8, <1>9, <1>10, <1>11, <1>12, <1>13 DEF Next, OwnerStep

(* The connections that were counted, and the ones that are still in        *)
(* somebody's hands.                                                        *)
InHand == Holding \ {"close"}

Counted == stats.completed + stats.failed + stats.rejected + stats.cancelled

Uncounted == (IF client = None THEN 0 ELSE 1) + Len(pending) + Cardinality(At(InHand))

Balance == stats.accepted = Counted + Uncounted

LEMMA CountedTypes ==
    ASSUME PoolInv, RestTypes
    PROVE  /\ stats.accepted \in Nat /\ Counted \in Nat /\ Uncounted \in Nat
           /\ Len(pending) \in Nat /\ Cardinality(At(InHand)) \in Nat
<1>1. Cardinality(At(InHand)) \in Nat
  <2>1. At(InHand) \subseteq Workers
    BY DEF At
  <2> QED  BY <2>1, ServerAssumption, FS_Subset, FS_CardinalityType
<1>2. Len(pending) \in Nat
  BY DEF PoolInv, Types
<1>3. Uncounted \in Nat
  BY <1>1, <1>2 DEF Uncounted
<1>4. stats.accepted \in Nat /\ Counted \in Nat
  BY DEF RestTypes, Tallies, Counted
<1> QED  BY <1>1, <1>2, <1>3, <1>4

(* A connection is counted. *)
LEMMA CountStep ==
    ASSUME stats \in Tallies, NEW n \in Nat,
           NEW field \in {"completed", "failed", "rejected", "cancelled"}, Count(field, n)
    PROVE  stats'.accepted = stats.accepted /\ Counted' = Counted + n
<1>1. /\ stats.completed \in Nat /\ stats.failed \in Nat
      /\ stats.rejected \in Nat /\ stats.cancelled \in Nat
  BY DEF Tallies
<1>2. \A g \in {"accepted", "completed", "failed", "rejected", "cancelled"} :
          stats'[g] = IF g = field THEN stats[g] + n ELSE stats[g]
  BY DEF Count, Tallies
<1>3. stats'.accepted = stats.accepted
  BY <1>2
<1>4. /\ stats'.completed = IF field = "completed" THEN stats.completed + n ELSE stats.completed
      /\ stats'.failed = IF field = "failed" THEN stats.failed + n ELSE stats.failed
      /\ stats'.rejected = IF field = "rejected" THEN stats.rejected + n ELSE stats.rejected
      /\ stats'.cancelled = IF field = "cancelled" THEN stats.cancelled + n ELSE stats.cancelled
  BY <1>2
<1>5. Counted' = Counted + n
  BY <1>1, <1>4 DEF Counted
<1> QED  BY <1>3, <1>5

(* The steps of the owner, of the clients and of request_stop. *)
LEMMA OwnerBalance ==
    ASSUME PoolInv, RestTypes, Balance, Next,
           ~ \E w \in Workers : WorkerStep(w) \/ SessionStep(w) \/ SpuriousWakeup(w)
    PROVE  Balance'
<1>0. /\ pending \in Seq(Fds) /\ stats \in Tallies
      /\ worker \in [Workers -> [pc : WorkerStages, fd : Fds \cup {None}, ok : BOOLEAN]]
  BY DEF PoolInv, Types, RestTypes
<1>3. ASSUME UNCHANGED <<stats, client, pending>>, At(InHand)' = At(InHand)
      PROVE  Balance'
  BY <1>3 DEF Balance, Counted, Uncounted
<1>4. worker' = worker => At(InHand)' = At(InHand)
  BY SMTT(30) DEF At
<1>5. CASE (\E c \in Clients : ClientConnects(c) \/ ClientLeaves(c)) \/ Signal \/ RequestStop
           \/ RequestStopScans
  BY <1>3, <1>4, <1>5, SMTT(30) DEF ClientConnects, ClientLeaves, Signal, RequestStop, RequestStopScans, poolVars
<1>6. CASE Listen \/ EpollReady \/ StartFails \/ Started \/ Run \/ Destroy \/ Join \/ WorkerStartError
  BY <1>3, <1>4, <1>6, ZenonT(30) DEF Listen, EpollReady, StartFails, Started, Run, Destroy, Join,
     WorkerStartError, OwnerOnly, OwnerGoes, poolVars
<1>7. CASE Poll \/ EpollWait \/ AcceptEnds \/ AcceptError \/ StopScans
  BY <1>3, <1>4, <1>7 DEF Poll, EpollWait, AcceptEnds, AcceptError, StopScans, OwnerGoes, poolVars
<1>8. CASE StartWorker \/ NotifyOne \/ NotifyAll
  <2>1. \A v \in Workers : \/ worker'[v].pc = worker[v].pc
                           \/ {worker[v].pc, worker'[v].pc} \subseteq {"absent", "asleep", "take"}
    BY <1>0, <1>8 DEF StartWorker, NotifyOne, NotifyAll, WorkerGoes, Absent, PoolInv, Counters
  <2>2. \A v \in Workers : worker'[v].pc \in InHand <=> worker[v].pc \in InHand
    BY <2>1 DEF InHand, Holding, Registered
  <2>3. At(InHand)' = At(InHand)
    BY <2>2 DEF At
  <2> QED  BY <1>3, <1>8, <2>3 DEF StartWorker, NotifyOne, NotifyAll, poolVars
<1>9. CASE Accept
  <2>1. client = None /\ pending' = pending /\ At(InHand)' = At(InHand)
    BY <1>4, <1>9, Zenon DEF Accept, PoolInv, Counters, poolVars
  <2>4. client' # None
    BY <1>9, NoneIsNoFd, SMTT(30) DEF Accept, FreeFds
  <2>2. stats'.accepted = stats.accepted + 1 /\ Counted' = Counted
    BY <1>0, <1>9, Zenon DEF Accept, Count, Tallies, Counted
  <2>3. Uncounted' = Uncounted + 1
    BY <2>1, <2>4, CountedTypes DEF Uncounted
  <2> QED  BY <2>2, <2>3, CountedTypes, SMTT(30) DEF Balance
<1>10. CASE Enqueue
  <2>1. client # None /\ client \in Fds /\ At(InHand)' = At(InHand)
    BY <1>4, <1>10 DEF Enqueue, PoolInv, Counters, Types
  <2>2. CASE client' = None
    <3>1. pending' = Append(pending, client)
      BY <1>10, <2>1, <2>2 DEF Enqueue
    <3>2. Len(pending') = Len(pending) + 1
      BY <1>0, <2>1, <3>1
    <3>3. Uncounted' = Uncounted
      BY <2>1, <2>2, <3>2, CountedTypes, SMTT(30) DEF Uncounted
    <3>4. stats'.accepted = stats.accepted /\ Counted' = Counted
      <4>1. stats' = [stats EXCEPT !.peak_pending = Max({@, Len(pending')})]
        BY <1>10, <2>1, <2>2 DEF Enqueue
      <4>2. \A g \in {"accepted", "completed", "failed", "rejected", "cancelled"} : stats'[g] = stats[g]
        BY <1>0, <4>1 DEF Tallies
      <4> QED  BY <4>2, Zenon DEF Counted
    <3> QED  BY <3>3, <3>4 DEF Balance
  <2>3. CASE client' # None
    BY <1>3, <1>10, <2>1, <2>3 DEF Enqueue
  <2> QED  BY <2>2, <2>3
<1>11. CASE Reject
  <2>1. client # None /\ client' = None /\ pending' = pending /\ At(InHand)' = At(InHand)
    BY <1>4, <1>11 DEF Reject, PoolInv, Counters, poolVars
  <2>2. Uncounted' = Uncounted - 1
    BY <2>1, CountedTypes DEF Uncounted
  <2>3. stats'.accepted = stats.accepted /\ Counted' = Counted + 1
    BY <1>0, <1>11, CountStep DEF Reject
  <2> QED  BY <2>2, <2>3, CountedTypes DEF Balance
<1>12. CASE StopDrains
  <2>1. client' = client /\ Len(pending') = 0 /\ At(InHand)' = At(InHand)
    BY <1>4, <1>12 DEF StopDrains
  <2>2. Uncounted' = Uncounted - Len(pending)
    BY <2>1, CountedTypes DEF Uncounted
  <2>3. stats'.accepted = stats.accepted /\ Counted' = Counted + Len(pending)
    BY <1>0, <1>12, CountedTypes, CountStep DEF StopDrains
  <2> QED  BY <2>2, <2>3, CountedTypes DEF Balance
<1> QED  BY <1>5, <1>6, <1>7, <1>8, <1>9, <1>10, <1>11, <1>12, SMTT(30) DEF Next, OwnerStep

(* The steps of a worker. *)
LEMMA WorkerBalance ==
    ASSUME PoolInv, RestTypes, Balance, NEW w \in Workers,
           WorkerStep(w) \/ SessionStep(w) \/ SpuriousWakeup(w)
    PROVE  Balance'
<1>0. /\ pending \in Seq(Fds) /\ stats \in Tallies
      /\ worker \in [Workers -> [pc : WorkerStages, fd : Fds \cup {None}, ok : BOOLEAN]]
  BY SMTT(30) DEF PoolInv, Types, RestTypes
<1>1. /\ (worker'[w].pc \in InHand <=> worker[w].pc \in InHand) =>
            Cardinality(At(InHand)') = Cardinality(At(InHand))
      /\ worker'[w].pc \in InHand /\ worker[w].pc \notin InHand =>
            Cardinality(At(InHand)') = Cardinality(At(InHand)) + 1
      /\ worker'[w].pc \notin InHand /\ worker[w].pc \in InHand =>
            Cardinality(At(InHand)') = Cardinality(At(InHand)) - 1
  BY WorkerAlone, OneMoves
<1>2. client' = client
  BY SMTT(30) DEF WorkerStep, SessionStep, SpuriousWakeup, Take, Register, LockDestination,
     SessionAborts, Erase, CountResult, CloseClient, Authenticated, FirstFrame, SessionSucceeds,
     SessionFails, SessionGoes, SessionReturns, ServerSide
<1>3. ASSUME UNCHANGED <<stats, pending>>, worker'[w].pc \in InHand <=> worker[w].pc \in InHand
      PROVE  Balance'
  BY <1>1, <1>2, <1>3 DEF Balance, Counted, Uncounted
<1>4. CASE Take(w)
  <2>1. CASE pending = << >>
    <3>1. UNCHANGED <<stats, pending>> /\ worker[w].pc = "take" /\ worker'[w].pc \in {"exited", "asleep"}
      BY <1>0, <1>4, <2>1 DEF Take, WorkerGoes
    <3> QED  BY <1>3, <3>1 DEF InHand, Holding, Registered
  <2>2. CASE pending # << >>
    <3>1. stats' = stats /\ Len(pending') = Len(pending) - 1
      BY <1>0, <1>4, <2>2 DEF Take
    <3>2. worker[w].pc = "take" /\ worker'[w].pc = "register"
      BY <1>0, <1>4, <2>2, SMTT(30) DEF Take
    <3>3. worker[w].pc \notin InHand /\ worker'[w].pc \in InHand
      BY <3>2 DEF InHand, Holding, Registered
    <3>4. Cardinality(At(InHand)') = Cardinality(At(InHand)) + 1
      BY <1>1, <3>3
    <3>5. Uncounted' = Uncounted
      BY <1>2, <3>1, <3>4, CountedTypes DEF Uncounted
    <3> QED  BY <3>1, <3>5 DEF Balance, Counted
  <2> QED  BY <2>1, <2>2, SMTT(30)
<1>5. CASE Register(w)
  <2>1. CASE active_stopping
    <3>1. worker[w].pc = "register" /\ worker'[w].pc = "take" /\ pending' = pending
      BY <1>0, <1>5, <2>1 DEF Register, poolVars
    <3>2. worker[w].pc \in InHand /\ worker'[w].pc \notin InHand
      BY <3>1, SMTT(30) DEF InHand, Holding, Registered
    <3>3. Cardinality(At(InHand)') = Cardinality(At(InHand)) - 1
      BY <1>1, <3>2, SMTT(30)
    <3>4. Uncounted' = Uncounted - 1
      BY <1>2, <3>1, <3>3, CountedTypes DEF Uncounted
    <3>5. stats'.accepted = stats.accepted /\ Counted' = Counted + 1
      BY <1>0, <1>5, <2>1, CountStep DEF Register
    <3> QED  BY <3>4, <3>5, CountedTypes DEF Balance
  <2>2. CASE ~active_stopping
    <3>1. UNCHANGED <<stats, pending>> /\ worker[w].pc = "register" /\ worker'[w].pc = "auth"
      BY <1>0, <1>5, <2>2 DEF Register, WorkerGoes, poolVars
    <3> QED  BY <1>3, <3>1 DEF InHand, Holding, Registered
  <2> QED  BY <2>1, <2>2
<1>6. CASE CountResult(w)
  <2>1. worker[w].pc = "count" /\ worker'[w].pc = "close" /\ pending' = pending
    BY <1>0, <1>6 DEF CountResult, WorkerGoes, poolVars
  <2>2. worker[w].pc \in InHand /\ worker'[w].pc \notin InHand
    BY <2>1 DEF InHand, Holding, Registered
  <2>3. Cardinality(At(InHand)') = Cardinality(At(InHand)) - 1
    BY <1>1, <2>2
  <2>4. Uncounted' = Uncounted - 1
    BY <1>2, <2>1, <2>3, CountedTypes, SMTT(30) DEF Uncounted
  <2>5. stats'.accepted = stats.accepted /\ Counted' = Counted + 1
    BY <1>0, <1>6, CountStep, SMTT(30) DEF CountResult
  <2> QED  BY <2>4, <2>5, CountedTypes DEF Balance
<1>7. CASE Authenticated(w) \/ FirstFrame(w) \/ LockDestination(w) \/ SessionSucceeds(w)
           \/ SessionFails(w) \/ SessionAborts(w) \/ Erase(w)
  <2>1. UNCHANGED <<stats, pending>> /\ worker[w].pc \in Registered
    BY <1>7 DEF Authenticated, FirstFrame, LockDestination, SessionSucceeds, SessionFails,
       SessionAborts, Erase, Blocking, SessionGoes, SessionReturns, Registered, poolVars
  <2>2. worker'[w].pc \in {"first", "lock", "locked", "erase", "count"}
    BY <1>0, <1>7 DEF Authenticated, FirstFrame, LockDestination, SessionSucceeds, SessionFails,
       SessionAborts, Erase, SessionGoes, SessionReturns, WorkerGoes
  <2> QED  BY <1>3, <2>1, <2>2 DEF InHand, Holding, Registered
<1>8. CASE CloseClient(w) \/ SpuriousWakeup(w)
  <2>1. UNCHANGED <<stats, pending>> /\ worker[w].pc \in {"close", "asleep"}
    BY <1>8 DEF CloseClient, SpuriousWakeup, PoolInv, Counters, poolVars
  <2>2. worker'[w].pc = "take"
    BY <1>0, <1>8 DEF CloseClient, SpuriousWakeup, WorkerGoes
  <2> QED  BY <1>3, <2>1, <2>2 DEF InHand, Holding, Registered
<1> QED  BY <1>4, <1>5, <1>6, <1>7, <1>8, SMTT(30) DEF WorkerStep, SessionStep

(* PoolInv and what the counting needs. *)
CountInv == PoolInv /\ RestTypes /\ StageInv /\ Balance /\ Wakeup

LEMMA InitCount == Init => CountInv
<1> SUFFICES ASSUME Init PROVE CountInv
  OBVIOUS
<1>1. PoolInv
  BY InitPool, SMTT(30)
<1>2. stats \in Tallies /\ stats.peak_pending = 0 /\ Len(pending) = 0
  <2>1. /\ stats = [accepted |-> 0, completed |-> 0, failed |-> 0, rejected |-> 0,
                    cancelled |-> 0, peak_pending |-> 0]
        /\ pending = << >>
    BY Zenon DEF Init
  <2> QED
    BY <2>1 DEF Tallies
<1>3. /\ peer \in [Clients -> {"idle", "backlog", "open", "gone", "refused"}]
      /\ own \in OwnerStages /\ call \in {"start", "run", "destructor"}
      /\ stopper \in {"idle", "storing", "done"} /\ destination_mutex \in Workers \cup {None}
  BY DEF Init, OwnerStages
<1>4. /\ {started, listening} \subseteq BOOLEAN
      /\ {workers_stopping, active_stopping, stop_requested, external_stop} \subseteq BOOLEAN
  BY Zenon DEF Init
<1>5. stats.peak_pending <= MaxPending /\ Len(pending) <= MaxPending
  BY <1>2, ServerAssumption
<1>6. RestTypes
  BY <1>2, <1>3, <1>4, <1>5 DEF RestTypes
<1>7. At(InHand) = {}
  BY DEF Init, At, InHand, Holding, Registered
<1>8. Cardinality(At(InHand)) = 0 /\ Len(pending) = 0
  BY <1>7, FS_EmptySet DEF Init
<1>9. Balance
  BY <1>8 DEF Init, Balance, Counted, Uncounted
<1>10. StageInv /\ Wakeup
  BY DEF Init, StageInv, Idle, Ended, Wakeup
<1> QED  BY <1>1, <1>6, <1>9, <1>10 DEF CountInv

(* The invariant of the counters and of the queue's bound holds in every    *)
(* reachable state.                                                         *)
THEOREM CountInvariance == Spec => []CountInv
<1>1. CountInv /\ [Next]_vars /\ PoolInv' => CountInv'
  <2> SUFFICES ASSUME CountInv, [Next]_vars, PoolInv' PROVE CountInv'
    OBVIOUS
  <2>1. CASE Next
    <3>1. RestTypes' /\ StageInv' /\ Wakeup'
      BY <2>1, RestTypesStep, StageStep, WakeupStep DEF CountInv
    <3>2. Balance'
      BY <2>1, OwnerBalance, WorkerBalance DEF CountInv
    <3> QED  BY <3>1, <3>2 DEF CountInv
  <2>2. CASE UNCHANGED vars
    <3>1. RestTypes' /\ StageInv'
      BY <2>2, SMTT(30) DEF CountInv, vars, RestTypes, StageInv, Idle, Ended
    <3>2. Wakeup' /\ Balance'
      BY <2>2, ZenonT(30) DEF CountInv, vars, Wakeup, Takers, At, Balance, Counted, Uncounted
    <3> QED  BY <3>1, <3>2, SMTT(30) DEF CountInv
  <2> QED  BY <2>1, <2>2
<1> QED  BY <1>1, InitCount, PoolInvariance, PTL DEF Spec

(* For every size of the pool, every variable keeps its type, and the queue *)
(* and the recorded peak never exceed max_pending_connections.              *)
THEOREM PoolTyped == Spec => []TypeOK
<1>1. CountInv => TypeOK
  BY DEF CountInv, PoolInv, Types, Counters, RestTypes, Tallies, TypeOK
<1> QED  BY <1>1, CountInvariance, PTL

(* For every size of the pool: every accepted connection is counted exactly *)
(* once, and when run or a failed start returns no connection, no worker    *)
(* and no listener is left behind.                                          *)
THEOREM ConnectionsCounted == Spec => []EveryConnectionCounted
<1>1. CountInv => EveryConnectionCounted
  <2> SUFFICES ASSUME CountInv PROVE EveryConnectionCounted
    OBVIOUS
  <2> DEFINE uncounted == (IF client = None THEN 0 ELSE 1) + Len(pending)
                          + Cardinality({w \in Workers : worker[w].pc \in Holding \ {"close"}})
  <2>1. uncounted = Uncounted
    BY DEF Uncounted, At, InHand
  <2>2. stats.accepted = stats.completed + stats.failed + stats.rejected + stats.cancelled + uncounted
    BY <2>1 DEF CountInv, Balance, Counted
  <2>3. ASSUME Ended
        PROVE  /\ uncounted = 0 /\ ~listening
               /\ \A f \in Fds : open[f] = None
               /\ \A w \in Workers : worker[w].pc \in {"absent", "exited"}
    <3>1. /\ pending = << >> /\ ~listening
          /\ \A w \in Workers : worker[w].pc \in {"absent", "exited"}
      BY <2>3 DEF CountInv, StageInv, Idle, Ended
    <3>2. client = None
      BY <2>3 DEF CountInv, PoolInv, Counters, Ended
    <3>3. \A w \in Workers : worker[w].pc \notin Holding
      BY <3>1 DEF Holding, Registered
    <3>4. \A f \in Fds : open[f] = None
      BY <3>1, <3>2, <3>3, NoneIsNoFd DEF CountInv, PoolInv, OpenIsHeld, Counters
    <3>5. At(InHand) = {}
      BY <3>3 DEF At, InHand
    <3>6. Uncounted = 0
      BY <3>1, <3>2, <3>5, FS_EmptySet, SMTT(30) DEF Uncounted
    <3> QED  BY <2>1, <3>1, <3>4, <3>6
  <2> QED  BY <2>2, <2>3 DEF EveryConnectionCounted
<1> QED  BY <1>1, CountInvariance, PTL

(* For every size of the pool: no wakeup is lost between the queue's mutex  *)
(* and notify_one; while a worker sleeps, each queued connection is matched *)
(* by a worker on its way to the queue or by a notification to come.        *)
THEOREM WakeupsKept == Spec => []NoLostWakeup
<1>1. CountInv => NoLostWakeup
  BY DEF CountInv, Wakeup, NoLostWakeup, Takers, At
<1> QED  BY <1>1, CountInvariance, PTL
=============================================================================

-------------------------- MODULE ConcurrentServer --------------------------
(***************************************************************************)
(* The thread pool of src/server/concurrent_server.cpp: the thread that    *)
(* owns the server (start, run with its accept loop, the destructor), the  *)
(* worker threads, and any other thread that calls request_stop.           *)
(*                                                                         *)
(* A block under a mutex is one step; the steps between the blocks, and    *)
(* the signalling of the condition variable after the block, are steps of  *)
(* their own.  Descriptors are numbers that the kernel reuses as soon as   *)
(* they are closed.                                                        *)
(***************************************************************************)
EXTENDS Integers, Sequences, FiniteSets, FiniteSetsExt

CONSTANTS Clients,        \* client connections
          Workers,        \* config.worker_count threads
          Fds,            \* descriptors available for connections
          MaxPending,     \* config.max_pending_connections
          SystemFaults,   \* may accept4, epoll_wait and thread creation fail?
          None

ASSUME ServerAssumption ==
    /\ Fds \subseteq Nat /\ MaxPending \in Nat \ {0}
    /\ IsFiniteSet(Clients) /\ IsFiniteSet(Workers) /\ IsFiniteSet(Fds)
    /\ None \notin Clients \cup Workers \cup Fds
    /\ SystemFaults \in BOOLEAN

VARIABLES
    peer,              \* state of each client: idle, backlog, open, gone, refused
    shut,              \* clients whose connection the server has shut down
    open,              \* the descriptor table: Fds -> the client or None
    own,               \* where the owner thread is
    call,              \* what it has called: start, run or the destructor
    started,           \* under lifecycle_mutex
    listening,         \* is the listener open?
    client,            \* the owner's local: the descriptor it just accepted
    worker,            \* worker threads: [pc, fd, ok]
    sleeping,          \* workers blocked in queue_ready.wait
    pending,           \* the queue of descriptors, under queue_mutex
    workers_stopping,  \* under queue_mutex
    active_connections,\* under active_mutex
    active_stopping,   \* under active_mutex
    stop_requested,    \* atomic
    external_stop,     \* the signal flag that run polls
    stopper,           \* a thread in request_stop: idle, storing, done
    destination_mutex, \* the worker that holds it, or None
    stats              \* accepted, completed, failed, rejected, cancelled, peak_pending

vars == <<peer, shut, open, own, call, started, listening, client, worker, sleeping, pending, workers_stopping,
          active_connections, active_stopping, stop_requested, external_stop, stopper,
          destination_mutex, stats>>

lifecycleVars == <<call, started, listening>>
poolVars == <<sleeping, pending, workers_stopping>>
activeVars == <<active_connections, active_stopping>>
stopVars == <<stop_requested, external_stop, stopper>>

Init ==
    /\ peer = [c \in Clients |-> "idle"] /\ shut = {}
    /\ open = [f \in Fds |-> None]
    /\ own = "created" /\ call = "start" /\ started = FALSE /\ listening = FALSE
    /\ client = None
    /\ worker = [w \in Workers |-> [pc |-> "absent", fd |-> None, ok |-> FALSE]]
    /\ sleeping = {} /\ pending = << >> /\ workers_stopping = FALSE
    /\ active_connections = {} /\ active_stopping = FALSE
    /\ stop_requested = FALSE /\ external_stop = FALSE /\ stopper = "idle"
    /\ destination_mutex = None
    /\ stats = [accepted |-> 0, completed |-> 0, failed |-> 0, rejected |-> 0,
                cancelled |-> 0, peak_pending |-> 0]

Count(field, n) == stats' = [stats EXCEPT ![field] = @ + n]

Closed(fds) == open' = [f \in Fds |-> IF f \in fds THEN None ELSE open[f]]

WorkerGoes(w, pc) == worker' = [worker EXCEPT ![w].pc = pc]

(* shutdown_active_connections: one scan under active_mutex. *)
ShutdownActive ==
    /\ active_stopping' = TRUE
    /\ shut' = shut \cup ({open[f] : f \in active_connections} \ {None})
    /\ UNCHANGED active_connections
-----------------------------------------------------------------------------
(* Clients and signals.                                                     *)

ClientConnects(c) ==
    /\ peer[c] = "idle" /\ listening
    /\ peer' = [peer EXCEPT ![c] = "backlog"]
    /\ UNCHANGED <<shut, open, own, client, worker, destination_mutex, stats>>
    /\ UNCHANGED poolVars /\ UNCHANGED activeVars /\ UNCHANGED stopVars
    /\ UNCHANGED lifecycleVars

ClientLeaves(c) ==
    /\ peer[c] = "open"
    /\ peer' = [peer EXCEPT ![c] = "gone"]
    /\ UNCHANGED <<shut, open, own, client, worker, destination_mutex, stats>>
    /\ UNCHANGED poolVars /\ UNCHANGED activeVars /\ UNCHANGED stopVars
    /\ UNCHANGED lifecycleVars

(* SIGINT or SIGTERM sets the flag behind the StopPredicate; the handlers   *)
(* are installed when start has returned.                                   *)
Signal ==
    /\ ~external_stop /\ started
    /\ external_stop' = TRUE
    /\ UNCHANGED <<peer, shut, open, own, client, worker, destination_mutex, stats,
                   stop_requested, stopper>>
    /\ UNCHANGED poolVars /\ UNCHANGED activeVars /\ UNCHANGED lifecycleVars

(* request_stop on another thread: the flag, then the scan.  Whoever        *)
(* destroys the server waits for the threads that use it.                   *)
Alive == call # "destructor"

RequestStop ==
    /\ stopper = "idle" /\ Alive
    /\ stop_requested' = TRUE /\ stopper' = "storing"
    /\ UNCHANGED <<peer, shut, open, own, client, worker, destination_mutex, stats,
                   external_stop>>
    /\ UNCHANGED poolVars /\ UNCHANGED activeVars /\ UNCHANGED lifecycleVars

RequestStopScans ==
    /\ stopper = "storing"
    /\ ShutdownActive
    /\ stopper' = "done"
    /\ UNCHANGED <<peer, open, own, client, worker, destination_mutex, stats,
                   stop_requested, external_stop>>
    /\ UNCHANGED poolVars /\ UNCHANGED lifecycleVars
-----------------------------------------------------------------------------
(* The owner thread: start.                                                 *)

OwnerGoes(pc) ==
    /\ own' = pc
    /\ UNCHANGED <<peer, destination_mutex>> /\ UNCHANGED stopVars /\ UNCHANGED lifecycleVars

(* Closing the listener resets the connections nobody accepted. *)
CloseListener ==
    /\ listening' = FALSE
    /\ peer' = [c \in Clients |-> IF peer[c] = "backlog" THEN "refused" ELSE peer[c]]

OwnerOnly ==
    /\ UNCHANGED <<shut, open, client, worker, destination_mutex, stats>>
    /\ UNCHANGED poolVars /\ UNCHANGED activeVars /\ UNCHANGED stopVars

(* listen_ipv4 succeeds: clients can connect from now on. *)
Listen ==
    /\ own = "created"
    /\ own' = "epoll" /\ listening' = TRUE
    /\ UNCHANGED <<peer, call, started>> /\ OwnerOnly

EpollReady ==
    /\ own = "epoll"
    /\ own' = "starting"
    /\ UNCHANGED peer /\ UNCHANGED lifecycleVars /\ OwnerOnly

(* An invalid configuration, no listener, no epoll: start returns an error. *)
StartFails ==
    /\ SystemFaults /\ own \in {"created", "epoll"}
    /\ own' = "returned"
    /\ CloseListener
    /\ UNCHANGED <<call, started>> /\ OwnerOnly

Absent == {w \in Workers : worker[w].pc = "absent"}

StartWorker ==
    /\ own = "starting" /\ Absent # {}
    /\ \E w \in Absent : WorkerGoes(w, "take")
    /\ OwnerGoes("starting")
    /\ UNCHANGED <<shut, open, client, stats>>
    /\ UNCHANGED poolVars /\ UNCHANGED activeVars

(* A thread could not be created: the ones that run are stopped again. *)
WorkerStartError ==
    /\ SystemFaults /\ own = "starting" /\ Absent # {}
    /\ OwnerGoes("stop")
    /\ UNCHANGED <<shut, open, client, worker, stats>>
    /\ UNCHANGED poolVars /\ UNCHANGED activeVars

(* start succeeds. *)
Started ==
    /\ own = "starting" /\ Absent = {}
    /\ own' = "started" /\ started' = TRUE
    /\ UNCHANGED <<peer, call, listening>> /\ OwnerOnly

(* run is called, possibly once more after it has returned; before a        *)
(* successful start it would answer NotStarted.                             *)
Run ==
    /\ own \in {"started", "returned"} /\ started
    /\ own' = "poll" /\ call' = "run"
    /\ UNCHANGED <<peer, started, listening>> /\ OwnerOnly

Destroy ==
    /\ own \in {"created", "started", "returned"} /\ stopper # "storing"
    /\ own' = "stop" /\ call' = "destructor"
    /\ UNCHANGED <<peer, started, listening>> /\ OwnerOnly
-----------------------------------------------------------------------------
(* The owner thread: run.                                                   *)

(* The loop condition. *)
Poll ==
    /\ own = "poll"
    /\ IF stop_requested \/ external_stop THEN OwnerGoes("stop")
       ELSE OwnerGoes("wait")
    /\ UNCHANGED <<shut, open, client, worker, stats>>
    /\ UNCHANGED poolVars /\ UNCHANGED activeVars

Backlog == {c \in Clients : peer[c] = "backlog"}

(* Mutant: the event of the listener is taken for a timeout. *)
EpollWait_Deaf ==
    /\ own = "wait"
    /\ OwnerGoes("poll")
    /\ UNCHANGED <<shut, open, client, worker, stats>>
    /\ UNCHANGED poolVars /\ UNCHANGED activeVars

(* epoll_wait times out only when no client is waiting; it may also be      *)
(* interrupted (the loop goes on) or fail (run ends).                       *)
EpollWait ==
    /\ own = "wait"
    /\ \/ OwnerGoes(IF Backlog = {} THEN "poll" ELSE "accept")
       \/ SystemFaults /\ (OwnerGoes("poll") \/ OwnerGoes("stop"))
    /\ UNCHANGED <<shut, open, client, worker, stats>>
    /\ UNCHANGED poolVars /\ UNCHANGED activeVars

FreeFds == {f \in Fds : open[f] = None}

(* accept4 returns the lowest free descriptor. *)
Accept ==
    /\ own = "accept" /\ ~stop_requested
    /\ \E c \in Backlog, f \in FreeFds :
          /\ \A g \in FreeFds : f <= g
          /\ peer' = [peer EXCEPT ![c] = "open"]
          /\ open' = [open EXCEPT ![f] = c]
          /\ client' = f
    /\ own' = "enqueue"
    /\ Count("accepted", 1)
    /\ UNCHANGED <<shut, worker, destination_mutex>>
    /\ UNCHANGED poolVars /\ UNCHANGED activeVars /\ UNCHANGED stopVars
    /\ UNCHANGED lifecycleVars

(* stop_requested was seen, or EAGAIN. *)
AcceptEnds ==
    /\ own = "accept" /\ (stop_requested \/ Backlog = {})
    /\ OwnerGoes("poll")
    /\ UNCHANGED <<shut, open, client, worker, stats>>
    /\ UNCHANGED poolVars /\ UNCHANGED activeVars

(* Any other error, running out of descriptors included, ends run. *)
AcceptError ==
    /\ own = "accept" /\ ~stop_requested
    /\ SystemFaults \/ (FreeFds = {} /\ Backlog # {})
    /\ OwnerGoes("stop")
    /\ UNCHANGED <<shut, open, client, worker, stats>>
    /\ UNCHANGED poolVars /\ UNCHANGED activeVars

(* Mutant: the bound of the queue is off by one. *)
Enqueue_OneMore ==
    /\ own = "enqueue"
    /\ IF ~workers_stopping /\ Len(pending) <= MaxPending
       THEN /\ pending' = Append(pending, client)
            /\ client' = None
            /\ stats' = [stats EXCEPT !.peak_pending = Max({@, Len(pending')})]
            /\ OwnerGoes("notify")
       ELSE OwnerGoes("reject") /\ UNCHANGED <<pending, client, stats>>
    /\ UNCHANGED <<shut, open, worker, sleeping, workers_stopping>>
    /\ UNCHANGED activeVars

Enqueue ==
    /\ own = "enqueue"
    /\ IF ~workers_stopping /\ Len(pending) < MaxPending
       THEN /\ pending' = Append(pending, client)
            /\ client' = None
            /\ stats' = [stats EXCEPT !.peak_pending = Max({@, Len(pending')})]
            /\ OwnerGoes("notify")
       ELSE OwnerGoes("reject") /\ UNCHANGED <<pending, client, stats>>
    /\ UNCHANGED <<shut, open, worker, sleeping, workers_stopping>>
    /\ UNCHANGED activeVars

(* Mutant: nobody is notified. *)
NotifyOne_Nobody ==
    /\ own = "notify"
    /\ OwnerGoes("accept")
    /\ UNCHANGED <<shut, open, client, worker, stats>>
    /\ UNCHANGED poolVars /\ UNCHANGED activeVars

(* notify_one, after queue_mutex was released. *)
NotifyOne ==
    /\ own = "notify"
    /\ IF sleeping = {} THEN UNCHANGED <<sleeping, worker>>
       ELSE \E w \in sleeping : sleeping' = sleeping \ {w} /\ WorkerGoes(w, "take")
    /\ OwnerGoes("accept")
    /\ UNCHANGED <<shut, open, client, stats, pending, workers_stopping>>
    /\ UNCHANGED activeVars

(* Mutant: the rejected descriptor stays open. *)
Reject_Leaks ==
    /\ own = "reject"
    /\ Count("rejected", 1)
    /\ client' = None
    /\ OwnerGoes("accept")
    /\ UNCHANGED <<shut, open, worker>>
    /\ UNCHANGED poolVars /\ UNCHANGED activeVars

(* The queue is full: the descriptor is closed. *)
Reject ==
    /\ own = "reject"
    /\ Count("rejected", 1)
    /\ Closed({client}) /\ client' = None
    /\ OwnerGoes("accept")
    /\ UNCHANGED <<shut, worker>>
    /\ UNCHANGED poolVars /\ UNCHANGED activeVars
-----------------------------------------------------------------------------
(* The owner thread: stop_workers, from run, start or the destructor.       *)

StopScans ==
    /\ own = "stop"
    /\ ShutdownActive
    /\ stop_requested' = TRUE
    /\ own' = "drain"
    /\ UNCHANGED <<peer, open, client, worker, destination_mutex, stats,
                   external_stop, stopper>>
    /\ UNCHANGED poolVars /\ UNCHANGED lifecycleVars

(* Mutant: the drained connections are not counted. *)
StopDrains_Uncounted ==
    /\ own = "drain"
    /\ workers_stopping' = TRUE
    /\ pending' = << >>
    /\ Closed(Range(pending))
    /\ OwnerGoes("notifyall")
    /\ UNCHANGED <<shut, client, worker, sleeping, stats>>
    /\ UNCHANGED activeVars

StopDrains ==
    /\ own = "drain"
    /\ workers_stopping' = TRUE
    /\ Count("cancelled", Len(pending))
    /\ pending' = << >>
    /\ Closed(Range(pending))
    /\ OwnerGoes("notifyall")
    /\ UNCHANGED <<shut, client, worker, sleeping>>
    /\ UNCHANGED activeVars

(* Mutant: notify_one in the place of notify_all. *)
NotifyAll_One ==
    /\ own = "notifyall"
    /\ IF sleeping = {} THEN UNCHANGED <<worker, sleeping>>
       ELSE \E w \in sleeping : sleeping' = sleeping \ {w} /\ WorkerGoes(w, "take")
    /\ OwnerGoes("join")
    /\ UNCHANGED <<shut, open, client, stats, pending, workers_stopping>>
    /\ UNCHANGED activeVars

NotifyAll ==
    /\ own = "notifyall"
    /\ worker' = [w \in Workers |-> IF w \in sleeping THEN [worker[w] EXCEPT !.pc = "take"]
                                    ELSE worker[w]]
    /\ sleeping' = {}
    /\ OwnerGoes("join")
    /\ UNCHANGED <<shut, open, client, stats, pending, workers_stopping>>
    /\ UNCHANGED activeVars

(* Every started worker is joined, and the listener closed. *)
Join ==
    /\ own = "join"
    /\ \A w \in Workers : worker[w].pc \in {"absent", "exited"}
    /\ own' = IF call = "destructor" THEN "destroyed" ELSE "returned"
    /\ CloseListener
    /\ UNCHANGED <<call, started>> /\ OwnerOnly
-----------------------------------------------------------------------------
(* A worker thread.                                                         *)

ServerSide == <<peer, shut, own, call, started, listening, client>>

(* The block under queue_mutex: sleep, exit, or take a connection. *)
Take(w) ==
    /\ worker[w].pc = "take"
    /\ IF pending # << >>
       THEN /\ worker' = [worker EXCEPT ![w].pc = "register", ![w].fd = Head(pending)]
            /\ pending' = Tail(pending)
            /\ UNCHANGED sleeping
       ELSE IF workers_stopping
       THEN WorkerGoes(w, "exited") /\ UNCHANGED <<pending, sleeping>>
       ELSE /\ sleeping' = sleeping \cup {w}
            /\ WorkerGoes(w, "asleep")
            /\ UNCHANGED pending
    /\ UNCHANGED <<open, workers_stopping, destination_mutex, stats>>
    /\ UNCHANGED ServerSide /\ UNCHANGED activeVars /\ UNCHANGED stopVars

(* A condition variable may wake up without being signalled. *)
SpuriousWakeup(w) ==
    /\ w \in sleeping
    /\ sleeping' = sleeping \ {w}
    /\ WorkerGoes(w, "take")
    /\ UNCHANGED <<open, pending, workers_stopping, destination_mutex, stats>>
    /\ UNCHANGED ServerSide /\ UNCHANGED activeVars /\ UNCHANGED stopVars

(* Mutant: the worker does not look whether the server is stopping. *)
Register_Always(w) ==
    /\ worker[w].pc = "register"
    /\ active_connections' = active_connections \cup {worker[w].fd}
    /\ WorkerGoes(w, "auth")
    /\ UNCHANGED <<open, stats, active_stopping, destination_mutex>>
    /\ UNCHANGED ServerSide /\ UNCHANGED poolVars /\ UNCHANGED stopVars

(* Register-or-cancel under active_mutex. *)
Register(w) ==
    /\ worker[w].pc = "register"
    /\ IF active_stopping
       THEN /\ Count("cancelled", 1)
            /\ Closed({worker[w].fd})
            /\ worker' = [worker EXCEPT ![w].pc = "take", ![w].fd = None]
            /\ UNCHANGED active_connections
       ELSE /\ active_connections' = active_connections \cup {worker[w].fd}
            /\ WorkerGoes(w, "auth")
            /\ UNCHANGED <<open, stats>>
    /\ UNCHANGED <<active_stopping, destination_mutex>>
    /\ UNCHANGED ServerSide /\ UNCHANGED poolVars /\ UNCHANGED stopVars

(* serve_client_session: authentication, the first frame, then a PING or an *)
(* operation under the destination mutex.  Each of them waits for the       *)
(* client; a connection that was shut down can still deliver what it has    *)
(* buffered, but every send fails.                                          *)
Mine(w) == open[worker[w].fd]

Blocking(w) == worker[w].pc \in {"auth", "first", "locked"}

SessionGoes(w, pc, holder) ==
    /\ WorkerGoes(w, pc)
    /\ destination_mutex' = holder
    /\ UNCHANGED <<open, stats>>
    /\ UNCHANGED ServerSide /\ UNCHANGED poolVars
    /\ UNCHANGED activeVars /\ UNCHANGED stopVars

Authenticated(w) ==
    /\ worker[w].pc = "auth" /\ Mine(w) \notin shut
    /\ SessionGoes(w, "first", destination_mutex)

FirstFrame(w) ==
    /\ worker[w].pc = "first"
    /\ SessionGoes(w, "lock", destination_mutex)

LockDestination(w) ==
    /\ worker[w].pc = "lock" /\ destination_mutex = None
    /\ SessionGoes(w, "locked", w)

(* The session returns: the mutex is released, if it was held. *)
SessionReturns(w, ok) ==
    /\ worker' = [worker EXCEPT ![w].pc = "erase", ![w].ok = ok]
    /\ destination_mutex' = IF destination_mutex = w THEN None ELSE destination_mutex
    /\ UNCHANGED <<open, stats>>
    /\ UNCHANGED ServerSide /\ UNCHANGED poolVars
    /\ UNCHANGED activeVars /\ UNCHANGED stopVars

(* A PING is answered without the mutex. *)
SessionSucceeds(w) ==
    /\ worker[w].pc \in {"first", "locked"} /\ Mine(w) \notin shut
    /\ SessionReturns(w, TRUE)

SessionFails(w) == Blocking(w) /\ SessionReturns(w, FALSE)

(* Blocking I/O on a dead connection returns. *)
SessionAborts(w) ==
    /\ Blocking(w)
    /\ Mine(w) \in shut \/ peer[Mine(w)] = "gone"
    /\ SessionReturns(w, FALSE)

(* Mutant: the finished session stays registered. *)
Erase_Forgotten(w) ==
    /\ worker[w].pc = "erase"
    /\ WorkerGoes(w, "count")
    /\ UNCHANGED <<open, active_connections, active_stopping, destination_mutex, stats>>
    /\ UNCHANGED ServerSide /\ UNCHANGED poolVars /\ UNCHANGED stopVars

Erase(w) ==
    /\ worker[w].pc = "erase"
    /\ active_connections' = active_connections \ {worker[w].fd}
    /\ WorkerGoes(w, "count")
    /\ UNCHANGED <<open, active_stopping, destination_mutex, stats>>
    /\ UNCHANGED ServerSide /\ UNCHANGED poolVars /\ UNCHANGED stopVars

(* The result is counted, the observer called, and the descriptor closed at *)
(* the end of the iteration.                                                *)
CountResult(w) ==
    /\ worker[w].pc = "count"
    /\ Count(IF worker[w].ok THEN "completed" ELSE "failed", 1)
    /\ WorkerGoes(w, "close")
    /\ UNCHANGED <<open, destination_mutex>>
    /\ UNCHANGED ServerSide /\ UNCHANGED poolVars
    /\ UNCHANGED activeVars /\ UNCHANGED stopVars

CloseClient(w) ==
    /\ worker[w].pc = "close"
    /\ Closed({worker[w].fd})
    /\ worker' = [worker EXCEPT ![w] = [pc |-> "take", fd |-> None, ok |-> FALSE]]
    /\ UNCHANGED <<destination_mutex, stats>>
    /\ UNCHANGED ServerSide /\ UNCHANGED poolVars
    /\ UNCHANGED activeVars /\ UNCHANGED stopVars
-----------------------------------------------------------------------------
OwnerStep ==
    \/ Listen \/ EpollReady \/ StartFails \/ StartWorker \/ WorkerStartError \/ Started
    \/ Run \/ Destroy
    \/ Poll \/ EpollWait \/ Accept \/ AcceptEnds \/ AcceptError
    \/ Enqueue \/ NotifyOne \/ Reject
    \/ StopScans \/ StopDrains \/ NotifyAll \/ Join

(* What a worker does without waiting for a client. *)
WorkerStep(w) ==
    \/ Take(w) \/ Register(w) \/ LockDestination(w) \/ SessionAborts(w)
    \/ Erase(w) \/ CountResult(w) \/ CloseClient(w)

(* What a worker does when the client has sent something. *)
SessionStep(w) ==
    Authenticated(w) \/ FirstFrame(w) \/ SessionSucceeds(w) \/ SessionFails(w)

Next ==
    \/ OwnerStep
    \/ \E w \in Workers : WorkerStep(w) \/ SessionStep(w) \/ SpuriousWakeup(w)
    \/ \E c \in Clients : ClientConnects(c) \/ ClientLeaves(c)
    \/ Signal \/ RequestStop \/ RequestStopScans

Spec == Init /\ [][Next]_vars

(* Every thread runs, but nothing is asked of the clients. *)
ThreadsRun ==
    /\ WF_vars(OwnerStep) /\ WF_vars(RequestStopScans)
    /\ \A w \in Workers : WF_vars(WorkerStep(w))

FairSpec == Spec /\ ThreadsRun

(* Clients that answer, or leave. *)
ClientsAnswer == \A w \in Workers : WF_vars(SessionStep(w))
-----------------------------------------------------------------------------
WorkerStages ==
    {"absent", "take", "asleep", "register", "auth", "first", "lock", "locked",
     "erase", "count", "close", "exited"}

OwnerStages ==
    {"created", "epoll", "starting", "started", "poll", "wait", "accept", "enqueue", "notify",
     "reject", "stop", "drain", "notifyall", "join", "returned", "destroyed"}

Ended == own \in {"returned", "destroyed"}

(* Every variable keeps its type; the queue and its recorded peak stay      *)
(* within max_pending_connections.                                          *)
TypeOK ==
    /\ peer \in [Clients -> {"idle", "backlog", "open", "gone", "refused"}]
    /\ shut \subseteq Clients
    /\ open \in [Fds -> Clients \cup {None}]
    /\ own \in OwnerStages /\ call \in {"start", "run", "destructor"}
    /\ {started, listening} \subseteq BOOLEAN
    /\ client \in Fds \cup {None}
    /\ worker \in [Workers -> [pc : WorkerStages, fd : Fds \cup {None}, ok : BOOLEAN]]
    /\ sleeping \subseteq Workers
    /\ pending \in Seq(Fds) /\ Len(pending) <= MaxPending
    /\ active_connections \subseteq Fds
    /\ {workers_stopping, active_stopping, stop_requested, external_stop} \subseteq BOOLEAN
    /\ stopper \in {"idle", "storing", "done"}
    /\ destination_mutex \in Workers \cup {None}
    /\ stats \in [{"accepted", "completed", "failed", "rejected", "cancelled",
                   "peak_pending"} -> Nat]
    /\ stats.peak_pending <= MaxPending

Registered == {"auth", "first", "lock", "locked", "erase"}

Holding == Registered \cup {"register", "count", "close"}

(* The set that the shutdown scan walks holds exactly the descriptors of    *)
(* the sessions in progress, each still open: shutdown never hits the       *)
(* connection of somebody else behind a reused descriptor number.           *)
ActiveAreInProgress ==
    /\ active_connections =
          {worker[w].fd : w \in {v \in Workers : worker[v].pc \in Registered}}
    /\ \A f \in active_connections : open[f] # None

(* Who holds a descriptor: the owner that just accepted it, a place of the  *)
(* queue, or a worker.                                                      *)
Holders(f) ==
    {<<"owner", o>> : o \in {client} \cap {f}}
    \cup {<<"queue", i>> : i \in {i \in DOMAIN pending : pending[i] = f}}
    \cup {<<"worker", w>> : w \in {w \in Workers : worker[w].fd = f}}

(* Every open descriptor has exactly one holder, and every descriptor that  *)
(* somebody holds is open: none is leaked, and none is closed twice.        *)
OneHolder ==
    \A f \in Fds : /\ open[f] # None <=> Holders(f) # {}
                  /\ \A h1, h2 \in Holders(f) : h1 = h2

(* Once the shutdown scan is over, no session that could block on its       *)
(* client has been missed: a connection that left the queue during the scan *)
(* was either registered before it or is cancelled.                         *)
NobodyMissedByShutdown ==
    active_stopping =>
        \A w \in Workers : worker[w].pc \in {"auth", "first", "lock", "locked"} =>
            Mine(w) \in shut

(* Every accepted connection is counted exactly once, as completed, failed, *)
(* rejected or cancelled; what is not counted yet is still in somebody's    *)
(* hands.  When run or a failed start returns, nothing is: no connection,   *)
(* no thread and no listener is left behind.                                *)
EveryConnectionCounted ==
    LET uncounted == (IF client = None THEN 0 ELSE 1) + Len(pending)
                     + Cardinality({w \in Workers : worker[w].pc \in Holding \ {"close"}})
    IN  /\ stats.accepted = stats.completed + stats.failed + stats.rejected
                            + stats.cancelled + uncounted
        /\ Ended => /\ uncounted = 0 /\ ~listening
                    /\ \A f \in Fds : open[f] = None
                    /\ \A w \in Workers : worker[w].pc \in {"absent", "exited"}

(* No wakeup is lost: while a worker sleeps, every queued connection is     *)
(* matched by a worker on its way to the queue or by a notification about   *)
(* to be sent, although notify_one is called after the mutex was released.  *)
NoLostWakeup ==
    sleeping # {} =>
        Len(pending) <= Cardinality({w \in Workers : worker[w].pc = "take"})
                        + (IF own = "notify" THEN 1 ELSE 0)

(* After a signal or request_stop, run returns and every worker is joined,  *)
(* even if all clients stay silent for ever; and so does a run that is      *)
(* called once more when the workers are gone.                              *)
ShutdownCompletes == (stop_requested \/ external_stop \/ workers_stopping) ~> Ended

(* When clients answer, every connection that reached the server is dealt   *)
(* with: queueing, the destination mutex and the pool never block each      *)
(* other for good.                                                          *)
EveryClientIsServed ==
    ClientsAnswer =>
        \A c \in Clients : (peer[c] = "backlog") ~>
            (peer[c] # "backlog" /\ \A f \in Fds : open[f] # c)
=============================================================================

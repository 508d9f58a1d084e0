----------------------------- MODULE RtspServer -----------------------------
(***************************************************************************)
(* The RTSP server (rtsp/server.cpp): the thread that accepts clients, the *)
(* cleaner of inactive connections, the threads of the connections, and    *)
(* the signals TERM and HUP, which any of these threads may find itself    *)
(* handling (daemon.cpp).  One recursive mutex, that of the singleton,     *)
(* guards the list of connections and the access to the instance; each     *)
(* connection has another, held while it serves a request.                 *)
(*                                                                         *)
(* Abstracted: what a connection does in a request, but that it ends; the  *)
(* parameters, but the limit and whether the port moves.  Memory used      *)
(* after it was freed does no harm or ends the process.  One signal is     *)
(* handled at a time.                                                      *)
(***************************************************************************)
EXTENDS Integers, Sequences, FiniteSets

CONSTANTS
  Conns,      (* connections there may be, over time                       *)
  Limits,     (* values of the parameter limit; 0 is no limit              *)
  MaxSignals, (* bound on the signals                                      *)
  MaxRequests (* bound on the requests of all clients                      *)

ASSUME LimitsAssumption == Limits \subseteq Nat

ASSUME ConnsAssumption == Conns \subseteq Nat \ {0}

VARIABLES
  running,    (* Server::_running *)
  max,        (* _conns.max *)
  list,       (* _conns.list *)
  conn,       (* a connection: free (idle) or serving (busy), inactive *)
              (* (done) or destroyed (gone), its thread with it *)
  waiting,    (* clients in the queue of the listening socket *)
  socket,     (* the listening socket: open, moved under accept, or none *)
  pc,         (* where the main thread is *)
  cl,         (* where the cleaner is *)
  owner,      (* who holds the mutex of the server *)
  todo,       (* connections its owner has not asked yet if they are active *)
  sig, at,    (* the signal being handled, and the thread that does it *)
  signals,    (* how many there have been *)
  requests,   (* how many requests *)
  raced       (* history: a reload has set the limit for a client that was *)
              (* already let in *)

vars == <<running, max, list, conn, waiting, socket, pc, cl, owner, todo, sig,
          at, signals, requests, raced>>

None == 0

MainThread == -1

CleanerThread == -2

Threads == {MainThread, CleanerThread} \cup Conns

Listed == {list[i] : i \in DOMAIN list}

(* A handler runs on top of what its thread was doing.                     *)
Free(t) == at # t

Init ==
  /\ running = FALSE /\ max \in Limits /\ list = <<>>
  /\ conn = [c \in Conns |-> "none"]
  /\ waiting = 0 /\ socket = "open"
  /\ pc = "start" /\ cl = "off" /\ owner = None /\ todo = {}
  /\ sig = "none" /\ at = None /\ signals = 0 /\ requests = 0
  /\ raced = FALSE

-----------------------------------------------------------------------------
(* Clients, and the threads of their connections.                          *)

Connect ==
  /\ waiting + Cardinality({c \in Conns : conn[c] # "none"})
       + Cardinality({pc} \cap {"handle", "sweep", "add"}) < Cardinality(Conns)
  /\ socket = "open" /\ waiting' = waiting + 1
  /\ UNCHANGED <<running, max, list, conn, socket, pc, cl, owner, todo, sig, at,
                 signals, requests, raced>>

Quiet == UNCHANGED <<running, max, list, waiting, socket, pc, cl, owner, todo,
                     sig, at, signals, raced>>

(* A request is served under the lock of its connection.                   *)
Serve(c) ==
  /\ Free(c) /\ conn[c] = "idle" /\ requests < MaxRequests
  /\ conn' = [conn EXCEPT ![c] = "busy"] /\ requests' = requests + 1 /\ Quiet

Served(c) ==
  /\ Free(c) /\ conn[c] = "busy"
  /\ conn' = [conn EXCEPT ![c] = "idle"] /\ UNCHANGED requests /\ Quiet

(* Its client gone, the connection shuts down and waits to be destroyed.   *)
Leave(c) ==
  /\ Free(c) /\ conn[c] = "idle"
  /\ conn' = [conn EXCEPT ![c] = "done"] /\ UNCHANGED requests /\ Quiet

(* Destroying a connection takes its lock, and joins its thread: not while *)
(* it serves, and never from the thread itself.  One that listens loses    *)
(* its socket under a read that is going on.                               *)
Destroyable(c, t) == conn[c] # "busy" /\ c # t /\ Free(c)

Crash == pc' = "dead"

-----------------------------------------------------------------------------
(* Both the main thread, for a client, and the cleaner ask the connections *)
(* one by one if they are active, which takes their locks, and drop those  *)
(* that are not.                                                           *)
Sweep(t) ==
  /\ Free(t) /\ owner = t
  /\ \E c \in todo : conn[c] # "busy" /\ todo' = todo \ {c}
  /\ UNCHANGED <<running, max, list, conn, waiting, socket, pc, cl, owner, sig,
                 at, signals, requests, raced>>

Swept(t) == Free(t) /\ owner = t /\ todo = {}

Inactive(c) == conn[c] = "done"

Kept == {i \in DOMAIN list : ~Inactive(list[i])}

erase_if ==
  /\ list' = [n \in 1 .. Cardinality(Kept) |->
                list[CHOOSE i \in Kept : Cardinality({j \in Kept : j <= i}) = n]]
  /\ conn' = [c \in Conns |-> IF c \in Listed /\ Inactive(c) THEN "gone" ELSE conn[c]]

Lock(t) == owner = None /\ owner' = t /\ todo' = Listed

-----------------------------------------------------------------------------
(* The main thread.                                                        *)

(* Instance created; the cleaner is started, and the loop entered.         *)
start ==
  /\ Free(MainThread) /\ pc = "start"
  /\ running' = TRUE /\ cl' = "test" /\ pc' = "test"
  /\ UNCHANGED <<max, list, conn, waiting, socket, owner, todo, sig, at, signals,
                 requests, raced>>

run ==
  /\ Free(MainThread) /\ pc = "test"
  /\ pc' = IF ~running THEN "stopped" ELSE IF socket = "none" THEN "dead" ELSE "accept"
  /\ UNCHANGED <<running, max, list, conn, waiting, socket, cl, owner, todo, sig,
                 at, signals, requests, raced>>

accept ==
  /\ Free(MainThread) /\ pc = "accept" /\ socket = "open" /\ waiting > 0
  /\ waiting' = waiting - 1 /\ pc' = "handle"
  /\ UNCHANGED <<running, max, list, conn, socket, cl, owner, todo, sig, at,
                 signals, requests, raced>>

(* An error of accept, of the socket it has made or of one closed under    *)
(* it, ends the loop.                                                      *)
acceptFails ==
  /\ Free(MainThread) /\ pc = "accept"
  /\ waiting > 0 \/ socket # "open"
  /\ running' = FALSE /\ pc' = "stopped"
  /\ UNCHANGED <<max, list, conn, waiting, socket, cl, owner, todo, sig, at,
                 signals, requests, raced>>

handle ==
  /\ Free(MainThread) /\ pc = "handle" /\ Lock(MainThread) /\ pc' = "sweep"
  /\ UNCHANGED <<running, max, list, conn, waiting, socket, cl, sig, at, signals,
                 requests, raced>>

(* Slip: one too many.                                                     *)
AtLimitLate(n) == max # 0 /\ n > max

AtLimit(n) == max # 0 /\ n >= max

(* At the limit the client is refused, and the loop ends.                  *)
refuse ==
  /\ pc = "sweep" /\ Swept(MainThread)
  /\ erase_if /\ AtLimit(Len(list'))
  /\ running' = FALSE /\ pc' = "stopped" /\ owner' = None
  /\ UNCHANGED <<max, waiting, socket, cl, todo, sig, at, signals, requests, raced>>

(* Below the limit it is let in, and the check is not repeated.            *)
admit ==
  /\ pc = "sweep" /\ Swept(MainThread)
  /\ erase_if /\ ~AtLimit(Len(list'))
  /\ pc' = "add"
  /\ UNCHANGED <<running, max, waiting, socket, cl, owner, todo, sig, at, signals,
                 requests, raced>>

push_back ==
  /\ Free(MainThread) /\ pc = "add"
  /\ \E n \in Conns :
       /\ conn[n] = "none" /\ \A c \in Conns : conn[c] = "none" => n <= c
       /\ list' = Append(list, n) /\ conn' = [conn EXCEPT ![n] = "idle"]
  /\ pc' = "test" /\ owner' = None
  /\ UNCHANGED <<running, max, waiting, socket, cl, todo, sig, at, signals,
                 requests, raced>>

(* setKeepAlive throws: the client is dropped, and the loop ends.          *)
keepAliveFails ==
  /\ Free(MainThread) /\ pc = "add"
  /\ running' = FALSE /\ pc' = "stopped" /\ owner' = None
  /\ UNCHANGED <<max, list, conn, waiting, socket, cl, todo, sig, at, signals,
                 requests, raced>>

(* The server is destroyed, if no handler has a reference to it: the       *)
(* cleaner is told to end, and joined, and then the connections go.        *)
destroyInstance ==
  /\ Free(MainThread) /\ pc = "stopped"
  /\ running' = FALSE
  /\ IF sig = "hup" THEN pc' = "dead" /\ UNCHANGED cl
     ELSE pc' = "joining" /\ cl' = IF cl = "sleep" THEN "woken" ELSE cl
  /\ UNCHANGED <<max, list, conn, waiting, socket, owner, todo, sig, at, signals,
                 requests, raced>>

join ==
  /\ Free(MainThread) /\ pc = "joining" /\ cl = "ended" /\ Free(CleanerThread)
  /\ pc' = "clearing"
  /\ UNCHANGED <<running, max, list, conn, waiting, socket, cl, owner, todo, sig,
                 at, signals, requests, raced>>

clear ==
  /\ Free(MainThread) /\ pc = "clearing"
  /\ \/ list = <<>> /\ pc' = "exit" /\ UNCHANGED <<list, conn>>
     \/ /\ list # <<>> /\ Destroyable(Head(list), MainThread)
        /\ list' = Tail(list) /\ conn' = [conn EXCEPT ![Head(list)] = "gone"]
        /\ UNCHANGED pc \/ (conn[Head(list)] = "idle" /\ Crash)
  /\ UNCHANGED <<running, max, waiting, socket, cl, owner, todo, sig, at, signals,
                 requests, raced>>

-----------------------------------------------------------------------------
(* The cleaner.                                                            *)

clean ==
  /\ Free(CleanerThread) /\ cl = "test"
  /\ cl' = IF running THEN "lock" ELSE "ended"
  /\ UNCHANGED <<running, max, list, conn, waiting, socket, pc, owner, todo, sig,
                 at, signals, requests, raced>>

cleanLock ==
  /\ Free(CleanerThread) /\ cl = "lock" /\ Lock(CleanerThread) /\ cl' = "sweep"
  /\ UNCHANGED <<running, max, list, conn, waiting, socket, pc, sig, at, signals,
                 requests, raced>>

(* The wait gives back the mutex.                                          *)
cleanErase ==
  /\ cl = "sweep" /\ Swept(CleanerThread) /\ erase_if
  /\ cl' = "sleep" /\ owner' = None
  /\ UNCHANGED <<running, max, waiting, socket, pc, todo, sig, at, signals,
                 requests, raced>>

(* Slip: no end of its own.                                                *)
wakeupUntimed ==
  /\ Free(CleanerThread) /\ cl = "woken" /\ owner = None /\ cl' = "test"
  /\ UNCHANGED <<running, max, list, conn, waiting, socket, pc, owner, todo, sig,
                 at, signals, requests, raced>>

(* Notified, or after ten seconds; the mutex is taken again, and left.     *)
wakeup ==
  /\ Free(CleanerThread) /\ cl \in {"sleep", "woken"} /\ owner = None /\ cl' = "test"
  /\ UNCHANGED <<running, max, list, conn, waiting, socket, pc, owner, todo, sig,
                 at, signals, requests, raced>>

-----------------------------------------------------------------------------
(* Signals.                                                                *)

Exists(t) ==
  \/ t = MainThread
  \/ t = CleanerThread /\ cl \notin {"off", "ended"}
  \/ t \in Conns /\ conn[t] \in {"idle", "busy"}

Signal(s, t) ==
  /\ sig = "none" /\ signals < MaxSignals /\ Exists(t)
  /\ sig' = s /\ at' = t /\ signals' = signals + 1
  /\ UNCHANGED <<running, max, list, conn, waiting, socket, pc, cl, owner, todo,
                 requests, raced>>

(* getInstance takes the mutex of the server for a moment.                 *)
Enter == owner \in {None, at}

(* There is an instance only from start until it is destroyed.             *)
Instance == pc \notin {"start", "joining", "clearing", "exit"}

(* A handler that returns on the main thread has interrupted its accept.   *)
Return ==
  /\ sig' = "none" /\ at' = None

Interrupted(p) == IF at = MainThread /\ p = "accept" THEN "test" ELSE p

(* Without an instance the exception leaves the handler.                   *)
term ==
  /\ sig = "term" /\ Enter /\ Return
  /\ IF Instance THEN running' = FALSE /\ pc' = Interrupted(pc)
     ELSE Crash /\ UNCHANGED running
  /\ UNCHANGED <<max, list, conn, waiting, socket, cl, owner, todo, signals,
                 requests, raced>>

(* The file of parameters is read again first; if one that must be there   *)
(* is missing, the server is left alone.                                   *)
Reloaded == BOOLEAN

hup ==
  /\ sig = "hup" /\ Enter
  /\ \E read \in Reloaded :
       IF read /\ Instance
       THEN /\ sig' = "reload" /\ max' \in Limits /\ UNCHANGED at
            /\ raced' = (raced \/ pc = "add")
       ELSE Return /\ UNCHANGED <<max, raced>>
  /\ pc' = IF at' = None THEN Interrupted(pc) ELSE pc
  /\ UNCHANGED <<running, list, conn, waiting, socket, cl, owner, todo, signals,
                 requests>>

(* The list is cut to the limit, whoever holds its mutex.                  *)
pop_back ==
  /\ sig = "reload" /\ max # 0 /\ Len(list) > max
  /\ LET c == list[Len(list)]
     IN /\ Destroyable(c, at)
        /\ list' = SubSeq(list, 1, Len(list) - 1)
        /\ conn' = [conn EXCEPT ![c] = "gone"] /\ todo' = todo \ {c}
        /\ UNCHANGED pc \/ ((conn[c] = "idle" \/ owner # None) /\ Crash)
  /\ UNCHANGED <<running, max, waiting, socket, cl, owner, sig, at, signals,
                 requests, raced>>

(* Another port closes the listening socket and opens one, or fails to.    *)
(* The list is within the limit now, whatever a reload before had done.    *)
setupParameters ==
  /\ sig = "reload" /\ (max # 0 => Len(list) <= max) /\ Return
  /\ pc' = Interrupted(pc) /\ raced' = (raced /\ pc = "add")
  /\ \/ socket # "none" /\ UNCHANGED <<socket, waiting>>
     \/ /\ socket' \in {"none", IF pc' = "accept" THEN "moved" ELSE "open"}
        /\ waiting' = 0
  /\ UNCHANGED <<running, max, list, conn, cl, owner, todo, signals, requests>>

-----------------------------------------------------------------------------
Main ==
  \/ start \/ run \/ accept \/ acceptFails \/ handle \/ refuse \/ admit \/ push_back \/ keepAliveFails
  \/ destroyInstance \/ join \/ clear \/ Sweep(MainThread)

Cleaner == clean \/ cleanLock \/ cleanErase \/ wakeup \/ Sweep(CleanerThread)

SigHandler == term \/ hup \/ pop_back \/ setupParameters

Alive == pc \notin {"dead", "exit"}

Next ==
  /\ Alive
  /\ \/ Main
     \/ Cleaner
     \/ SigHandler
     \/ Connect
     \/ \E c \in Conns : Serve(c) \/ Served(c) \/ Leave(c)
     \/ \E s \in {"term", "hup"}, t \in Threads : Signal(s, t)

(* Every thread runs, a handler too; a request that has begun ends.        *)
Fairness ==
  /\ WF_vars(Alive /\ Main) /\ WF_vars(Alive /\ Cleaner) /\ WF_vars(Alive /\ SigHandler)
  /\ \A c \in Conns : WF_vars(Alive /\ Served(c))

Spec == Init /\ [][Next]_vars /\ Fairness

-----------------------------------------------------------------------------
(* There are never more connections than the limit says, unless a reload   *)
(* has not cut the list yet, or the last one came between the check of a   *)
(* client and its entry in the list (Server::handle, setupParameters).     *)
LimitKept == max # 0 /\ sig # "reload" /\ ~raced => Len(list) <= max

(* A handler waits for ever for the mutex of the server, when the cleaner  *)
(* or the main thread has it and waits for the connection whose thread     *)
(* handles the signal; or it destroys the connection it runs on.           *)
Stuck ==
  \/ at \in Conns /\ conn[at] = "busy" /\ owner # None /\ at \in todo
  \/ sig = "reload" /\ list # <<>> /\ list[Len(list)] = at

(* A server that is told to stop, or that has met the limit or an error,   *)
(* comes down with its cleaner and all of its connections (Server::run,    *)
(* ~Server), at the latest with the next client: a signal on another       *)
(* thread does not interrupt accept.                                       *)
StopHeeded ==
  (pc # "start" /\ ~running) ~>
     (~Alive \/ Stuck \/ (pc = "accept" /\ waiting = 0 /\ socket = "open"))

(* What the documentation says of the limit, "max number of connections"   *)
(* (linux/README): a client beyond it changes nothing for the others.      *)
(* Violated, so not among the runs' properties: the exception leaves the   *)
(* loop of run(), and the server comes down with every connection.         *)
RefusedAlone == [][pc = "sweep" /\ running /\ sig = "none" => running']_vars

=============================================================================

------------------------------ MODULE ConnPool ------------------------------
(***************************************************************************)
(* The pool of socket.io connections: client/socketio-client.go, with the  *)
(* OnConnection and OnDisconnection handlers of client/socket-io.go.       *)
(*                                                                         *)
(* Every user with a device online has one SocketIOUser object, found by   *)
(* pool.users, with a goroutine (runUpdateExchange) that pushes rates to   *)
(* the object's conns and waits on its closeCh for connections that ended. *)
(* pool.closeChByConnID maps a connection to the closeCh it must signal.   *)
(*                                                                         *)
(* Threads: the connect handler of each connection, its disconnect handler *)
(* (run by closeChannel under the connection's aliveLock), the goroutine   *)
(* of each SocketIOUser, and one sendTransactionNotify per user.  A        *)
(* SocketIOUser is named by the connection whose handler created it.  The  *)
(* mutex pool.m is held by exactly the threads at the points LockFree      *)
(* excludes; a step that acquires and releases it with nothing observable  *)
(* in between needs LockFree and no more.                                  *)
(***************************************************************************)
EXTENDS Naturals, FiniteSets

CONSTANTS Conns,   \* socket.io connections, each used once
          Users,   \* values of the userID header
          UserOf,  \* the userID header of each connection
          None,    \* no object, no connection
          MaxAccepted  \* bound: connections accepted in a behaviour

ASSUME ConnPoolAssumption ==
    /\ UserOf \in [Conns -> Users]
    /\ None \notin Conns

VARIABLES
    users,    \* pool.users: user -> SocketIOUser
    closeCh,  \* pool.closeChByConnID: connection -> owner of the channel
    conns,    \* SocketIOUser.conns
    connect,  \* control point of the OnConnection handler
    found,    \* its local userFromPool
    leave,    \* control point of closeChannel and OnDisconnection
    signal,   \* the closeCh (its owner) removeUserConn looked up
    routine,  \* control point of runUpdateExchange
    closing,  \* the connID it received
    notify,   \* control point of sendTransactionNotify
    fault     \* the Go runtime killed the process on a map race

vars == <<users, closeCh, conns, connect, found, leave, signal, routine,
          closing, notify, fault>>

ConnectPoint == {"idle", "wait", "insert", "done", "rejected"}
LeavePoint   == {"idle", "lock", "send", "unlock", "sweep", "done"}
RoutinePoint == {"none", "select", "tick", "close", "delete", "check",
                 "remove", "exited"}
NotifyPoint  == {"idle", "wait", "emit"}

\* The goroutine of object o has started and not returned.
Running(o) == routine[o] \notin {"none", "exited"}

\* Nobody holds pool.m.
LockFree ==
    /\ \A c \in Conns : connect[c] # "insert" /\ leave[c] \notin {"send", "unlock"}
    /\ \A u \in Users : notify[u] # "emit"

Init ==
    /\ users   = [u \in Users |-> None]
    /\ closeCh = [c \in Conns |-> None]
    /\ conns   = [o \in Conns |-> {}]
    /\ connect = [c \in Conns |-> "idle"]
    /\ found   = [c \in Conns |-> None]
    /\ leave   = [c \in Conns |-> "idle"]
    /\ signal  = [c \in Conns |-> None]
    /\ routine = [o \in Conns |-> "none"]
    /\ closing = [o \in Conns |-> None]
    /\ notify  = [u \in Users |-> "idle"]
    /\ fault   = FALSE

-----------------------------------------------------------------------------
(* Faulty variants of the actions below.  Each is a bug this code could      *)
(* have had; a run with the variant in place must break a property.          *)

\* The lookup is not tested for an absent user.
FindUserUnchecked(c) ==
    /\ connect[c] = "wait"
    /\ LockFree
    /\ connect' = [connect EXCEPT ![c] = "insert"]
    /\ found' = [found EXCEPT ![c] = users[UserOf[c]]]
    /\ UNCHANGED <<users, conns, routine, closeCh, leave, signal, closing, notify>>

\* The object of whichever user is online is taken.
FindAnyUser(c) ==
    /\ connect[c] = "wait"
    /\ LockFree
    /\ connect' = [connect EXCEPT ![c] = "insert"]
    /\ \/ /\ \E u \in Users :
               users[u] # None /\ found' = [found EXCEPT ![c] = users[u]]
          /\ UNCHANGED <<users, conns, routine>>
       \/ /\ \A u \in Users : users[u] = None
          /\ found'   = [found EXCEPT ![c] = c]
          /\ users'   = [users EXCEPT ![UserOf[c]] = c]
          /\ conns'   = [conns EXCEPT ![c] = {c}]
          /\ routine' = [routine EXCEPT ![c] = "select"]
    /\ UNCHANGED <<closeCh, leave, signal, closing, notify>>

\* Only the creator of the object is put into conns.
RegisterOnly(c) ==
    /\ connect[c] = "insert"
    /\ closeCh' = [closeCh EXCEPT ![c] = found[c]]
    /\ connect' = [connect EXCEPT ![c] = "done"]
    /\ UNCHANGED <<users, conns, found, leave, signal, routine, closing, notify>>

\* removeUserConn returns with pool.m locked.
KeepLock(c) ==
    /\ leave[c] = "unlock"
    /\ UNCHANGED <<users, closeCh, conns, connect, found, leave, signal, routine,
                   closing, notify>>

\* A tick closes a connection it cannot write to.
CloseOnTick(o) ==
    /\ routine[o] = "select"
    /\ \E c \in conns[o] : closing' = [closing EXCEPT ![o] = c]
    /\ routine' = [routine EXCEPT ![o] = "close"]
    /\ UNCHANGED <<users, closeCh, conns, connect, found, leave, signal, notify>>

\* The goroutine forgets the connection without closing it.
SkipClose(o) ==
    /\ routine[o] = "close"
    /\ routine' = [routine EXCEPT ![o] = "delete"]
    /\ UNCHANGED <<users, closeCh, conns, connect, found, leave, signal, closing, notify>>

\* The goroutine returns without removeUserFromPool.
ReturnOnly(o) ==
    /\ routine[o] = "remove"
    /\ routine' = [routine EXCEPT ![o] = "exited"]
    /\ UNCHANGED <<users, closeCh, conns, connect, found, leave, signal, closing, notify>>

-----------------------------------------------------------------------------
(* OnConnection *)

\* SetupEventLoop starts the two loops of the connection and only then calls
\* the handler: from here on the connection may also end.
Accept(c) ==
    /\ connect[c] = "idle"
    /\ Cardinality({d \in Conns : connect[d] # "idle"}) < MaxAccepted
    /\ connect' = [connect EXCEPT ![c] = "wait"]
    /\ UNCHANGED <<users, closeCh, conns, found, leave, signal, routine, closing, notify>>

\* A header is missing: the connection stays open and never joins the pool.
RejectHeaders(c) ==
    /\ connect[c] = "wait"
    /\ connect' = [connect EXCEPT ![c] = "rejected"]
    /\ UNCHANGED <<users, closeCh, conns, found, leave, signal, routine, closing, notify>>

\* Under pool.m: find the user's object or create it and start its goroutine.
FindUser(c) ==
    /\ connect[c] = "wait"
    /\ LockFree
    /\ connect' = [connect EXCEPT ![c] = "insert"]
    /\ \/ /\ users[UserOf[c]] # None
          /\ found' = [found EXCEPT ![c] = users[UserOf[c]]]
          /\ UNCHANGED <<users, conns, routine>>
       \/ /\ users[UserOf[c]] = None
          /\ found'   = [found EXCEPT ![c] = c]
          /\ users'   = [users EXCEPT ![UserOf[c]] = c]
          /\ conns'   = [conns EXCEPT ![c] = {c}]
          /\ routine' = [routine EXCEPT ![c] = "select"]
    /\ UNCHANGED <<closeCh, leave, signal, closing, notify>>

\* Still under pool.m, but the object's goroutine shares conns without it.
InsertConn(c) ==
    /\ connect[c] = "insert"
    /\ conns'   = [conns EXCEPT ![found[c]] = @ \cup {c}]
    /\ closeCh' = [closeCh EXCEPT ![c] = found[c]]
    /\ connect' = [connect EXCEPT ![c] = "done"]
    /\ UNCHANGED <<users, found, leave, signal, routine, closing, notify>>

-----------------------------------------------------------------------------
(* closeChannel and OnDisconnection, with the connection's aliveLock held   *)
(* from StartLeave to Swept.                                                *)

StartLeave(c) ==
    /\ connect[c] # "idle"
    /\ leave[c] = "idle"
    /\ leave' = [leave EXCEPT ![c] = "lock"]
    /\ UNCHANGED <<users, closeCh, conns, connect, found, signal, routine, closing, notify>>

\* removeUserConn takes pool.m; a known connection is forgotten, and the send
\* on the unbuffered closeCh starts with pool.m still held.
RemoveUserConn(c) ==
    /\ leave[c] = "lock"
    /\ LockFree
    /\ \/ /\ closeCh[c] = None
          /\ leave' = [leave EXCEPT ![c] = "sweep"]
          /\ UNCHANGED <<closeCh, signal>>
       \/ /\ closeCh[c] # None
          /\ leave'   = [leave EXCEPT ![c] = "send"]
          /\ signal'  = [signal EXCEPT ![c] = closeCh[c]]
          /\ closeCh' = [closeCh EXCEPT ![c] = None]
    /\ UNCHANGED <<users, conns, connect, found, routine, closing, notify>>

Unlock(c) ==
    /\ leave[c] = "unlock"
    /\ leave' = [leave EXCEPT ![c] = "sweep"]
    /\ UNCHANGED <<users, closeCh, conns, connect, found, signal, routine, closing, notify>>

\* The rest of the handler clears the nearby receivers, no part of the pool;
\* then closeChannel releases aliveLock.
Swept(c) ==
    /\ leave[c] = "sweep"
    /\ leave' = [leave EXCEPT ![c] = "done"]
    /\ UNCHANGED <<users, closeCh, conns, connect, found, signal, routine, closing, notify>>

-----------------------------------------------------------------------------
(* runUpdateExchange, the goroutine of object o *)

Tick(o) ==
    /\ routine[o] = "select"
    /\ routine' = [routine EXCEPT ![o] = "tick"]
    /\ UNCHANGED <<users, closeCh, conns, connect, found, leave, signal, closing, notify>>

Ticked(o) ==
    /\ routine[o] = "tick"
    /\ routine' = [routine EXCEPT ![o] = "select"]
    /\ UNCHANGED <<users, closeCh, conns, connect, found, leave, signal, closing, notify>>

\* The rendezvous on closeCh: the sender goes on to unlock pool.m, the
\* goroutine closes the connection if it is one of its own.
ReceiveClose(o, c) ==
    /\ routine[o] = "select"
    /\ leave[c] = "send" /\ signal[c] = o
    /\ leave' = [leave EXCEPT ![c] = "unlock"]
    /\ \/ /\ c \in conns[o]
          /\ routine' = [routine EXCEPT ![o] = "close"]
          /\ closing' = [closing EXCEPT ![o] = c]
       \/ /\ c \notin conns[o]
          /\ UNCHANGED <<routine, closing>>
    /\ UNCHANGED <<users, closeCh, conns, connect, found, signal, notify>>

\* conn.Close() waits for the connection's aliveLock and then finds the
\* connection dead.
CloseConn(o) ==
    /\ routine[o] = "close"
    /\ leave[closing[o]] = "done"
    /\ routine' = [routine EXCEPT ![o] = "delete"]
    /\ UNCHANGED <<users, closeCh, conns, connect, found, leave, signal, closing, notify>>

DeleteConn(o) ==
    /\ routine[o] = "delete"
    /\ conns'   = [conns EXCEPT ![o] = @ \ {closing[o]}]
    /\ routine' = [routine EXCEPT ![o] = "check"]
    /\ closing' = [closing EXCEPT ![o] = None]
    /\ UNCHANGED <<users, closeCh, connect, found, leave, signal, notify>>

\* len(conns) is read without pool.m.
CheckEmpty(o) ==
    /\ routine[o] = "check"
    /\ routine' = [routine EXCEPT ![o] = IF conns[o] = {} THEN "remove" ELSE "select"]
    /\ UNCHANGED <<users, closeCh, conns, connect, found, leave, signal, closing, notify>>

\* removeUserFromPool, then the goroutine returns.
RemoveUser(o) ==
    /\ routine[o] = "remove"
    /\ LockFree
    /\ users'   = [users EXCEPT ![UserOf[o]] = None]
    /\ routine' = [routine EXCEPT ![o] = "exited"]
    /\ UNCHANGED <<closeCh, conns, connect, found, leave, signal, closing, notify>>

-----------------------------------------------------------------------------
(* sendTransactionNotify *)

NotifyUser(u) ==
    /\ notify[u] = "idle"
    /\ notify' = [notify EXCEPT ![u] = "wait"]
    /\ UNCHANGED <<users, closeCh, conns, connect, found, leave, signal, routine, closing>>

TakeNotify(u) ==
    /\ notify[u] = "wait"
    /\ LockFree
    /\ notify' = [notify EXCEPT ![u] = IF users[u] = None THEN "idle" ELSE "emit"]
    /\ UNCHANGED <<users, closeCh, conns, connect, found, leave, signal, routine, closing>>

Emitted(u) ==
    /\ notify[u] = "emit"
    /\ notify' = [notify EXCEPT ![u] = "idle"]
    /\ UNCHANGED <<users, closeCh, conns, connect, found, leave, signal, routine, closing>>

-----------------------------------------------------------------------------
\* conns is shared between the goroutine, which does not lock, and handlers
\* that hold pool.m.  When a write overlaps another access the runtime may
\* detect it and kill the process; when it does not, the accesses take effect
\* in some order, which the steps above cover.
MapRace(o) ==
    \/ /\ \E c \in Conns : connect[c] = "insert" /\ found[c] = o
       /\ routine[o] \in {"tick", "delete"}
    \/ /\ \E u \in Users : notify[u] = "emit" /\ users[u] = o
       /\ routine[o] = "delete"

MapFault ==
    /\ \E o \in Conns : MapRace(o)
    /\ fault' = TRUE
    /\ UNCHANGED <<users, closeCh, conns, connect, found, leave, signal, routine,
                   closing, notify>>

ConnStep(c) ==
    \/ Accept(c) \/ RejectHeaders(c) \/ FindUser(c) \/ InsertConn(c)
    \/ StartLeave(c) \/ RemoveUserConn(c) \/ Unlock(c) \/ Swept(c)

RoutineStep(o) ==
    \/ Tick(o) \/ Ticked(o) \/ CloseConn(o) \/ DeleteConn(o) \/ CheckEmpty(o)
    \/ RemoveUser(o)
    \/ \E c \in Conns : ReceiveClose(o, c)

NotifyStep(u) == NotifyUser(u) \/ TakeNotify(u) \/ Emitted(u)

Step ==
    \/ \E c \in Conns : ConnStep(c)
    \/ \E o \in Conns : RoutineStep(o)
    \/ \E u \in Users : NotifyStep(u)

Next == ~fault /\ ((Step /\ UNCHANGED fault) \/ MapFault)

Spec == Init /\ [][Next]_vars

\* A step of the process itself, while the process runs.
Runs(A) == ~fault /\ A /\ UNCHANGED fault

\* The scheduler runs every thread; a Go mutex hands itself to a waiter that
\* has waited for a millisecond, so acquiring pool.m is strongly fair.  Nothing
\* obliges devices to connect, to leave or to be notified, nor the runtime to
\* detect a race; a ticker that fires cannot starve closeCh, because select
\* picks among its ready cases at random.  At most one thread holds pool.m, and
\* a goroutine is at one control point: fairness of such steps is stated once.
Release ==
    \/ \E c \in Conns : InsertConn(c) \/ Unlock(c)
    \/ \E u \in Users : Emitted(u)

Fairness ==
    /\ WF_vars(Runs(Release))
    /\ \A c \in Conns : SF_vars(Runs(RemoveUserConn(c))) /\ WF_vars(Runs(Swept(c)))
    /\ \A o \in Conns :
         /\ WF_vars(Runs(Ticked(o) \/ CloseConn(o) \/ DeleteConn(o) \/ CheckEmpty(o)))
         /\ SF_vars(Runs(RemoveUser(o)))
         /\ SF_vars(Runs(\E c \in Conns : ReceiveClose(o, c)))

FairSpec == Spec /\ Fairness

-----------------------------------------------------------------------------
\* Every variable holds a value of its kind, and no handler goes on with a nil
\* object: found, signal and closing are set where they are used.
TypeOK ==
    /\ users   \in [Users -> Conns \cup {None}]
    /\ closeCh \in [Conns -> Conns \cup {None}]
    /\ conns   \in [Conns -> SUBSET Conns]
    /\ connect \in [Conns -> ConnectPoint]
    /\ found   \in [Conns -> Conns \cup {None}]
    /\ leave   \in [Conns -> LeavePoint]
    /\ signal  \in [Conns -> Conns \cup {None}]
    /\ routine \in [Conns -> RoutinePoint]
    /\ closing \in [Conns -> Conns \cup {None}]
    /\ notify  \in [Users -> NotifyPoint]
    /\ fault   \in BOOLEAN
    /\ \A c \in Conns :
         /\ connect[c] = "insert" => found[c] # None
         /\ leave[c] = "send" => signal[c] # None
         /\ routine[c] \in {"close", "delete"} => closing[c] # None

\* pool.users leads to the one object of the user whose goroutine runs, and
\* every running goroutine is reachable there: a user never has two goroutines
\* pushing rates, and never an entry whose goroutine is gone
\* (OnConnection, removeUserFromPool).
PoolKnowsRunning ==
    \A o \in Conns : Running(o) <=> users[UserOf[o]] = o

\* A connection sits only in an object of the user it authenticated as, so
\* what is pushed for one user is never emitted to another's device.
ConnsOfOwnUser ==
    \A o \in Conns : \A c \in conns[o] : UserOf[c] = UserOf[o]

\* The signal removeUserConn sends names a connection its receiver holds: the
\* branch "trying to close conn which doesnt' exists" is dead code.
SignalNamesHeldConn ==
    \A c \in Conns : leave[c] = "send" => c \in conns[signal[c]]

\* conn.Close() in the goroutine finds the connection already closed: it never
\* runs OnDisconnection itself, which would wait on the goroutine's own channel.
CloseNeverReenters ==
    \A o \in Conns : routine[o] \in {"close", "delete"}
                        => leave[closing[o]] \in {"unlock", "sweep", "done"}

\* A connection that was registered leaves its object only after its
\* disconnect handler has finished (delete in runUpdateExchange).
OnlyFinishedConnsLeave ==
    [][\A o \in Conns : \A c \in conns[o] \ conns'[o] : leave[c] = "done"]_vars

\* A registered connection whose goroutine no longer listens: it joined the
\* object after the goroutine had found conns empty.
Orphan(c) == closeCh[c] # None /\ routine[closeCh[c]] \in {"remove", "exited"}

\* The only thing that keeps a disconnect handler from finishing is an orphan:
\* where none ever appears, removeUserConn always gets pool.m and its signal
\* is always taken.
OnlyOrphansBlock ==
    []~(\E c \in Conns : Orphan(c))
        => \A c \in Conns : (leave[c] = "lock") ~> (leave[c] = "done" \/ fault)

\* "when connection was finished, send close signal to his goroutine"
\* (the comment on closeChByConnID): the goroutine gets every signal sent.
CloseSignalDelivered ==
    \A c \in Conns : (leave[c] = "send") ~> (leave[c] # "send" \/ fault)
=============================================================================

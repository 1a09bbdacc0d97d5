--------------------------- MODULE ConnPoolProofs ---------------------------
(***************************************************************************)
(* What the connection pool guarantees for any number of users and         *)
(* connections.  PoolInv is the inductive invariant; its parts say whose   *)
(* object a handler works on, and which connections an object still holds. *)
(***************************************************************************)
EXTENDS ConnPool, TLAPS

\* A user's entry and a handler's object are that user's, and an object exists
\* once its creator has passed FindUser.
ObjectsBelong ==
    /\ \A u \in Users : users[u] # None => UserOf[users[u]] = u
    /\ \A c \in Conns : found[c] # None => /\ UserOf[found[c]] = UserOf[c]
                                           /\ routine[found[c]] # "none"
    /\ \A o \in Conns : routine[o] # "none" => connect[o] \in {"insert", "done"}
    /\ \A o \in Conns : routine[o] = "none" => conns[o] = {}

\* A registered connection is held by the object it will signal.
RegisteredHeld ==
    \A c \in Conns : closeCh[c] # None => /\ connect[c] = "done"
                                          /\ closeCh[c] = found[c]
                                          /\ c \in conns[closeCh[c]]

\* A connection being signalled is registered no more, and still held.
LeavingHeld ==
    \A c \in Conns :
        /\ leave[c] \in {"send", "unlock"} => connect[c] = "done" /\ closeCh[c] = None
        /\ leave[c] = "send" => signal[c] = found[c] /\ c \in conns[signal[c]]

\* What a goroutine is closing has been signalled, for good.
ClosingSignalled ==
    \A o \in Conns :
        /\ closing[o] # None => /\ connect[closing[o]] = "done"
                                /\ closeCh[closing[o]] = None
                                /\ leave[closing[o]] \in {"unlock", "sweep", "done"}
        /\ routine[o] = "delete" => leave[closing[o]] = "done"

PoolInv ==
    /\ TypeOK
    /\ PoolKnowsRunning
    /\ ConnsOfOwnUser
    /\ ObjectsBelong
    /\ RegisteredHeld
    /\ LeavingHeld
    /\ ClosingSignalled

-----------------------------------------------------------------------------
\* An empty pool satisfies the invariant.
LEMMA InitPoolInv == Init => PoolInv
<1> SUFFICES ASSUME Init PROVE PoolInv
  OBVIOUS
<1> USE ConnPoolAssumption DEF Init
<1>1. TypeOK
  BY DEF TypeOK, ConnectPoint, LeavePoint, RoutinePoint, NotifyPoint
<1>2. PoolKnowsRunning /\ ConnsOfOwnUser
  BY DEF PoolKnowsRunning, ConnsOfOwnUser, Running
<1>3. ObjectsBelong /\ RegisteredHeld /\ LeavingHeld /\ ClosingSignalled
  BY DEF ObjectsBelong, RegisteredHeld, LeavingHeld, ClosingSignalled
<1>4. QED
  BY <1>1, <1>2, <1>3 DEF PoolInv

(* Steps that move one control point and touch no object. *)

\* A new connection is only a control point that moves.
LEMMA AcceptKeeps ==
    ASSUME PoolInv, NEW c \in Conns, Accept(c), UNCHANGED fault
    PROVE  PoolInv'
<1> USE DEF PoolInv, Accept
<1>1. TypeOK'
  BY DEF TypeOK, ConnectPoint
<1>2. PoolKnowsRunning' /\ ConnsOfOwnUser'
  BY DEF TypeOK, PoolKnowsRunning, ConnsOfOwnUser, Running
<1>3. ObjectsBelong' /\ RegisteredHeld'
  BY DEF TypeOK, ObjectsBelong, RegisteredHeld
<1>4. LeavingHeld' /\ ClosingSignalled'
  BY DEF TypeOK, LeavingHeld, ClosingSignalled
<1>5. QED
  BY <1>1, <1>2, <1>3, <1>4

\* A connection without headers ends before it touches the pool.
LEMMA RejectHeadersKeeps ==
    ASSUME PoolInv, NEW c \in Conns, RejectHeaders(c), UNCHANGED fault
    PROVE  PoolInv'
<1> USE DEF PoolInv, RejectHeaders
<1>1. TypeOK'
  BY DEF TypeOK, ConnectPoint
<1>2. PoolKnowsRunning' /\ ConnsOfOwnUser'
  BY DEF TypeOK, PoolKnowsRunning, ConnsOfOwnUser, Running
<1>3. ObjectsBelong' /\ RegisteredHeld'
  BY DEF TypeOK, ObjectsBelong, RegisteredHeld
<1>4. LeavingHeld' /\ ClosingSignalled'
  BY DEF TypeOK, LeavingHeld, ClosingSignalled
<1>5. QED
  BY <1>1, <1>2, <1>3, <1>4

\* closeChannel waits for pool.m and has touched nothing yet.
LEMMA StartLeaveKeeps ==
    ASSUME PoolInv, NEW c \in Conns, StartLeave(c), UNCHANGED fault
    PROVE  PoolInv'
<1> USE DEF PoolInv, StartLeave
<1>1. TypeOK'
  BY DEF TypeOK, LeavePoint
<1>2. PoolKnowsRunning' /\ ConnsOfOwnUser'
  BY DEF TypeOK, PoolKnowsRunning, ConnsOfOwnUser, Running
<1>3. ObjectsBelong' /\ RegisteredHeld'
  BY DEF TypeOK, ObjectsBelong, RegisteredHeld
<1>4. LeavingHeld' /\ ClosingSignalled'
  BY DEF TypeOK, LeavingHeld, ClosingSignalled
<1>5. QED
  BY <1>1, <1>2, <1>3, <1>4

\* removeUserConn returns.
LEMMA UnlockKeeps ==
    ASSUME PoolInv, NEW c \in Conns, Unlock(c), UNCHANGED fault
    PROVE  PoolInv'
<1> USE DEF PoolInv, Unlock
<1>1. TypeOK'
  BY DEF TypeOK, LeavePoint
<1>2. PoolKnowsRunning' /\ ConnsOfOwnUser'
  BY DEF TypeOK, PoolKnowsRunning, ConnsOfOwnUser, Running
<1>3. ObjectsBelong' /\ RegisteredHeld'
  BY DEF TypeOK, ObjectsBelong, RegisteredHeld
<1>4. LeavingHeld' /\ ClosingSignalled'
  BY DEF TypeOK, LeavingHeld, ClosingSignalled
<1>5. QED
  BY <1>1, <1>2, <1>3, <1>4

\* The sweep of the receivers does not touch the pool.
LEMMA SweptKeeps ==
    ASSUME PoolInv, NEW c \in Conns, Swept(c), UNCHANGED fault
    PROVE  PoolInv'
<1> USE DEF PoolInv, Swept
<1>1. TypeOK'
  BY DEF TypeOK, LeavePoint
<1>2. PoolKnowsRunning' /\ ConnsOfOwnUser'
  BY DEF TypeOK, PoolKnowsRunning, ConnsOfOwnUser, Running
<1>3. ObjectsBelong' /\ RegisteredHeld'
  BY DEF TypeOK, ObjectsBelong, RegisteredHeld
<1>4. LeavingHeld' /\ ClosingSignalled'
  BY DEF TypeOK, LeavingHeld, ClosingSignalled
<1>5. QED
  BY <1>1, <1>2, <1>3, <1>4

\* The ticker's case changes no object.
LEMMA TickKeeps ==
    ASSUME PoolInv, NEW o \in Conns, Tick(o), UNCHANGED fault
    PROVE  PoolInv'
<1> USE DEF PoolInv, Tick
<1>1. TypeOK'
  BY DEF TypeOK, RoutinePoint
<1>2. PoolKnowsRunning' /\ ConnsOfOwnUser'
  BY DEF TypeOK, PoolKnowsRunning, ConnsOfOwnUser, Running
<1>3. ObjectsBelong' /\ RegisteredHeld'
  BY DEF TypeOK, ObjectsBelong, RegisteredHeld
<1>4. LeavingHeld' /\ ClosingSignalled'
  BY DEF TypeOK, LeavingHeld, ClosingSignalled
<1>5. QED
  BY <1>1, <1>2, <1>3, <1>4

\* The goroutine returns to its select.
LEMMA TickedKeeps ==
    ASSUME PoolInv, NEW o \in Conns, Ticked(o), UNCHANGED fault
    PROVE  PoolInv'
<1> USE DEF PoolInv, Ticked
<1>1. TypeOK'
  BY DEF TypeOK, RoutinePoint
<1>2. PoolKnowsRunning' /\ ConnsOfOwnUser'
  BY DEF TypeOK, PoolKnowsRunning, ConnsOfOwnUser, Running
<1>3. ObjectsBelong' /\ RegisteredHeld'
  BY DEF TypeOK, ObjectsBelong, RegisteredHeld
<1>4. LeavingHeld' /\ ClosingSignalled'
  BY DEF TypeOK, LeavingHeld, ClosingSignalled
<1>5. QED
  BY <1>1, <1>2, <1>3, <1>4

\* conn.Close() waits for the connection's disconnect handler: leave is done by then.
LEMMA CloseConnKeeps ==
    ASSUME PoolInv, NEW o \in Conns, CloseConn(o), UNCHANGED fault
    PROVE  PoolInv'
<1> USE DEF PoolInv, CloseConn
<1>1. TypeOK'
  BY DEF TypeOK, RoutinePoint
<1>2. PoolKnowsRunning' /\ ConnsOfOwnUser'
  BY DEF TypeOK, PoolKnowsRunning, ConnsOfOwnUser, Running
<1>3. ObjectsBelong' /\ RegisteredHeld'
  BY DEF TypeOK, ObjectsBelong, RegisteredHeld
<1>4. LeavingHeld' /\ ClosingSignalled'
  BY DEF TypeOK, LeavingHeld, ClosingSignalled
<1>5. QED
  BY <1>1, <1>2, <1>3, <1>4

\* The check that conns is empty reads only.
LEMMA CheckEmptyKeeps ==
    ASSUME PoolInv, NEW o \in Conns, CheckEmpty(o), UNCHANGED fault
    PROVE  PoolInv'
<1> USE DEF PoolInv, CheckEmpty
<1>1. TypeOK'
  BY DEF TypeOK, RoutinePoint
<1>2. PoolKnowsRunning' /\ ConnsOfOwnUser'
  BY DEF TypeOK, PoolKnowsRunning, ConnsOfOwnUser, Running
<1>3. ObjectsBelong' /\ RegisteredHeld'
  BY DEF TypeOK, ObjectsBelong, RegisteredHeld
<1>4. LeavingHeld' /\ ClosingSignalled'
  BY DEF TypeOK, LeavingHeld, ClosingSignalled
<1>5. QED
  BY <1>1, <1>2, <1>3, <1>4

\* A notification asks for pool.m.
LEMMA NotifyUserKeeps ==
    ASSUME PoolInv, NEW u \in Users, NotifyUser(u), UNCHANGED fault
    PROVE  PoolInv'
<1> USE DEF PoolInv, NotifyUser
<1>1. TypeOK'
  BY DEF TypeOK, NotifyPoint
<1>2. PoolKnowsRunning' /\ ConnsOfOwnUser'
  BY DEF TypeOK, PoolKnowsRunning, ConnsOfOwnUser, Running
<1>3. ObjectsBelong' /\ RegisteredHeld'
  BY DEF TypeOK, ObjectsBelong, RegisteredHeld
<1>4. LeavingHeld' /\ ClosingSignalled'
  BY DEF TypeOK, LeavingHeld, ClosingSignalled
<1>5. QED
  BY <1>1, <1>2, <1>3, <1>4

\* sendTransactionNotify holds pool.m.
LEMMA TakeNotifyKeeps ==
    ASSUME PoolInv, NEW u \in Users, TakeNotify(u), UNCHANGED fault
    PROVE  PoolInv'
<1> USE DEF PoolInv, TakeNotify
<1>1. TypeOK'
  BY DEF TypeOK, NotifyPoint
<1>2. PoolKnowsRunning' /\ ConnsOfOwnUser'
  BY DEF TypeOK, PoolKnowsRunning, ConnsOfOwnUser, Running
<1>3. ObjectsBelong' /\ RegisteredHeld'
  BY DEF TypeOK, ObjectsBelong, RegisteredHeld
<1>4. LeavingHeld' /\ ClosingSignalled'
  BY DEF TypeOK, LeavingHeld, ClosingSignalled
<1>5. QED
  BY <1>1, <1>2, <1>3, <1>4

\* sendTransactionNotify releases pool.m.
LEMMA EmittedKeeps ==
    ASSUME PoolInv, NEW u \in Users, Emitted(u), UNCHANGED fault
    PROVE  PoolInv'
<1> USE DEF PoolInv, Emitted
<1>1. TypeOK'
  BY DEF TypeOK, NotifyPoint
<1>2. PoolKnowsRunning' /\ ConnsOfOwnUser'
  BY DEF TypeOK, PoolKnowsRunning, ConnsOfOwnUser, Running
<1>3. ObjectsBelong' /\ RegisteredHeld'
  BY DEF TypeOK, ObjectsBelong, RegisteredHeld
<1>4. LeavingHeld' /\ ClosingSignalled'
  BY DEF TypeOK, LeavingHeld, ClosingSignalled
<1>5. QED
  BY <1>1, <1>2, <1>3, <1>4

(* Steps that change the pool, an object or a signal. *)

\* OnConnection takes the user's object or creates it: its goroutine is the only one.
LEMMA FindUserKeeps ==
    ASSUME PoolInv, NEW c \in Conns, FindUser(c), UNCHANGED fault
    PROVE  PoolInv'
<1> DEFINE u == UserOf[c]
<1>0. u \in Users /\ connect[c] = "wait" /\ connect' = [connect EXCEPT ![c] = "insert"]
      /\ UNCHANGED <<closeCh, leave, signal, closing, notify>>
  BY ConnPoolAssumption DEF FindUser
<1>1. CASE users[u] # None
  \* The object is the user's, and its goroutine runs: only c's handler moves.
  <2>1. /\ found' = [found EXCEPT ![c] = users[u]]
        /\ UNCHANGED <<users, conns, routine>>
    BY <1>1 DEF FindUser
  <2>2. users[u] \in Conns /\ UserOf[users[u]] = u /\ routine[users[u]] # "none"
    BY <1>0, <1>1 DEF PoolInv, TypeOK, ObjectsBelong, PoolKnowsRunning, Running
  <2>3. TypeOK'
    BY <1>0, <2>1, <2>2, ConnPoolAssumption DEF PoolInv, TypeOK, ConnectPoint
  <2>4. PoolKnowsRunning' /\ ConnsOfOwnUser'
    BY <2>1 DEF PoolInv, PoolKnowsRunning, ConnsOfOwnUser, Running
  <2>5. ObjectsBelong'
    BY <1>0, <2>1, <2>2 DEF PoolInv, TypeOK, ObjectsBelong
  <2>6. RegisteredHeld' /\ LeavingHeld' /\ ClosingSignalled'
    BY <1>0, <2>1 DEF PoolInv, TypeOK, RegisteredHeld, LeavingHeld, ClosingSignalled
  <2>7. QED
    BY <2>3, <2>4, <2>5, <2>6 DEF PoolInv
<1>2. CASE users[u] = None
  \* c creates the object: no goroutine of the user runs, and none of c's own.
  <2>1. /\ found'   = [found EXCEPT ![c] = c]
        /\ users'   = [users EXCEPT ![u] = c]
        /\ conns'   = [conns EXCEPT ![c] = {c}]
        /\ routine' = [routine EXCEPT ![c] = "select"]
    BY <1>2 DEF FindUser
  <2>2. routine[c] = "none" /\ conns[c] = {}
    BY <1>0 DEF PoolInv, TypeOK, ObjectsBelong
  <2>3. TypeOK'
    BY <1>0, <2>1, ConnPoolAssumption DEF PoolInv, TypeOK, ConnectPoint, RoutinePoint
  <2>4. PoolKnowsRunning'
    <3> SUFFICES ASSUME NEW o \in Conns
                 PROVE  Running(o)' <=> users'[UserOf[o]] = o
      BY DEF PoolKnowsRunning
    <3>1. CASE o = c
      BY <1>0, <2>1, <3>1 DEF PoolInv, TypeOK, Running
    <3>2. CASE o # c /\ UserOf[o] = u
      BY <1>0, <1>2, <2>1, <3>2, ConnPoolAssumption
         DEF PoolInv, TypeOK, PoolKnowsRunning, Running
    <3>3. CASE UserOf[o] # u
      BY <1>0, <2>1, <3>3 DEF PoolInv, TypeOK, PoolKnowsRunning, Running
    <3>4. QED
      BY <3>1, <3>2, <3>3
  <2>5. ConnsOfOwnUser'
    BY <2>1 DEF PoolInv, TypeOK, ConnsOfOwnUser
  <2>6. ObjectsBelong'
    BY <1>0, <2>1 DEF PoolInv, TypeOK, ObjectsBelong
  <2>7. RegisteredHeld' /\ LeavingHeld'
    BY <1>0, <2>1, <2>2 DEF PoolInv, TypeOK, RegisteredHeld, LeavingHeld
  <2>8. ClosingSignalled'
    BY <1>0, <2>1 DEF PoolInv, TypeOK, ClosingSignalled
  <2>9. QED
    BY <2>3, <2>4, <2>5, <2>6, <2>7, <2>8 DEF PoolInv
<1>3. QED
  BY <1>1, <1>2

\* OnConnection registers the connection with the object it found.
LEMMA InsertConnKeeps ==
    ASSUME PoolInv, NEW c \in Conns, InsertConn(c), UNCHANGED fault
    PROVE  PoolInv'
<1> USE ConnPoolAssumption DEF PoolInv, TypeOK, InsertConn
<1>1. TypeOK'
  BY DEF ConnectPoint, LeavePoint, RoutinePoint, NotifyPoint
<1>2. PoolKnowsRunning'
  BY DEF PoolKnowsRunning, Running
<1>3. ConnsOfOwnUser'
  BY DEF ConnsOfOwnUser, ObjectsBelong
<1>4. ObjectsBelong'
  BY DEF ObjectsBelong
<1>5. RegisteredHeld'
  BY DEF RegisteredHeld, LeavingHeld
<1>6. LeavingHeld'
  BY DEF LeavingHeld
<1>7. ClosingSignalled'
  BY DEF ClosingSignalled
<1>8. QED
  BY <1>1, <1>2, <1>3, <1>4, <1>5, <1>6, <1>7

\* removeUserConn takes the close channel and forgets the connection.
LEMMA RemoveUserConnKeeps ==
    ASSUME PoolInv, NEW c \in Conns, RemoveUserConn(c), UNCHANGED fault
    PROVE  PoolInv'
<1> USE ConnPoolAssumption DEF PoolInv, TypeOK, RemoveUserConn
<1>1. TypeOK'
  BY DEF ConnectPoint, LeavePoint, RoutinePoint, NotifyPoint
<1>2. PoolKnowsRunning'
  BY DEF PoolKnowsRunning, Running
<1>3. ConnsOfOwnUser'
  BY DEF ConnsOfOwnUser
<1>4. ObjectsBelong'
  BY DEF ObjectsBelong
<1>5. RegisteredHeld'
  BY DEF RegisteredHeld
<1>6. LeavingHeld'
  BY DEF LeavingHeld, RegisteredHeld
<1>7. ClosingSignalled'
  BY DEF ClosingSignalled
<1>8. QED
  BY <1>1, <1>2, <1>3, <1>4, <1>5, <1>6, <1>7

\* The goroutine deletes the connection it closed.
LEMMA DeleteConnKeeps ==
    ASSUME PoolInv, NEW o \in Conns, DeleteConn(o), UNCHANGED fault
    PROVE  PoolInv'
<1> USE ConnPoolAssumption DEF PoolInv, TypeOK, DeleteConn
<1>1. TypeOK'
  BY DEF ConnectPoint, LeavePoint, RoutinePoint, NotifyPoint
<1>2. PoolKnowsRunning'
  BY DEF PoolKnowsRunning, Running
<1>3. ConnsOfOwnUser'
  BY DEF ConnsOfOwnUser
<1>4. ObjectsBelong'
  BY DEF ObjectsBelong
<1>5. RegisteredHeld'
  BY DEF RegisteredHeld, ClosingSignalled
<1>6. LeavingHeld'
  BY DEF LeavingHeld, ClosingSignalled
<1>7. ClosingSignalled'
  BY DEF ClosingSignalled
<1>8. QED
  BY <1>1, <1>2, <1>3, <1>4, <1>5, <1>6, <1>7

\* The goroutine removes its user's entry, which is its own object.
LEMMA RemoveUserKeeps ==
    ASSUME PoolInv, NEW o \in Conns, RemoveUser(o), UNCHANGED fault
    PROVE  PoolInv'
<1> USE ConnPoolAssumption DEF PoolInv, TypeOK, RemoveUser
<1>1. TypeOK'
  BY DEF ConnectPoint, LeavePoint, RoutinePoint, NotifyPoint
<1>2. PoolKnowsRunning'
  \* The entry that goes away was o's, the one goroutine of the user.
  <2> SUFFICES ASSUME NEW p \in Conns
               PROVE  Running(p)' <=> users'[UserOf[p]] = p
    BY DEF PoolKnowsRunning
  <2>1. Running(o) /\ users[UserOf[o]] = o
    BY DEF PoolKnowsRunning, Running
  <2>2. UserOf[o] \in Users /\ UserOf[p] \in Users
    BY ConnPoolAssumption
  <2>3. CASE UserOf[p] = UserOf[o]
    BY <2>1, <2>2, <2>3 DEF PoolKnowsRunning, Running
  <2>4. CASE UserOf[p] # UserOf[o]
    BY <2>2, <2>4 DEF PoolKnowsRunning, Running
  <2>5. QED
    BY <2>3, <2>4
<1>3. ConnsOfOwnUser'
  BY DEF ConnsOfOwnUser
<1>4. ObjectsBelong'
  BY DEF ObjectsBelong
<1>5. RegisteredHeld'
  BY DEF RegisteredHeld
<1>6. LeavingHeld'
  BY DEF LeavingHeld
<1>7. ClosingSignalled'
  BY DEF ClosingSignalled
<1>8. QED
  BY <1>1, <1>2, <1>3, <1>4, <1>5, <1>6, <1>7

\* A signal is handed over: the goroutine holds the connection it names.
LEMMA ReceiveCloseKeeps ==
    ASSUME PoolInv, NEW o \in Conns, NEW c \in Conns, ReceiveClose(o, c), UNCHANGED fault
    PROVE  PoolInv'
<1> USE ConnPoolAssumption DEF PoolInv, TypeOK, ReceiveClose
<1>1. TypeOK'
  BY DEF ConnectPoint, LeavePoint, RoutinePoint, NotifyPoint
<1>2. PoolKnowsRunning'
  BY DEF PoolKnowsRunning, Running
<1>3. ConnsOfOwnUser'
  BY DEF ConnsOfOwnUser
<1>4. ObjectsBelong'
  BY DEF ObjectsBelong
<1>5. RegisteredHeld'
  BY DEF RegisteredHeld
<1>6. LeavingHeld'
  BY DEF LeavingHeld
<1>7. ClosingSignalled'
  BY DEF ClosingSignalled, LeavingHeld
<1>8. QED
  BY <1>1, <1>2, <1>3, <1>4, <1>5, <1>6, <1>7

-----------------------------------------------------------------------------
\* Every step of the pool keeps the invariant.
LEMMA NextPoolInv == PoolInv /\ [Next]_vars => PoolInv'
<1> SUFFICES ASSUME PoolInv, [Next]_vars
             PROVE  PoolInv'
  OBVIOUS
<1>1. ASSUME NEW c \in Conns, ConnStep(c), UNCHANGED fault
      PROVE  PoolInv'
  BY <1>1, AcceptKeeps, RejectHeadersKeeps, FindUserKeeps, InsertConnKeeps,
     StartLeaveKeeps, RemoveUserConnKeeps, UnlockKeeps, SweptKeeps DEF ConnStep
<1>2. ASSUME NEW o \in Conns, RoutineStep(o), UNCHANGED fault
      PROVE  PoolInv'
  BY <1>2, TickKeeps, TickedKeeps, CloseConnKeeps, DeleteConnKeeps,
     CheckEmptyKeeps, RemoveUserKeeps, ReceiveCloseKeeps DEF RoutineStep
<1>3. ASSUME NEW u \in Users, NotifyStep(u), UNCHANGED fault
      PROVE  PoolInv'
  BY <1>3, NotifyUserKeeps, TakeNotifyKeeps, EmittedKeeps DEF NotifyStep
<1>4. CASE UNCHANGED <<users, closeCh, conns, connect, found, leave, signal,
                       routine, closing, notify>> /\ fault' \in BOOLEAN
  \* A map fault, or a step that changes nothing.
  <2> USE <1>4 DEF PoolInv
  <2>1. TypeOK'
    BY DEF TypeOK
  <2>2. PoolKnowsRunning' /\ ConnsOfOwnUser'
    BY DEF PoolKnowsRunning, ConnsOfOwnUser, Running
  <2>3. ObjectsBelong' /\ RegisteredHeld'
    BY DEF ObjectsBelong, RegisteredHeld
  <2>4. LeavingHeld' /\ ClosingSignalled'
    BY DEF LeavingHeld, ClosingSignalled
  <2>5. QED
    BY <2>1, <2>2, <2>3, <2>4
<1>5. CASE UNCHANGED vars
  BY <1>4, <1>5 DEF vars, PoolInv, TypeOK
<1>6. CASE MapFault
  BY <1>4, <1>6 DEF MapFault
<1>7. QED
  BY <1>1, <1>2, <1>3, <1>5, <1>6 DEF Next, Step

\* Every state of the pool satisfies PoolInv: handlers work on their own
\* user's object, and what is signalled or closed is still held (OnConnection,
\* removeUserConn, runUpdateExchange).
THEOREM PoolInvariant == Spec => []PoolInv
BY InitPoolInv, NextPoolInv, PTL DEF Spec

\* Every variable keeps its kind and no handler ever uses a nil object.
THEOREM TypeCorrect == Spec => []TypeOK
<1>1. PoolInv => TypeOK
  BY DEF PoolInv
<1>2. QED
  BY <1>1, PoolInvariant, PTL

\* A user never has two goroutines, and pool.users never leads to one that
\* has returned (OnConnection, removeUserFromPool).
THEOREM OneGoroutinePerUser == Spec => []PoolKnowsRunning
<1>1. PoolInv => PoolKnowsRunning
  BY DEF PoolInv
<1>2. QED
  BY <1>1, PoolInvariant, PTL

\* What is emitted for a user reaches that user's devices only.
THEOREM NoForeignDevice == Spec => []ConnsOfOwnUser
<1>1. PoolInv => ConnsOfOwnUser
  BY DEF PoolInv
<1>2. QED
  BY <1>1, PoolInvariant, PTL

\* The goroutine that receives a close signal holds the connection it names.
THEOREM SignalIsKnown == Spec => []SignalNamesHeldConn
<1>1. PoolInv => SignalNamesHeldConn
  BY DEF PoolInv, LeavingHeld, SignalNamesHeldConn
<1>2. QED
  BY <1>1, PoolInvariant, PTL

\* conn.Close() never runs the disconnect handler inside the goroutine that
\* handler would wait for.
THEOREM NoReentry == Spec => []CloseNeverReenters
<1>1. PoolInv => CloseNeverReenters
  BY DEF PoolInv, TypeOK, ClosingSignalled, CloseNeverReenters
<1>2. QED
  BY <1>1, PoolInvariant, PTL

\* An object gives up a connection only when its disconnect handler is done:
\* only DeleteConn shrinks conns, by the connection being closed.
THEOREM HeldUntilFinished == Spec => OnlyFinishedConnsLeave
<1> DEFINE Leaves == \A o \in Conns : \A c \in conns[o] \ conns'[o] : leave[c] = "done"
<1>1. PoolInv /\ [Next]_vars => [Leaves]_vars
  <2> SUFFICES ASSUME PoolInv, [Next]_vars
               PROVE  Leaves \/ UNCHANGED vars
    OBVIOUS
  <2>1. CASE UNCHANGED conns
    BY <2>1
  <2>2. ASSUME NEW c \in Conns, FindUser(c)
        PROVE  Leaves
    BY <2>2 DEF FindUser, PoolInv, TypeOK, ObjectsBelong
  <2>3. ASSUME NEW c \in Conns, InsertConn(c)
        PROVE  Leaves
    BY <2>3 DEF InsertConn, PoolInv, TypeOK
  <2>4. ASSUME NEW o \in Conns, DeleteConn(o)
        PROVE  Leaves
    BY <2>4 DEF DeleteConn, PoolInv, TypeOK, ClosingSignalled
  <2>5. ASSUME NEW c \in Conns, ConnStep(c)
        PROVE  Leaves
    BY <2>1, <2>2, <2>3, <2>5
       DEF ConnStep, Accept, RejectHeaders, StartLeave, RemoveUserConn, Unlock, Swept
  <2>6. ASSUME NEW o \in Conns, RoutineStep(o)
        PROVE  Leaves
    BY <2>1, <2>4, <2>6
       DEF RoutineStep, Tick, Ticked, CloseConn, CheckEmpty, RemoveUser, ReceiveClose
  <2>7. ASSUME NEW u \in Users, NotifyStep(u)
        PROVE  Leaves
    BY <2>1, <2>7 DEF NotifyStep, NotifyUser, TakeNotify, Emitted
  <2>8. QED
    BY <2>1, <2>5, <2>6, <2>7 DEF Next, Step, MapFault, vars
<1>2. QED
  BY <1>1, PoolInvariant, PTL DEF Spec, OnlyFinishedConnsLeave
=============================================================================

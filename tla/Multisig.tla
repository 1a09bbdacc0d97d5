------------------------------ MODULE Multisig ------------------------------
(***************************************************************************)
(* The members of a multisig wallet before and while its contract is       *)
(* deployed.  There is no document for the wallet: every member's user     *)
(* document holds a copy of its own, found by the invite code.  The        *)
(* message:send handlers of client/socket-io.go (join, leave, kick,        *)
(* delete), createCustomMultisig of client/rest.go and the AddMultisig     *)
(* stream of eth/handlers.go read one copy and rewrite the others, one     *)
(* database call after another; requests are served concurrently.          *)
(*                                                                         *)
(* One invite code; a user is known by one address.  The rest of a user's  *)
(* multisig list, and the tags of an owner (indices, Associated, UserID),  *)
(* are left out; notifications are not state.                              *)
(***************************************************************************)
EXTENDS Naturals, Sequences, SequencesExt, FiniteSets

CONSTANTS Users,
          OwnersCount,  \* the number of owners the wallet is for
          Requests,     \* requests users may send, each once
          MaxOpen,      \* bound on the requests served at a time
          MaxServed,    \* bound on the requests served in all
          MaxEvents     \* bound on the node's reports about the contract

ASSUME MultisigAssumption ==
    /\ OwnersCount \in Nat \ {0, 1}
    /\ MaxOpen \in Nat \ {0} /\ MaxServed \in Nat /\ MaxEvents \in Nat
    /\ \A r \in Requests :
         /\ r.op \in {"create", "join", "leave", "kick", "delete"}
         /\ r.by \in Users /\ r.target \in Users

VARIABLES
    copies,    \* the entries of each user's multisig list with this code
    at,        \* control point of each request
    ms,        \* its local multisig
    given,     \* the deployStatus it will write
    todo,      \* its local users, not yet rewritten
    members,   \* owners in the contract a member has sent, {} before
    deploy,    \* control point of the AddMultisig stream
    event,     \* the report it handles
    left,      \* users not yet looked up or written for it
    matched,   \* fetchInviteUndeployed found the code
    events,    \* reports so far
    mixed,     \* history: two requests were served at once
    raced,     \* history: a report was handled while a request was served
    vain       \* history: somebody was kicked who was not an owner

vars == <<copies, at, ms, given, todo, members, deploy, event, left, matched,
          events, mixed, raced, vain>>

requestVars == <<at, ms, given, todo>>
deployVars  == <<members, deploy, event, left, matched, events>>
historyVars == <<mixed, raced, vain>>

Status == {"WaitingForJoin", "AllJoined", "DeployPending", "Rejected", "Deployed"}
Copy   == [owners : Seq(Users), creator : Users, status : Status, contract : BOOLEAN]
Report == [status : {"DeployPending", "Rejected", "Deployed"}, contract : BOOLEAN]

\* event between two reports.
NoReport == [status |-> "DeployPending", contract |-> FALSE]

Holders == {u \in Users : copies[u] # <<>>}

\* FindMultisig: the entry of whichever document the query returns first.
Found == {Head(copies[u]) : u \in Holders}

\* The owners of a list that are in a set, in their order.
Among(owners, S) ==
    LET kept[n \in 0..Len(owners)] ==
            IF n = 0 THEN <<>>
            ELSE IF owners[n] \in S THEN Append(kept[n - 1], owners[n]) ELSE kept[n - 1]
    IN kept[Len(owners)]

Without(owners, u) == Among(owners, Users \ {u})

\* The owners as updateUserOwners writes them: once each, in any order.
Once(owners) == SetToSeq(ToSet(owners))

Open == {r \in Requests : at[r] \notin {"idle", "done"}}

NewCopy(u) == [owners |-> <<u>>, creator |-> u, status |-> "WaitingForJoin", contract |-> FALSE]

goTo(r, p) == at' = [at EXCEPT ![r] = p]

\* The handler replies; its locals end with it.
Reply(r) ==
    /\ goTo(r, "done")
    /\ ms' = [ms EXCEPT ![r] = NewCopy(r.by)]
    /\ given' = [given EXCEPT ![r] = "WaitingForJoin"]

Init ==
    /\ copies  = [u \in Users |-> <<>>]
    /\ at      = [r \in Requests |-> "idle"]
    /\ ms      = [r \in Requests |-> NewCopy(r.by)]
    /\ given   = [r \in Requests |-> "WaitingForJoin"]
    /\ todo    = [r \in Requests |-> {}]
    /\ members = {}
    /\ deploy  = "idle"
    /\ event   = NoReport
    /\ left    = {}
    /\ matched = FALSE
    /\ events  = 0
    /\ mixed   = FALSE
    /\ raced   = FALSE
    /\ vain    = FALSE

-----------------------------------------------------------------------------
(* Faulty variants of the actions below.  Each is a bug this code could      *)
(* have had; a run with the variant in place must break a property.          *)

\* JoinRead with the new list and status for its two writes.
joinRead(r, full(_), m2(_), last(_)) ==
    /\ r.op = "join" /\ at[r] = "read"
    /\ \/ /\ Holders = {} \/ \E m \in Found : full(m)
          /\ Reply(r)
       \/ \E m \in Found :
            /\ ~full(m)
            /\ ms' = [ms EXCEPT ![r] = m2(m)]
            /\ given' = [given EXCEPT ![r] = IF last(m) THEN "AllJoined" ELSE "WaitingForJoin"]
            /\ goTo(r, "users")
    /\ UNCHANGED <<copies, todo, deployVars, historyVars>>

isFull(m) == Len(m.owners) >= OwnersCount
isLast(m) == Len(m.owners) + 1 = OwnersCount

\* The sender is missing in the list that is written.
JoinForgotten(r) == joinRead(r, isFull, LAMBDA m : m, isLast)

\* One more than the wallet is for may join.
JoinOver(r) ==
    joinRead(r, LAMBDA m : Len(m.owners) > OwnersCount,
             LAMBDA m : [m EXCEPT !.owners = Append(@, r.by)], isLast)

\* The sender's own entry does not get the new status.
JoinStatusForgotten(r) ==
    joinRead(r, isFull, LAMBDA m : [m EXCEPT !.owners = Append(@, r.by)], isLast)

\* The kicked user keeps the wallet.
KickKept(r) ==
    /\ r.op = "kick" /\ at[r] = "drop"
    /\ goTo(r, "update")
    /\ UNCHANGED <<copies, ms, given, todo, deployVars, historyVars>>

\* A report is written whether the contract is known or not.
AnyReport ==
    /\ deploy = "find"
    /\ IF matched
       THEN deploy' = "set" /\ left' = members /\ UNCHANGED event
       ELSE deploy' = "idle" /\ event' = NoReport /\ UNCHANGED left
    /\ matched' = FALSE
    /\ UNCHANGED <<copies, requestVars, members, events, historyVars>>

-----------------------------------------------------------------------------
(* Requests *)

Start(r) ==
    /\ at[r] = "idle" /\ Cardinality(Open) < MaxOpen
    /\ Cardinality({q \in Requests : at[q] # "idle"}) < MaxServed
    /\ goTo(r, "check")
    /\ mixed' = (mixed \/ Open # {})
    /\ raced' = (raced \/ deploy \in {"match", "find", "set"})
    /\ UNCHANGED <<copies, ms, given, todo, deployVars, vain>>

\* CheckInviteCode wants a code nobody has.
CreateCheck(r) ==
    /\ r.op = "create" /\ at[r] = "check"
    /\ \/ Holders = {} /\ goTo(r, "push") /\ UNCHANGED <<ms, given>>
       \/ Holders # {} /\ Reply(r)
    /\ UNCHANGED <<copies, todo, deployVars, historyVars>>

CreatePush(r) ==
    /\ r.op = "create" /\ at[r] = "push"
    /\ copies' = [copies EXCEPT ![r.by] = Append(@, NewCopy(r.by))]
    /\ Reply(r)
    /\ UNCHANGED <<todo, deployVars, historyVars>>

\* CheckInviteCode and the search for the sender among the code's users.
JoinCheck(r) ==
    /\ r.op = "join" /\ at[r] = "check"
    /\ IF Holders = {} \/ r.by \in Holders
       THEN Reply(r)
       ELSE goTo(r, "read") /\ UNCHANGED <<ms, given>>
    /\ UNCHANGED <<copies, todo, deployVars, historyVars>>

\* CheckMultisigCurrency, then getMultisig.  The entry to join keeps the status
\* it had unless the sender completes it; the others will get given.
JoinRead(r) ==
    /\ r.op = "join" /\ at[r] = "read"
    /\ \/ /\ \/ Holders = {}
             \/ \E m \in Found : Len(m.owners) >= OwnersCount
          /\ Reply(r)
       \/ \E m \in Found :
            LET last == Len(m.owners) + 1 = OwnersCount IN
            /\ Len(m.owners) < OwnersCount
            /\ ms' = [ms EXCEPT ![r] =
                        [m EXCEPT !.owners = Append(@, r.by),
                                  !.status = IF last THEN "AllJoined" ELSE @]]
            /\ given' = [given EXCEPT ![r] = IF last THEN "AllJoined" ELSE "WaitingForJoin"]
            /\ goTo(r, "users")
    /\ UNCHANGED <<copies, todo, deployVars, historyVars>>

JoinPush(r) ==
    /\ r.op = "join" /\ at[r] = "push"
    /\ copies' = [copies EXCEPT ![r.by] = Append(@, ms[r])]
    /\ goTo(r, "update")
    /\ UNCHANGED <<ms, given, todo, deployVars, historyVars>>

\* An owner other than the creator may leave.
LeaveRead(r) ==
    /\ r.op = "leave" /\ at[r] = "check"
    /\ \/ /\ \/ Holders = {}
             \/ \E m \in Found : r.by \notin ToSet(m.owners) \/ r.by = m.creator
          /\ Reply(r)
       \/ \E m \in Found :
            /\ r.by \in ToSet(m.owners) /\ r.by # m.creator
            /\ ms' = [ms EXCEPT ![r] = [m EXCEPT !.owners = Without(@, r.by)]]
            /\ goTo(r, "drop")
            /\ UNCHANGED given
    /\ UNCHANGED <<copies, todo, deployVars, historyVars>>

\* The creator may kick any address and delete the wallet.
AdminRead(r) ==
    /\ r.op \in {"kick", "delete"} /\ at[r] = "check"
    /\ \/ /\ \/ Holders = {}
             \/ \E m \in Found : r.by \notin ToSet(m.owners) \/ r.by # m.creator
          /\ Reply(r)
          /\ UNCHANGED vain
       \/ \E m \in Found :
            /\ r.by \in ToSet(m.owners) /\ r.by = m.creator
            /\ ms' = [ms EXCEPT ![r] = [m EXCEPT !.owners = Without(@, r.target)]]
            /\ vain' = (vain \/ (r.op = "kick" /\ r.target \notin ToSet(m.owners)))
            /\ goTo(r, "users")
            /\ UNCHANGED given
    /\ UNCHANGED <<copies, todo, deployVars, mixed, raced>>

\* FindMultisigUsers; for a delete, the same query in DeleteMultisig.
FindUsers(r) ==
    /\ at[r] = "users"
    /\ todo' = [todo EXCEPT ![r] = Holders]
    /\ goTo(r, CASE r.op = "join"   -> "push"
                 [] r.op = "kick"   -> "drop"
                 [] r.op = "leave"  -> "update"
                 [] r.op = "delete" -> "erase")
    /\ UNCHANGED <<copies, ms, given, deployVars, historyVars>>

\* LeaveMultisig and KickMultisig write the user's list without the code.
DropOwn(r) ==
    /\ r.op = "leave" /\ at[r] = "drop"
    /\ copies' = [copies EXCEPT ![r.by] = <<>>]
    /\ goTo(r, "users")
    /\ UNCHANGED <<ms, given, todo, deployVars, historyVars>>

DropKicked(r) ==
    /\ r.op = "kick" /\ at[r] = "drop"
    /\ copies' = [copies EXCEPT ![r.target] = <<>>]
    /\ goTo(r, "update")
    /\ UNCHANGED <<ms, given, todo, deployVars, historyVars>>

\* updateUserOwners for one of the users: the first entry with the code is
\* rewritten; a user who has none any more is an error that is only logged.
UpdateOwners(r) ==
    /\ at[r] = "update"
    /\ \E u \in todo[r] :
         /\ todo' = [todo EXCEPT ![r] = @ \ {u}]
         /\ copies' = IF copies[u] = <<>> THEN copies
                      ELSE [copies EXCEPT ![u][1] =
                              [@ EXCEPT !.owners = Once(ms[r].owners), !.status = given[r]]]
    /\ UNCHANGED <<at, ms, given, deployVars, historyVars>>

\* DeleteMultisig, one user after another.
EraseCopy(r) ==
    /\ at[r] = "erase"
    /\ \E u \in todo[r] :
         /\ todo' = [todo EXCEPT ![r] = @ \ {u}]
         /\ copies' = [copies EXCEPT ![u] = <<>>]
    /\ UNCHANGED <<at, ms, given, deployVars, historyVars>>

Updated(r) ==
    /\ at[r] \in {"update", "erase"} /\ todo[r] = {}
    /\ Reply(r)
    /\ UNCHANGED <<copies, todo, deployVars, historyVars>>

-----------------------------------------------------------------------------
(* The contract.  Sending it and the node's reports are outside this         *)
(* repository: a member's app sends it for the owners its copy lists, and a  *)
(* report has the contract's address when the contract is on the chain.      *)

SendContract ==
    /\ members = {}
    /\ \E m \in Found : m.status = "AllJoined" /\ members' = ToSet(m.owners)
    /\ UNCHANGED <<copies, requestVars, deploy, event, left, matched, events, historyVars>>

AddMultisig ==
    /\ deploy = "idle" /\ members # {} /\ events < MaxEvents
    /\ events' = events + 1
    /\ \E s \in {"DeployPending", "Rejected", "Deployed"} :
         event' = [status |-> s, contract |-> s = "Deployed"]
    /\ deploy' = "match" /\ left' = members
    /\ raced' = (raced \/ Open # {})
    /\ UNCHANGED <<copies, requestVars, members, matched, mixed, vain>>

\* msToUserData reads the owners' documents; fetchInviteUndeployed takes the
\* code of an entry with OwnersCount of its owners in the contract.
MatchCode ==
    /\ deploy = "match"
    /\ \E u \in left :
         /\ left' = left \ {u}
         /\ matched' = (matched \/ \E m \in ToSet(copies[u]) :
                          Len(Among(m.owners, members)) >= OwnersCount)
    /\ deploy' = IF left' = {} THEN "find" ELSE "match"
    /\ UNCHANGED <<copies, requestVars, members, event, events, historyVars>>

\* One of the code's users tells whether its contract is known already.
FindContract ==
    /\ deploy = "find"
    /\ \/ /\ matched
          /\ \/ Holders = {}
             \/ \E u \in Holders : ~Last(copies[u]).contract
          /\ deploy' = "set" /\ left' = members
          /\ UNCHANGED event
       \/ /\ \/ ~matched
             \/ \E u \in Holders : Last(copies[u]).contract
          /\ deploy' = "idle" /\ event' = NoReport
          /\ UNCHANGED left
    /\ matched' = FALSE
    /\ UNCHANGED <<copies, requestVars, members, events, historyVars>>

SetContract ==
    /\ deploy = "set"
    /\ \E u \in left :
         /\ left' = left \ {u}
         /\ copies' = IF copies[u] = <<>> THEN copies
                      ELSE [copies EXCEPT ![u][1] =
                              [@ EXCEPT !.contract = event.contract, !.status = event.status]]
    /\ IF left' = {}
       THEN deploy' = "idle" /\ event' = NoReport
       ELSE UNCHANGED <<deploy, event>>
    /\ UNCHANGED <<requestVars, members, matched, events, historyVars>>

-----------------------------------------------------------------------------
RequestStep(r) ==
    \/ Start(r) \/ CreateCheck(r) \/ CreatePush(r)
    \/ JoinCheck(r) \/ JoinRead(r) \/ JoinPush(r)
    \/ LeaveRead(r) \/ AdminRead(r) \/ FindUsers(r) \/ DropOwn(r) \/ DropKicked(r)
    \/ UpdateOwners(r) \/ EraseCopy(r) \/ Updated(r)

DeployStep == SendContract \/ AddMultisig \/ MatchCode \/ FindContract \/ SetContract

Next == DeployStep \/ \E r \in Requests : RequestStep(r)

Spec == Init /\ [][Next]_vars

-----------------------------------------------------------------------------
\* The list a handler is about to write.
ListRight(r) ==
    /\ (r.op = "join" /\ at[r] \in {"users", "push", "update"}) => Last(ms[r].owners) = r.by
    /\ (r.op = "leave" /\ at[r] \in {"drop", "users", "update"}) => r.by \notin ToSet(ms[r].owners)
    /\ (r.op = "kick" /\ at[r] \in {"users", "drop", "update"}) => r.target \notin ToSet(ms[r].owners)

\* Every variable holds a value of its kind, and the list a handler is about to
\* write has the sender joined or the target removed.
TypeOK ==
    /\ copies \in [Users -> Seq(Copy)]
    /\ at \in [Requests -> {"idle", "check", "read", "users", "push", "drop",
                            "update", "erase", "done"}]
    /\ ms \in [Requests -> Copy]
    /\ given \in [Requests -> Status]
    /\ todo \in [Requests -> SUBSET Users]
    /\ members \in SUBSET Users
    /\ deploy \in {"idle", "match", "find", "set"}
    /\ event \in Report
    /\ left \in SUBSET Users
    /\ matched \in BOOLEAN
    /\ events \in 0..MaxEvents
    /\ mixed \in BOOLEAN /\ raced \in BOOLEAN /\ vain \in BOOLEAN
    /\ \A r \in Requests : ListRight(r)

\* No copy lists more owners than the wallet is for, however joins interleave
\* (the OwnersCount > joined guard, over a list read earlier).
CopiesWithinCount ==
    \A u \in Users : \A m \in ToSet(copies[u]) : Len(m.owners) <= OwnersCount

AtRest == Open = {} /\ deploy = "idle"

\* Requests that were served one at a time leave the members' copies in
\* agreement: the owners listed are exactly the users who hold a copy, each
\* once, in a wallet with one creator.
RestOwnersAgree ==
    (Open = {} /\ ~mixed) =>
        \A u \in Holders :
            /\ Len(copies[u]) = 1
            /\ LET m == Head(copies[u]) IN
               /\ ToSet(m.owners) = Holders /\ Len(m.owners) = Cardinality(Holders)
               /\ \A n \in Found : n.creator = m.creator

\* They leave one status and one contract as well, if no report came while a
\* request was served.  Without a contract the status says whether the wallet
\* is full, unless somebody was kicked who was not there.
RestStatusAgrees ==
    (AtRest /\ ~mixed /\ ~raced) =>
        /\ \A m, n \in Found : m.status = n.status /\ m.contract = n.contract
        /\ (members = {} /\ ~vain) =>
             \A m \in Found : m.status = "AllJoined" <=> Len(m.owners) = OwnersCount

\* A copy that has the contract's address keeps it as long as it is held: no
\* later report takes it away.  doubleInvited asks one of the code's users, who
\* stands for all while requests are served one at a time and no report comes
\* meanwhile: an owner who leaves and joins again while a report is handled may
\* hold a copy without the address.
ContractKept ==
    [][\A u \in Users :
         (~mixed /\ ~raced /\ copies[u] # <<>> /\ copies'[u] # <<>> /\ Head(copies[u]).contract)
            => Head(copies'[u]).contract]_vars

\* "we not support multiple join from same userid" (the answer of the join
\* handler): nobody has the same wallet twice.
JoinedOnce == \A u \in Users : Len(copies[u]) <= 1
=============================================================================

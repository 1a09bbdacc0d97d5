----------------------------- MODULE MultisigTx -----------------------------
(***************************************************************************)
(* One transaction of a deployed multisig wallet: processMultisig and      *)
(* ParseMultisigInput of eth/utils.go, called for every report of the      *)
(* NewTx stream, and the handlers by which owners view and decline it      *)
(* (client/socket-io.go, store/store.go).                                  *)
(*                                                                         *)
(* An owner submits the transaction, which confirms it for him; the others *)
(* send confirmations of their own, each an ethereum transaction with its  *)
(* own hash.  The node reports every one from the mempool, from its block  *)
(* and when the block is deep enough.  The stream has one goroutine; what  *)
(* interleaves with its database calls are the owners' handlers.           *)
(*                                                                         *)
(* Amounts, gas and the documents of the confirmations themselves are left *)
(* out, and the second insertion made for a destination that is a multisig *)
(* wallet.                                                                 *)
(***************************************************************************)
EXTENDS Naturals, Sequences, SequencesExt, FiniteSets

CONSTANTS Owners,
          Submitter,   \* the owner who submits
          OurWallet,   \* the destination is an address of one of our users
          MaxQueue,    \* bound on the reports that wait in the stream
          MaxRevokes   \* bound on the revocations owners send

ASSUME MultisigTxAssumption ==
    /\ IsFiniteSet(Owners) /\ Submitter \in Owners
    /\ OurWallet \in BOOLEAN /\ MaxQueue \in Nat /\ MaxRevokes \in Nat

VARIABLES
    needed,    \* contract.Confirmations
    pooled,    \* owners whose call is in the mempool and not in a block
    mined,     \* calls in blocks, in order
    deep,      \* how many of them are deep enough
    standing,  \* confirmations that stand in the contract
    executed,  \* the contract has executed the transaction
    queue,     \* reports in the stream, oldest first
    at,        \* control point of the stream's goroutine
    list,      \* its local ownerHistorys
    doc,       \* the document of the submission
    internal,  \* documents of the internal transaction
    viewing,   \* owners whose view has passed the check
    revokes,   \* revocations so far
    behind,    \* history: owners whose mark changed since the list was read
    excused    \* history: owners who declined or revoked, whose mark another list
               \* replaced, or who were marked with a view under way

vars == <<needed, pooled, mined, deep, standing, executed, queue, at, list, doc,
          internal, viewing, revokes, behind, excused>>

chainVars == <<needed, pooled, mined, deep, standing, executed>>

\* A call of the contract: the owner's submission or confirmation, or a
\* revocation.
Call   == [by : Owners, revoke : BOOLEAN, done : BOOLEAN]
Report == [call : Call, stage : {"mempool", "block", "confirmed"}]

\* An entry of multisig.owners: its status, and whether confirmationTime is set.
Mark == [status : {"waiting", "seen", "confirmed", "declined"}, timed : BOOLEAN]

call(o) == [by |-> o, revoke |-> FALSE, done |-> TRUE]
Waiting == [status |-> "waiting", timed |-> FALSE]
Confirmed == [status |-> "confirmed", timed |-> TRUE]

\* A document has its requestid once a block's report of the submission is
\* saved.
NoDoc == [found |-> FALSE, requestid |-> FALSE, confirmed |-> FALSE,
          owners |-> [o \in Owners |-> Waiting]]

Current == Head(queue)
IsSubmit == ~Current.call.revoke /\ Current.call.by = Submitter
InBlock == Current.stage # "mempool"  \* BlockTime # 0
Count(marks) == Cardinality({o \in Owners : marks[o].status = "confirmed"})

Finish == queue' = Tail(queue) /\ at' = "next"

Init ==
    /\ needed \in 1..Cardinality(Owners)
    /\ pooled = {} /\ mined = <<>> /\ deep = 0
    /\ standing = {} /\ executed = FALSE
    /\ queue = <<>> /\ at = "next"
    /\ list = NoDoc.owners
    /\ doc = NoDoc
    /\ internal = 0
    /\ viewing = {}
    /\ revokes = 0
    /\ behind = {} /\ excused = {}

-----------------------------------------------------------------------------
(* Faulty variants of the actions below.  Each is a bug this code could      *)
(* have had; a run with the variant in place must break a property.          *)

\* A confirmation is counted for the request before it is in a block.
ExecuteEarly ==
    /\ at = "execute"
    /\ IF Count(list) >= needed
       THEN /\ doc' = [doc EXCEPT !.owners = list, !.confirmed = TRUE]
            /\ at' = "internal" /\ UNCHANGED queue
       ELSE Finish /\ UNCHANGED doc
    /\ UNCHANGED <<chainVars, list, internal, viewing, revokes, behind, excused>>

\* The view does not look at confirmationTime.
ViewAlways(o) ==
    /\ doc.found /\ o \notin viewing
    /\ viewing' = viewing \cup {o}
    /\ UNCHANGED <<chainVars, queue, at, list, doc, internal, revokes, behind, excused>>

\* Every owner is marked, not the sender alone.
MarkAll ==
    /\ at = "write"
    /\ doc' = [doc EXCEPT !.owners = [o \in Owners |-> Confirmed]]
    /\ at' = "execute"
    /\ UNCHANGED <<chainVars, queue, list, internal, viewing, revokes, behind, excused>>

\* The sender is not marked.
ForgetMark ==
    /\ at = "next" /\ queue # <<>> /\ ~IsSubmit /\ ~Current.call.revoke
    /\ IF doc.requestid
       THEN /\ list' = doc.owners
            /\ at' = "write" /\ behind' = {} /\ UNCHANGED queue
       ELSE Finish /\ UNCHANGED <<list, behind>>
    /\ UNCHANGED <<chainVars, doc, internal, viewing, revokes, excused>>

\* Only the report from the block confirms the request.
ExecuteOnce ==
    /\ at = "execute"
    /\ IF Count(list) >= needed /\ Current.stage = "block"
       THEN /\ doc' = [doc EXCEPT !.owners = list, !.confirmed = TRUE]
            /\ excused' = excused \cup behind
            /\ at' = "internal" /\ UNCHANGED queue
       ELSE Finish /\ UNCHANGED <<doc, excused>>
    /\ UNCHANGED <<chainVars, list, internal, viewing, revokes, behind>>

-----------------------------------------------------------------------------
(* The contract and the node, outside this repository.                       *)

Send(c, s) ==
    /\ Len(queue) < MaxQueue
    /\ queue' = Append(queue, [call |-> c, stage |-> s])

\* An owner sends his call; a confirmation needs the request in a block.
EnterPool(o) ==
    /\ o \notin pooled /\ \A i \in DOMAIN mined : mined[i].by # o
    /\ o # Submitter => mined # <<>>
    /\ pooled' = pooled \cup {o}
    /\ Send(call(o), "mempool")
    /\ UNCHANGED <<needed, mined, deep, standing, executed, at, list, doc, internal, viewing,
                   revokes, behind, excused>>

\* It is mined; a confirmation of what was executed is not done.
Mine(o) ==
    /\ o \in pooled /\ pooled' = pooled \ {o}
    /\ LET c == [call(o) EXCEPT !.done = ~executed] IN
       /\ mined' = Append(mined, c)
       /\ Send(c, "block")
    /\ standing' = IF executed THEN standing ELSE standing \cup {o}
    /\ executed' = (executed \/ Cardinality(standing') >= needed)
    /\ UNCHANGED <<needed, deep, at, list, doc, internal, viewing, revokes, behind, excused>>

MineRevoke(o) ==
    /\ o \in standing /\ ~executed
    /\ revokes < MaxRevokes /\ revokes' = revokes + 1
    /\ LET c == [call(o) EXCEPT !.revoke = TRUE] IN
       /\ mined' = Append(mined, c)
       /\ Send(c, "block")
    /\ standing' = standing \ {o}
    /\ excused' = excused \cup {o}
    /\ UNCHANGED <<needed, pooled, deep, executed, at, list, doc, internal, viewing, behind>>

Deepen ==
    /\ deep < Len(mined)
    /\ deep' = deep + 1
    /\ Send(mined[deep'], "confirmed")
    /\ UNCHANGED <<needed, pooled, mined, standing, executed, at, list, doc, internal, viewing,
                   revokes, behind, excused>>

-----------------------------------------------------------------------------
(* The goroutine of the NewTx stream.                                        *)

\* submitTransaction.  The first report inserts the document with the sender
\* confirmed.  A later one leaves owners alone and writes confirmed, which holds
\* only if the submission was enough.
Submit ==
    /\ at = "next" /\ queue # <<>> /\ IsSubmit
    /\ LET enough == InBlock /\ needed = 1 IN
       /\ doc' = [found |-> TRUE, requestid |-> InBlock, confirmed |-> enough,
                  owners |-> IF doc.found THEN doc.owners
                             ELSE [NoDoc.owners EXCEPT ![Submitter] = Confirmed]]
       /\ internal' = IF enough /\ OurWallet THEN internal + 1 ELSE internal
    /\ Finish
    /\ UNCHANGED <<chainVars, list, viewing, revokes, behind, excused>>

\* confirmTransaction reads the request by its id, and marks the sender.
FindRequest ==
    /\ at = "next" /\ queue # <<>> /\ ~IsSubmit /\ ~Current.call.revoke
    /\ IF doc.requestid
       THEN /\ list' = [doc.owners EXCEPT ![Current.call.by] = Confirmed]
            /\ at' = "write" /\ behind' = {} /\ UNCHANGED queue
       ELSE Finish /\ UNCHANGED <<list, behind>>
    /\ UNCHANGED <<chainVars, doc, internal, viewing, revokes, excused>>

\* It writes the whole list back.
WriteOwners ==
    /\ at = "write"
    /\ doc' = [doc EXCEPT !.owners = list]
    /\ excused' = excused \cup behind \cup (viewing \cap {Current.call.by})
    /\ at' = "execute"
    /\ UNCHANGED <<chainVars, queue, list, internal, viewing, revokes, behind>>

\* With enough owners confirmed and the call in a block it writes the list
\* again, with confirmed.  Whether the call was done is not asked.
Execute ==
    /\ at = "execute"
    /\ IF Count(list) >= needed /\ InBlock
       THEN /\ doc' = [doc EXCEPT !.owners = list, !.confirmed = TRUE]
            /\ excused' = excused \cup behind
            /\ at' = "internal" /\ UNCHANGED queue
       ELSE Finish /\ UNCHANGED <<doc, excused>>
    /\ UNCHANGED <<chainVars, list, internal, viewing, revokes, behind>>

\* The internal transaction is looked for by the hash of the submission, which
\* only one inserted with the submission has.
InsertInternal ==
    /\ at = "internal"
    /\ internal' = IF OurWallet /\ ~(needed = 1 /\ internal > 0) THEN internal + 1 ELSE internal
    /\ Finish
    /\ UNCHANGED <<chainVars, list, doc, viewing, revokes, behind, excused>>

\* revokeConfirmation.  parseRevokeInput reads the input, "0x" included, as a
\* hexadecimal number and fails: nothing is written.
Revoke ==
    /\ at = "next" /\ queue # <<>> /\ Current.call.revoke
    /\ Finish
    /\ UNCHANGED <<chainVars, list, doc, internal, viewing, revokes, behind, excused>>

-----------------------------------------------------------------------------
(* The owners' handlers.                                                     *)

\* ViewTransaction: only the confirmationTime makes a transaction seen.
CheckView(o) ==
    /\ doc.found /\ ~doc.owners[o].timed /\ o \notin viewing
    /\ viewing' = viewing \cup {o}
    /\ UNCHANGED <<chainVars, queue, at, list, doc, internal, revokes, behind, excused>>

WriteView(o) ==
    /\ o \in viewing /\ viewing' = viewing \ {o}
    /\ doc' = [doc EXCEPT !.owners[o].status = "seen"]
    /\ behind' = behind \cup {o}
    /\ UNCHANGED <<chainVars, queue, at, list, internal, revokes, excused>>

Decline(o) ==
    /\ doc.found /\ doc.owners[o].status # "declined"
    /\ doc' = [doc EXCEPT !.owners[o].status = "declined"]
    /\ excused' = excused \cup {o}
    /\ behind' = behind \cup {o}
    /\ UNCHANGED <<chainVars, queue, at, list, internal, viewing, revokes>>

-----------------------------------------------------------------------------
ChainStep == Deepen \/ \E o \in Owners : EnterPool(o) \/ Mine(o) \/ MineRevoke(o)
StreamStep == Submit \/ FindRequest \/ WriteOwners \/ Execute \/ InsertInternal \/ Revoke
OwnerStep(o) == CheckView(o) \/ WriteView(o) \/ Decline(o)

Next == ChainStep \/ StreamStep \/ \E o \in Owners : OwnerStep(o)

Spec == Init /\ [][Next]_vars

-----------------------------------------------------------------------------
AtRest == queue = <<>> /\ at = "next"
Callers == pooled \cup {mined[i].by : i \in DOMAIN mined}

\* Every variable holds a value of its kind; the goroutine between two calls
\* has a confirmation of a known request, with its sender marked in the list.
TypeOK ==
    /\ needed \in 1..Cardinality(Owners)
    /\ pooled \in SUBSET Owners /\ standing \in SUBSET Owners
    /\ mined \in Seq(Call) /\ deep \in 0..Len(mined)
    /\ executed \in BOOLEAN
    /\ queue \in Seq(Report)
    /\ at \in {"next", "write", "execute", "internal"}
    /\ list \in [Owners -> Mark]
    /\ doc \in [found : BOOLEAN, requestid : BOOLEAN, confirmed : BOOLEAN,
                owners : [Owners -> Mark]]
    /\ internal \in Nat /\ viewing \in SUBSET Owners /\ revokes \in 0..MaxRevokes
    /\ behind \in SUBSET Owners /\ excused \in SUBSET Owners
    /\ at # "next" => /\ queue # <<>> /\ ~IsSubmit /\ doc.requestid
                      /\ list[Current.call.by] = Confirmed

\* An owner's mark changes by his own call, view or decline, or because a list
\* read before he changed it is written back.
MarkByOwner ==
    [][\A o \in Owners :
         (doc.found /\ doc'.owners[o] # doc.owners[o]) =>
            \/ doc'.owners[o] = [doc.owners[o] EXCEPT !.status = "declined"]
            \/ o \in viewing /\ doc'.owners[o] = [doc.owners[o] EXCEPT !.status = "seen"]
            \/ at \in {"write", "execute"} /\ o \in behind \cup {Current.call.by}]_vars

\* When all reports are handled, every owner who has sent his call is shown as
\* confirmed: a view does not take it back ("transaction already seen"), nor
\* does another's confirmation, unless they raced.
RestMark ==
    AtRest => \A o \in Callers \ excused : doc.owners[o] = Confirmed

\* The transaction is confirmed by a call in a block, after as many owners as
\* needed have sent theirs, and the internal transaction is not told before.
ConfirmedWarranted ==
    (doc.confirmed \/ internal > 0) =>
        /\ Cardinality(Callers) >= needed
        /\ needed > 1 => \E i \in DOMAIN mined : mined[i].by # Submitter

\* When all reports are handled, down to those from deep blocks, an executed
\* transaction is confirmed and its internal transaction told: the last report
\* of a confirmation makes up for what the submission's has reset.
RestConfirmed ==
    (AtRest /\ deep = Len(mined) /\ executed /\ Cardinality(standing \ excused) >= needed)
        => doc.confirmed /\ (OurWallet => internal > 0)
=============================================================================

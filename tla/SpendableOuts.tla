---------------------------- MODULE SpendableOuts ----------------------------
(***************************************************************************)
(* The unspent outputs of a BTC address: the collections spendable and     *)
(* spent that btc/handlers.go keeps from three streams of the node.  The   *)
(* add stream and the resync stream insert outputs, the delete stream and  *)
(* the resync stream remove them; each stream is read by a goroutine of    *)
(* its own, so their database calls interleave.  A resync asked by the     *)
(* user (resyncWallet, DeleteHistory) drops both collections and has the   *)
(* node report the address anew.                                           *)
(*                                                                         *)
(* An output stands for the key (userid, txid, address) every query uses.  *)
(* The status and the exchange rate stored with it are left out: no query  *)
(* here reads them.                                                        *)
(***************************************************************************)
EXTENDS Naturals, Sequences, FiniteSets

CONSTANTS Outs,        \* outputs paying the address
          MaxResyncs,  \* bound on the resyncs a user asks for
          MaxFaults    \* bound on the database and node calls that fail

ASSUME SpendableOutsAssumption ==
    IsFiniteSet(Outs) /\ MaxResyncs \in Nat /\ MaxFaults \in Nat

VARIABLES
    node,       \* what the node knows of each output
    confirmed,  \* outputs the node has announced a second time, from a block
    queue,      \* messages in each stream, oldest first
    at,         \* control point of each stream's goroutine
    tries,      \* its local i, the removals attempted
    docs,       \* documents of each output in the spendable collection
    spent,      \* keys in the spent collection
    history,    \* control point of resyncWallet
    asked,      \* EventResyncAddress calls the node has not answered
    resyncing,  \* the address is in the Resync map
    resyncs,    \* resyncs so far
    faults,     \* failed calls so far
    overtaken,  \* history: goroutines past the spent check of an output that
                \* was recorded spent since
    excused     \* history: outputs a known race or a failed call has touched

vars == <<node, confirmed, queue, at, tries, docs, spent, history, asked,
          resyncing, resyncs, faults, overtaken, excused>>

Streams == {"add", "delete", "resync"}
Job     == [op : {"add", "delete", "end"}, out : Outs]
Point   == {"next", "lookup", "find", "insert", "remove", "dead"}

add(o) == [op |-> "add", out |-> o]
del(o) == [op |-> "delete", out |-> o]

Current(t) == Head(queue[t]).out
Serves(t, op) == queue[t] # <<>> /\ Head(queue[t]).op = op

\* t is between the spent check and the insertion of o.
Adding(t, o) ==
    at[t] \in {"lookup", "find", "insert"} /\ Current(t) = o

\* t is done with its message.
Finish(t) ==
    /\ queue' = [queue EXCEPT ![t] = Tail(@)]
    /\ at'    = [at EXCEPT ![t] = "next"]
    /\ tries' = [tries EXCEPT ![t] = 0]
    /\ overtaken' = overtaken \ {t}

\* A call of a job for o fails.
FailFor(o) ==
    /\ faults < MaxFaults /\ faults' = faults + 1
    /\ excused' = excused \cup {o}

storeVars == <<docs, spent>>
nodeVars  == <<node, confirmed>>
userVars  == <<history, asked, resyncing, resyncs>>

Init ==
    /\ node      = [o \in Outs |-> "none"]
    /\ confirmed = {}
    /\ queue     = [t \in Streams |-> <<>>]
    /\ at        = [t \in Streams |-> "next"]
    /\ tries     = [t \in Streams |-> 0]
    /\ docs      = [o \in Outs |-> 0]
    /\ spent     = {}
    /\ history   = "idle"
    /\ asked     = 0
    /\ resyncing = FALSE
    /\ resyncs   = 0
    /\ faults    = 0
    /\ overtaken = {}
    /\ excused   = {}

-----------------------------------------------------------------------------
(* Faulty variants of the actions below.  Each is a bug this code could      *)
(* have had; a run with the variant in place must break a property.          *)

\* The spent collection is not consulted.
SkipSpentCheck(t) ==
    /\ at[t] = "next" /\ Serves(t, "add")
    /\ at' = [at EXCEPT ![t] = "lookup"]
    /\ UNCHANGED <<nodeVars, queue, tries, storeVars, userVars, faults, overtaken, excused>>

\* The output is inserted whether it is there or not.
AlwaysInsert(t) ==
    /\ at[t] = "find"
    /\ at' = [at EXCEPT ![t] = "insert"]
    /\ UNCHANGED <<nodeVars, queue, tries, storeVars, userVars, faults, overtaken, excused>>

\* The removal is not recorded.
RemoveUnrecorded(t) ==
    /\ at[t] = "next" /\ Serves(t, "delete")
    /\ at' = [at EXCEPT ![t] = "remove"]
    /\ UNCHANGED <<nodeVars, queue, tries, storeVars, userVars, faults, overtaken, excused>>

\* The loop counts its rounds from one.
FifthRound(t) ==
    /\ at[t] = "remove" /\ docs[Current(t)] = 0
    /\ IF tries[t] = 4
       THEN Finish(t)
       ELSE /\ tries' = [tries EXCEPT ![t] = @ + 1]
            /\ at' = [at EXCEPT ![t] = "next"]
            /\ UNCHANGED <<queue, overtaken>>
    /\ UNCHANGED <<nodeVars, storeVars, userVars, faults, excused>>

\* The Resync map keeps the address.
KeepFlag(t) ==
    /\ at[t] = "next" /\ Serves(t, "end")
    /\ Finish(t)
    /\ UNCHANGED <<nodeVars, storeVars, userVars, faults, excused>>

\* The history is dropped and the node not asked for it.
FlagOnly ==
    /\ history = "ask"
    /\ history' = "idle"
    /\ resyncing' = TRUE
    /\ UNCHANGED <<nodeVars, queue, at, tries, storeVars, asked, resyncs, faults,
                   overtaken, excused>>

-----------------------------------------------------------------------------
(* The node, a service outside this repository: it announces an output when *)
(* its transaction enters the mempool and again when a block has it, and a  *)
(* removal when the output is spent.                                        *)

Send(t, j) == queue' = [queue EXCEPT ![t] = Append(@, j)]

NodeAdds(o) ==
    /\ node[o] = "none"
    /\ node' = [node EXCEPT ![o] = "unspent"]
    /\ Send("add", add(o))
    /\ UNCHANGED <<confirmed, at, tries, storeVars, userVars, faults, overtaken, excused>>

NodeConfirms(o) ==
    /\ node[o] # "none" /\ o \notin confirmed
    /\ confirmed' = confirmed \cup {o}
    /\ Send("add", add(o))
    /\ UNCHANGED <<node, at, tries, storeVars, userVars, faults, overtaken, excused>>

NodeSpends(o) ==
    /\ node[o] = "unspent"
    /\ node' = [node EXCEPT ![o] = "spent"]
    /\ Send("delete", del(o))
    /\ UNCHANGED <<confirmed, at, tries, storeVars, userVars, faults, overtaken, excused>>

\* The outputs of a set in some order, as jobs of one kind.
Orders(S) == {s \in [1..Cardinality(S) -> S] : S = {s[i] : i \in DOMAIN s}}
Jobs(op, s) == [i \in DOMAIN s |-> [op |-> op, out |-> s[i]]]

\* The answer to a resync: every output of the address, then those spent.  An
\* address without history is answered without transactions.
NodeAnswers ==
    /\ asked > 0
    /\ asked' = asked - 1
    /\ \E known \in Orders({o \in Outs : node[o] # "none"}),
          gone \in Orders({o \in Outs : node[o] = "spent"}) :
         queue' = [queue EXCEPT !["resync"] =
                     @ \o Jobs("add", known) \o Jobs("delete", gone)
                       \o (IF known = <<>> THEN <<>> ELSE Jobs("end", <<known[1]>>))]
    /\ UNCHANGED <<nodeVars, at, tries, storeVars, history, resyncing, resyncs,
                   faults, overtaken, excused>>

-----------------------------------------------------------------------------
(* Adding an output: the loops of the add stream and of resync.              *)

CheckSpent(t) ==
    /\ at[t] = "next" /\ Serves(t, "add")
    /\ \/ /\ Current(t) \in spent
          /\ Finish(t)
          /\ UNCHANGED <<faults, excused>>
       \/ /\ Current(t) \notin spent
          /\ at' = [at EXCEPT ![t] = "lookup"]
          /\ UNCHANGED <<queue, tries, overtaken, faults, excused>>
       \/ FailFor(Current(t)) /\ Finish(t)
    /\ UNCHANGED <<nodeVars, storeVars, userVars>>

\* The user is looked up only for an error: any other than "not found" ends
\* the goroutine for good.
LookupUser(t) ==
    /\ at[t] = "lookup"
    /\ \/ /\ at' = [at EXCEPT ![t] = "find"]
          /\ UNCHANGED <<faults, excused>>
       \/ /\ FailFor(Current(t))
          /\ at' = [at EXCEPT ![t] = "dead"]
    /\ UNCHANGED <<nodeVars, queue, tries, storeVars, userVars, overtaken>>

\* A document that is there only has its status updated.
FindOutput(t) ==
    /\ at[t] = "find"
    /\ \/ /\ docs[Current(t)] = 0
          /\ at' = [at EXCEPT ![t] = "insert"]
          /\ UNCHANGED <<queue, tries, overtaken, faults, excused>>
       \/ /\ docs[Current(t)] > 0
          /\ Finish(t)
          /\ UNCHANGED <<faults, excused>>
       \/ FailFor(Current(t)) /\ Finish(t)
    /\ UNCHANGED <<nodeVars, storeVars, userVars>>

InsertOutput(t) ==
    /\ at[t] = "insert"
    /\ LET o == Current(t) IN
       \/ /\ docs' = [docs EXCEPT ![o] = @ + 1]
          /\ excused' = IF t \in overtaken \/ docs[o] > 0 THEN excused \cup {o} ELSE excused
          /\ UNCHANGED faults
       \/ FailFor(o) /\ UNCHANGED docs
    /\ Finish(t)
    /\ UNCHANGED <<nodeVars, spent, userVars>>

-----------------------------------------------------------------------------
(* Removing an output: the loops of the delete stream and of resync.         *)

\* The Once of line 349 is new in every round, so every round inserts; one
\* document or several make no difference to the spent check.
InsertSpent(t) ==
    /\ at[t] = "next" /\ Serves(t, "delete")
    /\ at' = [at EXCEPT ![t] = "remove"]
    /\ LET o == Current(t) IN
       \/ /\ spent' = spent \cup {o}
          /\ overtaken' = overtaken \cup {r \in Streams : Adding(r, o)}
          /\ UNCHANGED <<faults, excused>>
       \/ FailFor(o) /\ UNCHANGED <<spent, overtaken>>
    /\ UNCHANGED <<nodeVars, queue, tries, docs, userVars>>

\* Remove takes one document.
RemoveOutput(t) ==
    /\ at[t] = "remove" /\ docs[Current(t)] > 0
    /\ docs' = [docs EXCEPT ![Current(t)] = @ - 1]
    /\ Finish(t)
    /\ UNCHANGED <<nodeVars, spent, userVars, faults, excused>>

\* Remove fails, because there is no document or for another reason: once more
\* from the insertion on after three seconds, four times in all.
RetryRemove(t) ==
    /\ at[t] = "remove"
    /\ \/ docs[Current(t)] = 0 /\ UNCHANGED <<faults, excused>>
       \/ FailFor(Current(t))
    /\ \/ /\ tries[t] < 3
          /\ tries' = [tries EXCEPT ![t] = @ + 1]
          /\ at' = [at EXCEPT ![t] = "next"]
          /\ UNCHANGED <<queue, overtaken>>
       \/ /\ tries[t] = 3
          /\ Finish(t)
    /\ UNCHANGED <<nodeVars, storeVars, userVars>>

\* The end of a resync message that had transactions: the address leaves the
\* Resync map and the user's devices are told.
EndResync(t) ==
    /\ at[t] = "next" /\ Serves(t, "end")
    /\ resyncing' = FALSE
    /\ Finish(t)
    /\ UNCHANGED <<nodeVars, storeVars, history, asked, resyncs, faults, excused>>

-----------------------------------------------------------------------------
(* resyncWallet for one address: DeleteHistory, one call after another, whose *)
(* errors nobody reads, then the request to the node.  Another resync may     *)
(* begin once this one has asked.                                             *)

AskResync ==
    /\ history = "idle" /\ resyncs < MaxResyncs
    /\ history' = "outputs"
    /\ resyncs' = resyncs + 1
    /\ UNCHANGED <<nodeVars, queue, at, tries, storeVars, asked, resyncing,
                   faults, overtaken, excused>>

DropOutputs ==
    /\ history = "outputs"
    /\ history' = "spent"
    /\ docs' = [o \in Outs |-> 0]
    /\ UNCHANGED <<nodeVars, queue, at, tries, spent, asked, resyncing, resyncs,
                   faults, overtaken, excused>>

DropSpent ==
    /\ history = "spent"
    /\ history' = "ask"
    /\ spent' = {}
    /\ UNCHANGED <<nodeVars, queue, at, tries, docs, asked, resyncing, resyncs,
                   faults, overtaken, excused>>

\* An error of EventResyncAddress is not looked at.
CallNode ==
    /\ history = "ask"
    /\ history' = "idle"
    /\ resyncing' = TRUE
    /\ \/ asked' = asked + 1 /\ UNCHANGED <<faults, excused>>
       \/ /\ faults < MaxFaults /\ faults' = faults + 1
          /\ excused' = Outs
          /\ UNCHANGED asked
    /\ UNCHANGED <<nodeVars, queue, at, tries, storeVars, resyncs, overtaken>>

-----------------------------------------------------------------------------
NodeStep == \E o \in Outs : NodeAdds(o) \/ NodeConfirms(o) \/ NodeSpends(o)

StreamStep(t) ==
    \/ CheckSpent(t) \/ LookupUser(t) \/ FindOutput(t) \/ InsertOutput(t)
    \/ InsertSpent(t) \/ RemoveOutput(t) \/ RetryRemove(t) \/ EndResync(t)

UserStep == AskResync \/ DropOutputs \/ DropSpent \/ CallNode

Next == NodeStep \/ NodeAnswers \/ UserStep \/ \E t \in Streams : StreamStep(t)

Spec == Init /\ [][Next]_vars

\* Goroutines run, and resyncWallet and the node finish what they began; what
\* the chain and the user do is up to them.
Fairness ==
    /\ \A t \in Streams : WF_vars(StreamStep(t))
    /\ WF_vars(DropOutputs \/ DropSpent \/ CallNode)
    /\ WF_vars(NodeAnswers)

FairSpec == Spec /\ Fairness

-----------------------------------------------------------------------------
\* Every variable holds a value of its kind, and a goroutine between two calls
\* has the message they are about.
TypeOK ==
    /\ node \in [Outs -> {"none", "unspent", "spent"}]
    /\ confirmed \in SUBSET Outs
    /\ queue \in [Streams -> Seq(Job)]
    /\ at \in [Streams -> Point]
    /\ tries \in [Streams -> 0..3]
    /\ docs \in [Outs -> Nat]
    /\ spent \in SUBSET Outs
    /\ history \in {"idle", "outputs", "spent", "ask"}
    /\ asked \in 0..MaxResyncs /\ resyncing \in BOOLEAN
    /\ resyncs \in 0..MaxResyncs /\ faults \in 0..MaxFaults
    /\ overtaken \in SUBSET Streams /\ excused \in SUBSET Outs
    /\ \A t \in Streams :
         /\ at[t] # "next" => queue[t] # <<>>
         /\ at[t] \in {"lookup", "find", "insert"} => Serves(t, "add")
         /\ at[t] = "remove" => Serves(t, "delete")

\* Two loops may insert the same output, each after finding none, but never
\* more than those two: an output has at most as many documents as there are
\* inserting goroutines, counting those about to insert.
CopiesBounded ==
    \A o \in Outs :
        docs[o] + Cardinality({t \in {"add", "resync"} : at[t] = "insert" /\ Current(t) = o}) <= 2

\* No message waits or is being handled, no resync is under way.
AtRest ==
    /\ \A t \in Streams : queue[t] = <<>>
    /\ history = "idle" /\ asked = 0

\* When everything has been handled, the outputs offered for spending are those
\* the node has unspent.  The exceptions are the ones listed: an insertion
\* decided before the output was recorded spent, an insertion that another had
\* overtaken, a failed call.
RestMatchesNode ==
    AtRest => \A o \in Outs \ excused : docs[o] > 0 <=> node[o] = "unspent"

\* An output recorded spent is offered again only by an insertion whose check
\* came before the record.
NoLateOffer ==
    [][\A o \in Outs : (o \in spent /\ docs'[o] > docs[o])
          => \E t \in overtaken : at[t] = "insert" /\ Current(t) = o]_vars

\* The address of an output leaves the Resync map in the end, so the wallet does
\* not show as syncing for ever, unless a call fails.
ResyncEnds ==
    (asked > 0 /\ \E o \in Outs : node[o] # "none") ~> (~resyncing \/ faults > 0)

\* An output that stays unspent is offered in the end, whatever resyncs come
\* between, unless a call fails.
UnspentOffered ==
    \A o \in Outs : (node[o] = "unspent") ~> (docs[o] > 0 \/ node[o] = "spent" \/ faults > 0)
=============================================================================

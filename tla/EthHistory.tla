----------------------------- MODULE EthHistory -----------------------------
(***************************************************************************)
(* The history of one ETH transaction in one network: saveTransaction of   *)
(* eth/utils.go, called by the goroutine of eth/handlers.go that reads the *)
(* NewTx stream, and the rejection check that the goroutine of the         *)
(* EventNewBlock stream makes for every block.                             *)
(*                                                                         *)
(* A document is known by user id, wallet index and hash; the hash is that *)
(* of the transaction, the other two are its key.  Every imported wallet   *)
(* is told to the node under the user id "imported" and with the index -1. *)
(* A status is a stage and a direction.  Amounts, gas, times, rates and    *)
(* the notices sent to the apps are left out.  DeleteHistory, which a      *)
(* resync calls first, does nothing for ETH.                               *)
(***************************************************************************)
EXTENDS Integers, Sequences

CONSTANTS Keys,          \* user id and wallet index
          MaxHead,       \* bound on the blocks
          MaxResyncs,    \* bound on the resyncs users ask for
          AccuracyRange  \* blocks that may still be replaced

ASSUME EthHistoryAssumption ==
    MaxHead \in Nat /\ MaxResyncs \in Nat /\ AccuracyRange \in Nat

Stages  == {"mempool", "block", "confirmed"}
Parties == {"from", "to"}

VARIABLES
    keyOf,    \* the key of each party whose wallet is a user's
    chain,    \* what has become of the transaction at the node
    height,   \* the block that has it, 0 when there is none
    head,     \* the last block
    version,  \* how often the node has had something to report
    pending,  \* reports on their way in the NewTx stream
    blocks,   \* heights on their way in the EventNewBlock stream
    resyncs,  \* resyncs so far
    save,     \* what the goroutine of the NewTx stream does
    check,    \* what the goroutine of the EventNewBlock stream does
    docs,     \* the document of each key
    told,     \* history: what the node has told for each key
    stale,    \* history: keys whose document was last set by a report that a
              \* later one had overtaken, or rejected on an answer that was no
              \* longer true
    dirty     \* history: the chain or a document has changed since the check
              \* of the last block began, or the node did not answer it

node == <<keyOf, chain, height, head, version, resyncs>>
vars == <<node, pending, blocks, save, check, docs, told, stale, dirty>>

Report == [party : Parties, stage : Stages, height : 0..MaxHead, version : Nat]

NoDoc == [dir |-> "none", stage |-> "none", height |-> 0]
Doc   == [dir : Parties, stage : Stages \cup {"rejected"}, height : 0..MaxHead]

Idle == [at |-> "idle"]

Init ==
    /\ \E P \in SUBSET Parties : keyOf \in [P -> Keys] /\ P # {}
    /\ chain = "none" /\ height = 0 /\ head = 0 /\ version = 0
    /\ pending = {} /\ blocks = <<>> /\ resyncs = 0
    /\ save = Idle /\ check = Idle
    /\ docs = [k \in Keys |-> NoDoc]
    /\ told = {} /\ stale = {} /\ dirty = TRUE

-----------------------------------------------------------------------------
(* The node, a service outside this repository.  It watches its mempool and  *)
(* its blocks apart, so reports may overtake one another.                    *)

Reports(s, h, v) ==
    {[party |-> p, stage |-> s, height |-> h, version |-> v] : p \in DOMAIN keyOf}

Announce(s, h) ==
    /\ chain' = s /\ height' = h
    /\ version' = version + 1
    /\ pending' = pending \cup Reports(s, h, version')
    /\ told' = told \cup {<<keyOf[p], s>> : p \in DOMAIN keyOf}
    /\ dirty' = TRUE

Broadcast ==
    /\ chain = "none"
    /\ Announce("mempool", 0)
    /\ UNCHANGED <<keyOf, head, resyncs, blocks, save, check, docs, stale>>

NextBlock ==
    /\ head < MaxHead
    /\ head' = head + 1 /\ blocks' = Append(blocks, head')
    /\ UNCHANGED <<keyOf, resyncs, save, check, docs, stale>>

\* A block without anything new of the transaction.
EmptyBlock ==
    /\ NextBlock
    /\ UNCHANGED <<chain, height, version, pending, told, dirty>>

\* A block has the transaction, or confirms it; one that was rejected may
\* still get into a block of the branch that wins.
Mine ==
    /\ NextBlock
    /\ \/ chain \in {"mempool", "rejected"} /\ Announce("block", head')
       \/ chain = "block" /\ Announce("confirmed", height)

\* Another transaction has taken its place, or its block was replaced; no
\* report says so, only the answer to CheckRejectTxs.
Reject ==
    /\ NextBlock
    /\ chain \in Stages
    /\ chain' = "rejected" /\ height' = 0
    /\ told' = told \cup {<<keyOf[p], "rejected">> : p \in DOMAIN keyOf}
    /\ dirty' = TRUE
    /\ UNCHANGED <<version, pending>>

\* A resync makes the node report a transaction once more as it is.
Resync ==
    /\ resyncs < MaxResyncs /\ chain \in Stages
    /\ resyncs' = resyncs + 1
    /\ pending' = pending \cup Reports(chain, height, version)
    /\ UNCHANGED <<keyOf, chain, height, head, version, blocks, save, check, docs, told, stale, dirty>>

-----------------------------------------------------------------------------
(* Faulty variants of the actions below.  Each is a bug this code could      *)
(* have had; a run with the variant in place must break a property.          *)

\* The updates insert a document where there is none.
RejectUpsert(dir) ==
    [k \in Keys |-> IF docs[k].dir \in {dir, "none"} THEN [docs[k] EXCEPT !.stage = "rejected"]
                    ELSE docs[k]]

\* Documents without a block are not asked about.
AskedInBlock(d, h) == d.height > 0 /\ d.height < h /\ d.height > h - AccuracyRange

\* Every hash that was asked about is rejected.
RejectAsked ==
    /\ check.at = "ask"
    /\ check' = IF check.asked THEN [at |-> "to"] ELSE Idle
    /\ UNCHANGED <<node, pending, blocks, save, docs, told, stale, dirty>>

-----------------------------------------------------------------------------
(* saveTransaction: the document is looked up, then inserted or updated.     *)

Key(m) == keyOf[m.party]

FindTx(m) ==
    /\ save = Idle /\ m \in pending
    /\ pending' = pending \ {m}
    /\ save' = [at |-> IF docs[Key(m)] = NoDoc THEN "insert" ELSE "update", m |-> m]
    /\ UNCHANGED <<node, blocks, check, docs, told, stale, dirty>>

Saved(m) ==
    /\ stale' = IF m.version < version THEN stale \cup {Key(m)} ELSE stale \ {Key(m)}
    /\ dirty' = TRUE
    /\ save' = Idle
    /\ UNCHANGED <<node, pending, blocks, check, told>>

InsertTx ==
    /\ save.at = "insert"
    /\ LET m == save.m IN
       /\ docs' = [docs EXCEPT ![Key(m)] = [dir |-> m.party, stage |-> m.stage, height |-> m.height]]
       /\ Saved(m)

\* Whatever the status was, a rejected one too; the status has the direction of
\* the report.
UpdateTx ==
    /\ save.at = "update"
    /\ LET m == save.m IN
       /\ docs' = [docs EXCEPT ![Key(m)] = [dir |-> m.party, stage |-> m.stage, height |-> m.height]]
       /\ Saved(m)

-----------------------------------------------------------------------------
(* EventNewBlock: the documents are queried, the node is asked about their   *)
(* hashes, and two updates follow, of incoming and of outgoing ones.         *)

Asked(d, h) ==
    \/ d.height = 0 /\ d.stage \in Stages
    \/ d # NoDoc /\ d.height < h /\ d.height > h - AccuracyRange

QueryTxs ==
    /\ check = Idle /\ blocks # <<>>
    /\ blocks' = Tail(blocks)
    /\ check' = [at |-> "ask", asked |-> \E k \in Keys : Asked(docs[k], Head(blocks))]
    /\ dirty' = FALSE
    /\ UNCHANGED <<node, pending, save, docs, told, stale>>

\* An error leaves nothing to reject.
CheckRejectTxs ==
    /\ check.at = "ask"
    /\ \/ /\ check.asked /\ chain = "rejected"
          /\ check' = [at |-> "to"]
          /\ UNCHANGED dirty
       \/ /\ ~(check.asked /\ chain = "rejected")
          /\ check' = Idle
          /\ UNCHANGED dirty
       \/ check' = Idle /\ dirty' = TRUE
    /\ UNCHANGED <<node, pending, blocks, save, docs, told, stale>>

\* Every document of the transaction with a status of this direction.
Rejected(dir) ==
    [k \in Keys |-> IF docs[k].dir = dir THEN [docs[k] EXCEPT !.stage = "rejected"] ELSE docs[k]]

RejectTxs(dir, next) ==
    /\ docs' = Rejected(dir)
    /\ stale' = IF chain = "rejected" THEN stale
                ELSE stale \cup {k \in Keys : docs[k].dir = dir}
    /\ check' = next
    /\ UNCHANGED <<node, pending, blocks, save, told, dirty>>

RejectIncoming == check.at = "to" /\ RejectTxs("to", [at |-> "from"])
RejectOutgoing == check.at = "from" /\ RejectTxs("from", Idle)

-----------------------------------------------------------------------------
Next ==
    \/ Broadcast \/ EmptyBlock \/ Mine \/ Reject \/ Resync
    \/ \E m \in pending : FindTx(m)
    \/ InsertTx \/ UpdateTx
    \/ QueryTxs \/ CheckRejectTxs \/ RejectIncoming \/ RejectOutgoing

Spec == Init /\ [][Next]_vars

-----------------------------------------------------------------------------
\* Every variable holds a value of its kind, and the goroutines have what the
\* step they are at needs.
TypeOK ==
    /\ \E P \in SUBSET Parties : keyOf \in [P -> Keys]
    /\ chain \in {"none", "rejected"} \cup Stages
    /\ height \in 0..MaxHead /\ head \in 0..MaxHead
    /\ version \in Nat /\ resyncs \in 0..MaxResyncs
    /\ pending \subseteq {m \in Report : m.party \in DOMAIN keyOf}
    /\ blocks \in Seq(1..MaxHead)
    /\ \/ save = Idle
       \/ save \in [at : {"insert", "update"}, m : {m \in Report : m.party \in DOMAIN keyOf}]
    /\ check \in {Idle} \cup [at : {"ask"}, asked : BOOLEAN] \cup [at : {"to", "from"}]
    /\ docs \in [Keys -> Doc \cup {NoDoc}]
    /\ told \subseteq Keys \X (Stages \cup {"rejected"})
    /\ stale \subseteq Keys /\ dirty \in BOOLEAN

AtRest == pending = {} /\ save = Idle /\ check = Idle /\ blocks = <<>> /\ ~dirty

SharedKey == \E p, q \in DOMAIN keyOf : p # q /\ keyOf[p] = keyOf[q]

\* A document the check of the last block has to find.
MayBeReplaced(d) == d.height = 0 \/ head - d.height \in 1..(AccuracyRange - 1)

\* When all reports are saved and a block has been checked since, the document
\* of a party shows what has become of the transaction: rejected, while its
\* block may be replaced, or the node's stage and block, unless its last report
\* was overtaken or an answer came too late.  A report of the mempool that
\* arrives after the rejection is put right by the next block.  A user's payment
\* is shown as outgoing, rejected or not, unless both wallets have one key.
RestShowsChain ==
    AtRest => \A p \in DOMAIN keyOf :
        LET d == docs[keyOf[p]] IN
        /\ chain = "rejected" /\ MayBeReplaced(d) => d.stage = "rejected"
        /\ chain \in Stages /\ keyOf[p] \notin stale => d.stage = chain /\ d.height = height
        /\ chain # "none" /\ ~SharedKey => d.dir = p

Board == INSTANCE StatusBoard
           WITH Stages <- Stages \cup {"rejected"}, shown <- [k \in Keys |-> docs[k].stage]

\* The documents show nothing the node has not told, and none is lost: the
\* handlers implement the abstract history.
ImplementsBoard == Board!Spec
=============================================================================

------------------------------ MODULE Restore ------------------------------
(***************************************************************************)
(* How the server and the node of one network find each other again after  *)
(* a restart: SetUserData and restoreState of multy-back.go, the height    *)
(* that the goroutine of EventNewBlock records, and NewAddressNode, by     *)
(* which client/rest.go tells the node of a new address.                   *)
(*                                                                         *)
(* The node keeps the addresses to watch in its memory.  It reports the    *)
(* blocks that concern them on the NewTx stream, as they come and when it  *)
(* is asked to go through old ones.  A pair <<a, h>> stands for what block *)
(* h has for address a.  Reports are saved in the order they are sent; how *)
(* is the matter of BtcHistory and EthHistory.                             *)
(***************************************************************************)
EXTENDS Integers, Sequences, FiniteSets

CONSTANTS Addrs,         \* addresses of the users' wallets
          Base,          \* the last block at the beginning
          MaxHead,       \* bound on the blocks
          MaxFaults,     \* bound on crashes and restarts of the node
          AccuracyRange  \* blocks to go through again, from the configuration

\* Heights are beyond the range; without a range the server restores nothing.
ASSUME RestoreAssumption ==
    /\ AccuracyRange \in Nat \ {0} /\ Base \in Nat /\ MaxHead \in Nat /\ MaxFaults \in Nat
    /\ AccuracyRange < Base /\ Base <= MaxHead

VARIABLES
    \* the node
    head, watched,
    \* the database
    stored,   \* the height in the restore state, 0 when there is none
    book,     \* addresses in the users' wallets
    \* the server
    phase,    \* how far Init has come
    open,     \* streams that are open
    broken,   \* the node has gone since they were opened
    blocks,   \* heights in the EventNewBlock stream
    flight,   \* sets of pairs in the NewTx stream
    known,    \* addresses that FindUserDataChain found
    restore,  \* what the goroutine of restoreState does
    asking,   \* goroutines of NewAddressNode that wait for the channel
    pushing,  \* requests about to push the address
    watch,    \* what the goroutine of the channel does
    \* history
    reported, \* pairs the server has been told of
    faults,
    mark,     \* the height recorded when the server started
    apart,    \* addresses whose older blocks were never asked for, or in vain
    excuse    \* one of the circumstances that RestNoGap names has occurred

database == <<stored, book>>
server == <<phase, open, broken, blocks, flight, known, restore, asking, pushing, watch>>
history == <<reported, faults, mark, apart, excuse>>
vars == <<head, watched, database, server, history>>

Streams == {"tx", "block"}
Idle == [at |-> "idle"]
Pairs(A, from) == A \X (from..head)

Init ==
    /\ head = Base /\ book \in {{}} \cup {{a} : a \in Addrs}
    /\ watched = book
    /\ stored = IF book = {} THEN 0 ELSE Base
    /\ phase = "down" /\ open = {} /\ broken = FALSE
    /\ blocks = <<>> /\ flight = <<>> /\ known = {} /\ restore = Idle
    /\ asking = {} /\ pushing = {} /\ watch = Idle
    /\ reported = book \X (1..Base)
    /\ faults = 0 /\ mark = 0 /\ apart = {} /\ excuse = FALSE

Listening == "tx" \in open /\ ~broken
Sends(pairs) == flight' = IF Listening THEN Append(flight, pairs) ELSE flight

-----------------------------------------------------------------------------
(* Faulty variants of the actions below.  Each is a bug this code could      *)
(* have had; a run with the variant in place must break a property.          *)

\* The height is not checked before it is sent to the node.
ReadAnyHeight ==
    /\ restore.at = "read"
    /\ restore' = [at |-> "sync", from |-> stored - AccuracyRange]
    /\ excuse' = (excuse \/ stored # mark \/ (stored = 0 /\ book # {}))
    /\ UNCHANGED <<head, watched, database, phase, open, broken, blocks, flight, known,
                   asking, pushing, watch, reported, faults, mark, apart>>

\* Blocks are gone through from the recorded height.
ReadTrusted ==
    /\ restore.at = "read"
    /\ restore' = IF stored > 0 THEN [at |-> "sync", from |-> stored] ELSE [at |-> "done"]
    /\ excuse' = (excuse \/ stored # mark \/ (stored = 0 /\ book # {}))
    /\ UNCHANGED <<head, watched, database, phase, open, broken, blocks, flight, known,
                   asking, pushing, watch, reported, faults, mark, apart>>

-----------------------------------------------------------------------------
(* The node, a service outside this repository.                              *)

NewBlock ==
    /\ head < MaxHead
    /\ head' = head + 1
    /\ Sends(watched \X {head + 1})
    /\ blocks' = IF "block" \in open /\ ~broken THEN Append(blocks, head') ELSE blocks
    /\ UNCHANGED <<watched, database, phase, open, broken, known, restore,
                   asking, pushing, watch, history>>

\* It forgets what it watches; the streams end with an error.
NodeRestart ==
    /\ faults < MaxFaults /\ faults' = faults + 1
    /\ watched' = {}
    /\ broken' = (open # {})
    /\ flight' = <<>> /\ blocks' = <<>>
    /\ excuse' = (excuse \/ (phase # "down" /\ open # Streams))
    /\ UNCHANGED <<head, database, phase, open, known, restore, asking, pushing, watch,
                   reported, mark, apart>>

-----------------------------------------------------------------------------
(* The start of the server.  InitHandlers starts a goroutine for each        *)
(* stream; SetUserData comes after it, and the routes after that.            *)

Boot ==
    /\ phase = "down"
    /\ phase' = "handlers" /\ mark' = stored
    /\ UNCHANGED <<head, watched, database, open, broken, blocks, flight, known, restore,
                   asking, pushing, watch, reported, faults, apart, excuse>>

OpenStream(s) ==
    /\ phase # "down" /\ s \notin open
    /\ open' = open \cup {s}
    /\ UNCHANGED <<head, watched, database, phase, broken, blocks, flight, known, restore,
                   asking, pushing, watch, history>>

FindUserDataChain ==
    /\ phase = "handlers"
    /\ phase' = "users" /\ known' = book
    /\ restore' = [at |-> "read"]
    /\ UNCHANGED <<head, watched, database, open, broken, blocks, flight,
                   asking, pushing, watch, history>>

EventInitialAdd ==
    /\ phase = "users"
    /\ phase' = "serving" /\ watched' = watched \cup known
    /\ UNCHANGED <<head, database, open, broken, blocks, flight, known, restore,
                   asking, pushing, watch, history>>

\* Without a height beyond the range there is nothing to go through.  The height
\* may be that of a block that came after the start.
FetchLastSyncBlockState ==
    /\ restore.at = "read"
    /\ restore' = IF stored - AccuracyRange > 0
                  THEN [at |-> "sync", from |-> stored - AccuracyRange]
                  ELSE [at |-> "done"]
    /\ excuse' = (excuse \/ stored # mark \/ (stored = 0 /\ book # {}))
    /\ UNCHANGED <<head, watched, database, phase, open, broken, blocks, flight, known,
                   asking, pushing, watch, reported, faults, mark, apart>>

\* The node goes through the blocks for what it watches by then; an error is
\* only logged.
SyncState ==
    /\ restore.at = "sync"
    /\ restore' = [at |-> "done"]
    /\ \/ /\ Sends(Pairs(watched, restore.from))
          /\ excuse' = (excuse \/ ~Listening \/ ~(book \ apart \subseteq watched))
       \/ excuse' = TRUE /\ UNCHANGED flight
    /\ UNCHANGED <<head, watched, database, phase, open, broken, blocks, known,
                   asking, pushing, watch, reported, faults, mark, apart>>

\* Anything may end the process; with a stream that fails, one of the goroutines
\* soon does, as it uses the record it did not get.
Late == ~({a \in book : <<a, 1>> \in reported} \X (1..(stored - AccuracyRange - 1)) \subseteq reported)

Crash ==
    /\ phase # "down" /\ faults < MaxFaults
    /\ faults' = faults + 1
    /\ phase' = "down" /\ open' = {} /\ broken' = FALSE
    /\ blocks' = <<>> /\ flight' = <<>> /\ known' = {} /\ restore' = Idle
    /\ asking' = {} /\ pushing' = {} /\ watch' = Idle
    /\ apart' = apart \cup {a \in book : <<a, 1>> \notin reported}
    /\ excuse' = (excuse \/ Late)
    /\ UNCHANGED <<head, watched, database, reported, mark>>

-----------------------------------------------------------------------------
(* The streams.                                                              *)

EventNewBlock ==
    /\ blocks # <<>>
    /\ stored' = Head(blocks) /\ blocks' = Tail(blocks)
    /\ UNCHANGED <<head, watched, book, phase, open, broken, flight, known, restore,
                   asking, pushing, watch, history>>

\* An error other than the end of the stream is logged, and the height of the
\* block there is none of is recorded: zero.
EventNewBlockError ==
    /\ phase # "down" /\ broken /\ "block" \in open
    /\ stored' = 0
    /\ UNCHANGED <<head, watched, book, server, history>>

NewTx ==
    /\ flight # <<>>
    /\ reported' = reported \cup Head(flight) /\ flight' = Tail(flight)
    /\ UNCHANGED <<head, watched, database, phase, open, broken, blocks, known, restore,
                   asking, pushing, watch, faults, mark, apart, excuse>>

-----------------------------------------------------------------------------
(* New addresses.  createCustomWallet starts NewAddressNode and then pushes  *)
(* the wallet; addAddress pushes the address and does not tell the node.     *)

CreateCustomWallet(a) ==
    /\ phase = "serving" /\ a \notin book \cup pushing
    /\ asking' = asking \cup {a} /\ pushing' = pushing \cup {a}
    /\ UNCHANGED <<head, watched, database, phase, open, broken, blocks, flight, known,
                   restore, watch, history>>

PushWallet(a) ==
    /\ a \in pushing
    /\ pushing' = pushing \ {a} /\ book' = book \cup {a}
    /\ UNCHANGED <<head, watched, stored, phase, open, broken, blocks, flight, known,
                   restore, asking, watch, history>>

AddAddress(a) ==
    /\ phase = "serving" /\ a \notin book \cup pushing
    /\ book' = book \cup {a} /\ apart' = apart \cup {a}
    /\ UNCHANGED <<head, watched, stored, server, reported, faults, mark, excuse>>

NewAddressNode(a) ==
    /\ watch = Idle /\ a \in asking
    /\ watch' = [at |-> "add", addr |-> a] /\ asking' = asking \ {a}
    /\ UNCHANGED <<head, watched, database, phase, open, broken, blocks, flight, known,
                   restore, pushing, history>>

\* The goroutine goes on after an error.
Fails == apart' = apart \cup {watch.addr}

EventAddNewAddress ==
    /\ watch.at = "add"
    /\ watch' = [watch EXCEPT !.at = "resync"]
    /\ \/ watched' = watched \cup {watch.addr} /\ UNCHANGED apart
       \/ Fails /\ UNCHANGED watched
    /\ UNCHANGED <<head, database, phase, open, broken, blocks, flight, known, restore,
                   asking, pushing, reported, faults, mark, excuse>>

EventResyncAddress ==
    /\ watch.at = "resync"
    /\ watch' = Idle
    /\ \/ /\ Sends(Pairs({watch.addr}, 1))
          /\ IF Listening THEN UNCHANGED apart ELSE Fails
       \/ Fails /\ UNCHANGED flight
    /\ UNCHANGED <<head, watched, database, phase, open, broken, blocks, known, restore,
                   asking, pushing, reported, faults, mark, excuse>>

-----------------------------------------------------------------------------
Next ==
    \/ NewBlock \/ NodeRestart
    \/ Boot \/ FindUserDataChain \/ EventInitialAdd \/ FetchLastSyncBlockState \/ SyncState
    \/ Crash
    \/ \E s \in Streams : OpenStream(s)
    \/ EventNewBlock \/ EventNewBlockError \/ NewTx
    \/ \E a \in Addrs : CreateCustomWallet(a) \/ PushWallet(a) \/ AddAddress(a) \/ NewAddressNode(a)
    \/ EventAddNewAddress \/ EventResyncAddress

Spec == Init /\ [][Next]_vars

-----------------------------------------------------------------------------
\* Every variable holds a value of its kind, and the node is asked for a block
\* that there is.
TypeOK ==
    /\ head \in Base..MaxHead /\ stored \in 0..head
    /\ watched \subseteq Addrs /\ book \subseteq Addrs /\ known \subseteq Addrs
    /\ phase \in {"down", "handlers", "users", "serving"}
    /\ open \subseteq Streams /\ broken \in BOOLEAN
    /\ blocks \in Seq(1..head) /\ flight \in Seq(SUBSET (Addrs \X (1..head)))
    /\ restore \in {Idle, [at |-> "read"], [at |-> "done"]} \cup [at : {"sync"}, from : 1..head]
    /\ asking \subseteq Addrs /\ pushing \subseteq Addrs
    /\ watch \in {Idle} \cup [at : {"add", "resync"}, addr : Addrs]
    /\ reported \subseteq Addrs \X (1..head)
    /\ faults \in 0..MaxFaults /\ mark \in 0..head /\ apart \subseteq Addrs /\ excuse \in BOOLEAN

AtRest ==
    /\ phase = "serving" /\ open = Streams /\ ~broken
    /\ restore.at = "done" /\ flight = <<>> /\ asking = {} /\ watch = Idle

\* Once a server has restored its state and the streams are read, no block is
\* missing for any address, those that came while the server was down and those
\* whose reports it lost included.  Not so if the height it restores from
\*   - was overwritten by a new block, or by the error of a stream, before it
\*     was read, or there was none, or
\*   - is further than the range ahead of a report the crash has lost;
\* if the node's answer to SyncState was an error, came before the NewTx stream
\* was open or, at a node that has forgotten its addresses, before they were
\* added; if the node has restarted while the server started; and not for the
\* addresses the node was not, or in vain, told of.
RestNoGap ==
    (AtRest /\ ~excuse) => (book \ apart) \X (1..head) \subseteq reported
=============================================================================

------------------------------ MODULE Wallets ------------------------------
(***************************************************************************)
(* The account of one user: the documents of the users collection that     *)
(* carry the user's id, with their devices, wallets and addresses.  The    *)
(* handlers of client/rest.go and LoginHandler of client/rest-auth.go run  *)
(* concurrently, a goroutine for each request; each reads the document and *)
(* updates it in separate database calls.                                  *)
(*                                                                         *)
(* An HD wallet is known by its currency, network and index, an imported   *)
(* one has index -1 and is known by its address.  A wallet's name and      *)
(* brokenStatus are abstracted to the wallets named by the requests that   *)
(* set them.  Multisigs are left to the module Multisig; a login rewrites  *)
(* them as it does the wallets.                                            *)
(***************************************************************************)
EXTENDS Integers, Sequences, SequencesExt, FiniteSets

CONSTANTS Devices,     \* the devices of the user
          Keys,        \* wallets: currency, network, index and address
          Initial,     \* the lists of wallets an account may begin with
          Reqs,        \* requests served at a time
          MaxRequests, \* bound on the requests
          MaxSeconds,  \* bound on the clock that tokens are made from
          MaxPayments, \* bound on the payments that arrive
          MaxEmpty,    \* MaximumAvalibeEmptyWallets
          Timeout      \* seconds a token is valid

ASSUME WalletsAssumption ==
    /\ MaxRequests \in Nat /\ MaxSeconds \in Nat \ {0} /\ MaxPayments \in Nat
    /\ MaxEmpty \in Nat /\ Timeout \in Nat
    /\ IsFiniteSet(Reqs) /\ Reqs # {}
    /\ \A k \in Keys : k.currency \in {"BTC", "ETH"} /\ k.index \in Int
    /\ \A ws \in Initial : /\ ws \in Seq(Keys)
                           /\ \A i, j \in DOMAIN ws : ws[i] = ws[j] => i = j

EthMain == 1
EthTest == 4
Chain(k) == <<k.currency, k.network>>
Imported(k) == k.index = -1

VARIABLES
    docs,       \* the user's documents, in the order a query finds them
    token,      \* the token each device holds, 0 when it has none
    now,        \* the second
    req,        \* what each request is about to do
    requests,   \* requests so far
    funds,      \* addresses with a balance
    reports,    \* addresses whose payments the node's stream has still to report
    touch,      \* what updateWalletAndAddressDate is about to do for one
    answered,   \* history: what the app was told is done
    sent,       \* history: change addresses of transactions the node accepted
    cut,        \* history: those whose user was not found again by the token
    granted,    \* history: which device has been given which token
    overtook,   \* history: a login has rewritten a document that had changed
    hid,        \* history: wallets deleted though the balance weighed was not
                \* theirs as it was at the time
    revived     \* history: wallets set to ok by a report

vars == <<docs, token, now, req, requests, funds, reports, touch,
          answered, sent, cut, granted, overtook, hid, revived>>
payments == <<funds, reports, touch, hid, revived>>
history == <<answered, sent, cut, granted, overtook>>

Idle == [op |-> "idle"]

\* createWallet, with the first address of the wallet.
NewWallet(k, s) == [key |-> k, status |-> s, addrs |-> {<<k, 0>>}, by |-> {}]

\* A query by devices.JWT, and one by userID.
Holds(doc, jwt) == \E i \in DOMAIN doc.devices : doc.devices[i].jwt = jwt
FindUser(jwt) == SelectInSeq(docs, LAMBDA doc : Holds(doc, jwt))
FindByID == IF docs = <<>> THEN 0 ELSE 1

Matches(ws, k) == {i \in DOMAIN ws : ws[i].key = k}

\* A selector on wallets.currencyID, wallets.networkID and wallets.walletIndex
\* may meet each of them in another wallet.
Selected(doc, k, fields) ==
    \A f \in fields : \E i \in DOMAIN doc.wallets : doc.wallets[i].key[f] = k[f]
Triple == {"currency", "network", "index"}
FindByWallet(k, fields) == SelectInSeq(docs, LAMBDA doc : Selected(doc, k, fields))

\* A query by wallets.addresses.address; wallets.$ is the wallet that has it.
HasAddress(doc, a) == SelectInSeq(doc.wallets, LAMBDA w : a \in w.addrs)
FindByAddress(a) == SelectInSeq(docs, LAMBDA doc : HasAddress(doc, a) # 0)

\* An update of the wallet at a position: past the end of an array that a login
\* has made shorter, MongoDB adds elements without a wallet's fields.
Torn == [key |-> [currency |-> "none", network |-> -1, index |-> -2, address |-> "none"],
         status |-> "none", addrs |-> {}, by |-> {}]

WalletAt(u, p) == IF p <= Len(docs[u].wallets) THEN docs[u].wallets[p] ELSE Torn

Update(u, p, w) ==
    docs' = [docs EXCEPT ![u].wallets =
               [i \in 1..Max({p, Len(@)}) |-> IF i = p THEN w ELSE WalletAt(u, i)]]

Init ==
    /\ \E ws \in Initial, d \in Devices :
         /\ docs = IF ws = <<>> THEN <<>>
                   ELSE <<[devices |-> <<[id |-> d, jwt |-> 1]>>,
                           wallets |-> [i \in DOMAIN ws |-> NewWallet(ws[i], "ok")]]>>
         /\ token = [e \in Devices |-> IF ws # <<>> /\ e = d THEN 1 ELSE 0]
         /\ granted = IF ws = <<>> THEN {} ELSE {<<d, 1>>}
         /\ answered = {<<"wallet", k>> : k \in ToSet(ws)}
    /\ now = 1
    /\ req = [r \in Reqs |-> Idle] /\ requests = 0
    /\ funds = {} /\ reports = <<>> /\ touch = Idle
    /\ sent = {} /\ cut = {} /\ overtook = FALSE
    /\ hid = {} /\ revived = {}

-----------------------------------------------------------------------------
(* How a request begins, goes on and ends.                                   *)

\* The JWT middleware lets a request with a valid token through.
Authorized(d) == token[d] > 0 /\ now <= token[d] + Timeout

\* The app asks about wallets it was told of.
Known(k) == <<"wallet", k>> \in answered

Begin(r, d, op, at, k) ==
    /\ req[r] = Idle /\ requests < MaxRequests /\ Authorized(d)
    /\ requests' = requests + 1
    /\ req' = [req EXCEPT ![r] = [op |-> op, at |-> at, key |-> k, jwt |-> token[d]]]
    /\ UNCHANGED <<docs, token, now, payments, history>>

At(r, op, at) == req[r].op = op /\ req[r].at = at
Go(r, at) == req' = [req EXCEPT ![r].at = at]
End(r) == req' = [req EXCEPT ![r] = Idle]
Answer(r, what) == End(r) /\ answered' = answered \cup {what}
Refuse(r) == End(r) /\ UNCHANGED answered

Creating(r) == req[r].op \in {"create", "mixed", "discover"}

-----------------------------------------------------------------------------
(* Faulty variants of the definitions below and above.  Each is a bug this   *)
(* code could have had; a run with the variant in place must break a property.*)

\* The token is kept under the time it expires at.
LoginByExpiry(r, d, at, old, doc) ==
    req' = [req EXCEPT ![r] = [op |-> "login", at |-> at, dev |-> d, jwt |-> now + MaxSeconds,
                               old |-> old, doc |-> doc]]

\* A refresh replaces the token of the first device, whichever asked.
RefreshFirst(r) ==
    /\ At(r, "login", "refresh")
    /\ docs' = [docs EXCEPT ![FindByID].devices[1].jwt = req[r].jwt]
    /\ token' = [token EXCEPT ![req[r].dev] = req[r].jwt]
    /\ granted' = granted \cup {<<req[r].dev, req[r].jwt>>}
    /\ Answer(r, <<"token", req[r].dev>>)
    /\ UNCHANGED <<now, requests, payments, sent, cut, overtook>>

\* The position is that of a wallet with the index, of any chain.
PositionOfIndex(ws, k) ==
    LET p == SelectInSeq(ws, LAMBDA w : w.key.index = k.index) IN IF p = 0 THEN 1 ELSE p

\* A wallet is pushed whether it is there or not.
CreateUnread(r) ==
    /\ Creating(r) /\ req[r].at = "read"
    /\ Go(r, "push")
    /\ UNCHANGED <<docs, token, now, requests, payments, history>>

\* The request ends when the node has the transaction.
SendOnly(r) ==
    /\ At(r, "send", "send")
    /\ sent' = sent \cup {req[r].key} /\ End(r)
    /\ UNCHANGED <<docs, token, now, requests, payments, answered, cut, granted, overtook>>

\* Only the first address of a wallet is weighed.
WeighFirst(ws, k) == {<<k, 0>>}

-----------------------------------------------------------------------------
\* The loops that look for the wallet of a request keep its position, which
\* stays at the first wallet when there is none.
FirstPosition(ws, k) == LET p == SelectInSeq(ws, LAMBDA w : w.key = k) IN IF p = 0 THEN 1 ELSE p
LastPosition(ws, k) == LET p == SelectLastInSeq(ws, LAMBDA w : w.key = k) IN IF p = 0 THEN 1 ELSE p

-----------------------------------------------------------------------------
(* LoginHandler: Authenticator finds the user by id, the token is made of    *)
(* the id and the second, and one update follows.                            *)

Login(r, d, at, old, doc) ==
    req' = [req EXCEPT ![r] = [op |-> "login", at |-> at, dev |-> d, jwt |-> now,
                               old |-> old, doc |-> doc]]

DeviceOf(doc, d) == SelectInSeq(doc.devices, LAMBDA e : e.id = d)

Authenticate(r, d) ==
    /\ req[r] = Idle /\ requests < MaxRequests
    /\ requests' = requests + 1
    /\ IF docs = <<>>
       THEN Login(r, d, "insert", 0, <<>>)
       ELSE LET doc == docs[FindByID]
                i == DeviceOf(doc, d)
            IN IF i = 0 THEN Login(r, d, "rewrite", 0, doc)
               ELSE Login(r, d, "refresh", doc.devices[i].jwt, <<>>)
    /\ UNCHANGED <<docs, token, now, payments, history>>

\* The device is sent its token.
Grant(r) ==
    LET d == req[r].dev IN
    /\ token' = [token EXCEPT ![d] = req[r].jwt]
    /\ granted' = granted \cup {<<d, req[r].jwt>>}
    /\ Answer(r, <<"token", d>>)

NewDevice(r) == [id |-> req[r].dev, jwt |-> req[r].jwt]

LoginInsert(r) ==
    /\ At(r, "login", "insert")
    /\ docs' = Append(docs, [devices |-> <<NewDevice(r)>>, wallets |-> <<>>])
    /\ Grant(r)
    /\ UNCHANGED <<now, requests, payments, sent, cut, overtook>>

DeviceWith(doc, jwt) == SelectInSeq(doc.devices, LAMBDA e : e.jwt = jwt)

\* devices.$.JWT is that of the first device with the old token.
LoginRefresh(r) ==
    /\ At(r, "login", "refresh")
    /\ LET u == FindUser(req[r].old)
           i == DeviceWith(docs[u], req[r].old)
       IN \/ /\ u # 0
             /\ docs' = [docs EXCEPT ![u].devices[i].jwt = req[r].jwt]
             /\ Grant(r)
          \/ u = 0 /\ Refuse(r) /\ UNCHANGED <<docs, token, granted>>
    /\ UNCHANGED <<now, requests, payments, sent, cut, overtook>>

\* UpdateUser replaces the document by the one that was read.
LoginRewrite(r) ==
    /\ At(r, "login", "rewrite")
    /\ docs' = [docs EXCEPT ![FindByID] =
                    [req[r].doc EXCEPT !.devices = Append(@, NewDevice(r))]]
    /\ overtook' = (overtook \/ docs[FindByID] # req[r].doc)
    /\ Grant(r)
    /\ UNCHANGED <<now, requests, payments, sent, cut>>

-----------------------------------------------------------------------------
(* addWallet and discoverWallets, with createCustomWallet.                   *)

\* "exact" is whether an imported address came in lower case, as it is stored.
AddWallet(r, d) ==
    \E k \in Keys, exact \in BOOLEAN :
        /\ exact \/ Imported(k)
        /\ Begin(r, d, IF exact THEN "create" ELSE "mixed", "check", k)

\* A discovery of the wallets of one chain goes through its list in order.
DiscoverWallets(r, d) ==
    \E k \in Keys : ~Imported(k) /\ Begin(r, d, "discover", "read", k)

\* At the limit only a user with transactions may go on.
CheckAddWallet(r) ==
    /\ Creating(r) /\ req[r].at = "check"
    /\ LET u == FindUser(req[r].jwt)
           full == u # 0 /\ Cardinality({i \in DOMAIN docs[u].wallets :
                        Chain(docs[u].wallets[i].key) = Chain(req[r].key)}) >= MaxEmpty
       IN \/ (u = 0 \/ full) /\ Refuse(r)
          \/ u # 0 /\ Go(r, "read") /\ UNCHANGED answered
    /\ UNCHANGED <<docs, token, now, requests, payments, sent, cut, granted, overtook>>

\* The next wallet of a discovery is one of a higher index.
NextWallet(r) ==
    \/ End(r)
    \/ /\ req[r].op = "discover"
       /\ \E k \in Keys : /\ Chain(k) = Chain(req[r].key) /\ k.index > req[r].key.index
                         /\ req' = [req EXCEPT ![r].key = k, ![r].at = "read"]

\* A wallet that is there ends the request, or is skipped by a discovery.
CreateRead(r) ==
    /\ Creating(r) /\ req[r].at = "read"
    /\ LET u == FindUser(req[r].jwt)
           there == u # 0 /\ req[r].op # "mixed" /\ Matches(docs[u].wallets, req[r].key) # {}
       IN \/ u = 0 /\ End(r)
          \/ there /\ NextWallet(r)
          \/ u # 0 /\ ~there /\ Go(r, "push")
    /\ UNCHANGED <<docs, token, now, requests, payments, history>>

\* The node of the ETH network with the wallet's network number says whether
\* a discovered wallet is empty; if so it is stored as deleted.
Statuses(r) ==
    IF req[r].op = "discover" /\ req[r].key.network \in {EthMain, EthTest}
    THEN {"ok", "deleted"} ELSE {"ok"}

CreatePush(r) ==
    /\ Creating(r) /\ req[r].at = "push"
    /\ LET u == FindUser(req[r].jwt)
           k == req[r].key
       IN \/ /\ u # 0
             /\ \E s \in Statuses(r) :
                  /\ docs' = [docs EXCEPT ![u].wallets = Append(@, NewWallet(k, s))]
                  /\ answered' = IF s = "ok" THEN answered \cup {<<"wallet", k>>} ELSE answered
             /\ NextWallet(r)
          \/ u = 0 /\ Refuse(r) /\ UNCHANGED docs
    /\ UNCHANGED <<token, now, requests, payments, sent, cut, granted, overtook>>

-----------------------------------------------------------------------------
(* addAddress, and sendRawHDTransaction with the change address of a BTC     *)
(* payment: addAddressToWallet comes after the node has the transaction.     *)

AddAddress(r, d) ==
    \E k \in Keys : ~Imported(k) /\ Known(k) /\ Begin(r, d, "address", "read", k)

SendRaw(r, d) ==
    \E k \in Keys : /\ k.currency = "BTC" /\ Known(k) /\ FindUser(token[d]) # 0
                  /\ Begin(r, d, "send", "send", k)

EventSendRawTx(r) ==
    /\ At(r, "send", "send")
    /\ \/ sent' = sent \cup {req[r].key} /\ Go(r, "read")
       \/ End(r) /\ UNCHANGED sent
    /\ UNCHANGED <<docs, token, now, requests, payments, answered, cut, granted, overtook>>

\* An error after the payment is sent.
Cut(r) ==
    /\ End(r)
    /\ cut' = IF req[r].op = "send" THEN cut \cup {req[r].key} ELSE cut

NextAddress(k) == <<k, 1>>

AddressRead(r) ==
    /\ req[r].op \in {"address", "send"} /\ req[r].at = "read"
    /\ LET u == FindUser(req[r].jwt)
           k == req[r].key
           taken == u # 0 /\ \E i \in Matches(docs[u].wallets, k) :
                        NextAddress(k) \in docs[u].wallets[i].addrs
       IN \/ u = 0 /\ Cut(r)
          \/ taken /\ End(r) /\ UNCHANGED cut
          \/ /\ u # 0 /\ ~taken
             /\ req' = [req EXCEPT ![r] = [op |-> @.op, at |-> "push", key |-> k, jwt |-> @.jwt,
                                           pos |-> LastPosition(docs[u].wallets, k)]]
             /\ UNCHANGED cut
    /\ UNCHANGED <<docs, token, now, requests, payments, answered, sent, granted, overtook>>

FindHolder(jwt, k) == SelectInSeq(docs, LAMBDA doc : Holds(doc, jwt) /\ Selected(doc, k, Triple))

AddressPush(r) ==
    /\ req[r].op \in {"address", "send"} /\ req[r].at = "push"
    /\ LET k == req[r].key
           u == FindHolder(req[r].jwt, k)
       IN \/ /\ u # 0
             /\ Update(u, req[r].pos, [WalletAt(u, req[r].pos) EXCEPT
                   !.addrs = @ \cup {NextAddress(k)}, !.by = @ \cup {k}])
             /\ Answer(r, <<"address", k>>)
             /\ UNCHANGED cut
          \/ u = 0 /\ Cut(r) /\ UNCHANGED <<docs, answered>>
    /\ UNCHANGED <<token, now, requests, payments, sent, granted, overtook>>

-----------------------------------------------------------------------------
(* changeName for an HD wallet, by position; for an imported one, and        *)
(* convertToBroken, by an address.                                           *)

ChangeName(r, d) ==
    \E k \in Keys : ~Imported(k) /\ Known(k) /\ Begin(r, d, "rename", "read", k)

NameRead(r) ==
    /\ At(r, "rename", "read")
    /\ LET u == FindUser(req[r].jwt) IN
       \/ u = 0 /\ End(r)
       \/ u # 0 /\ req' = [req EXCEPT ![r] = [op |-> "rename", at |-> "set", key |-> @.key,
                                  pos |-> FirstPosition(docs[u].wallets, @.key)]]
    /\ UNCHANGED <<docs, token, now, requests, payments, history>>

NameSet(r) ==
    /\ At(r, "rename", "set")
    /\ LET k == req[r].key
           u == FindByWallet(k, {"index", "network"})
       IN \/ u # 0 /\ Update(u, req[r].pos, [WalletAt(u, req[r].pos) EXCEPT !.by = @ \cup {k}])
          \/ u = 0 /\ UNCHANGED docs
    /\ End(r)
    /\ UNCHANGED <<token, now, requests, payments, history>>

ConvertToBroken(r, d) ==
    \E k \in Keys : /\ Known(k) /\ FindUser(token[d]) # 0
                  /\ Begin(r, d, "broken", "set", k)

BrokenSet(r) ==
    /\ At(r, "broken", "set")
    /\ LET k == req[r].key
           u == FindByAddress(<<k, 0>>)
           i == HasAddress(docs[u], <<k, 0>>)
       IN \/ u # 0 /\ Update(u, i, [WalletAt(u, i) EXCEPT !.by = @ \cup {k}])
          \/ u = 0 /\ UNCHANGED docs
    /\ End(r)
    /\ UNCHANGED <<token, now, requests, payments, history>>
-----------------------------------------------------------------------------
(* deleteWallet: the balance of the addresses found in one read decides over *)
(* the update made after another.                                            *)

DeleteRequest(r, d) == \E k \in Keys : Known(k) /\ Begin(r, d, "delete", "read", k)

LastOfIndex(ws, i) == SelectLastInSeq(ws, LAMBDA w : w.key.index = i)

\* A non-numeric path parameter, the address of an imported wallet, leaves the
\* index at 0.  For ETH the address asked about is that of the last wallet with
\* the index, of any chain.
Weighed(ws, k) ==
    LET index == IF Imported(k) THEN 0 ELSE k.index
        last == LastOfIndex(ws, index)
    IN IF k.currency = "BTC"
       THEN UNION {ws[i].addrs : i \in {j \in DOMAIN ws : ws[j].key.index = index}}
       ELSE IF last = 0 THEN {} ELSE {<<ws[last].key, 0>>}

DeleteRead(r) ==
    /\ At(r, "delete", "read")
    /\ LET u == FindUser(req[r].jwt) IN
       \/ u = 0 /\ End(r)
       \/ u # 0 /\ req' = [req EXCEPT ![r] = [op |-> "delete", at |-> "weigh", key |-> @.key,
                          asked |-> Weighed(docs[u].wallets, @.key),
                          seen |-> <<docs, funds>>]]
    /\ UNCHANGED <<docs, token, now, requests, payments, history>>

\* BTC outputs are looked up in the collection of the network asked for.  The
\* answer of the ETH test network is not looked at, and no other network is
\* asked; what the main network's node says of an address that is not its own is
\* up to it, and an error is a panic that ends the request.
Looked(k) == Chain(k) \in {<<"BTC", 0>>, <<"BTC", 1>>, <<"ETH", EthMain>>}

Weigh(r) ==
    /\ At(r, "delete", "weigh")
    /\ LET k == req[r].key
           full == {a \in req[r].asked \cap funds : Chain(a[1]) = Chain(k)} # {}
           odd == \/ req[r].asked = {}
                  \/ \E a \in req[r].asked : Chain(a[1]) # Chain(k)
       IN \/ full /\ Looked(k) /\ End(r)
          \/ Chain(k) = <<"ETH", EthMain>> /\ odd /\ End(r)
          \/ /\ ~full \/ ~Looked(k)
             /\ Go(r, IF Imported(k) THEN "imported" ELSE "locate")
    /\ UNCHANGED <<docs, token, now, requests, payments, history>>

\* DeleteWallet reads the user once more for the position.
Locate(r) ==
    /\ At(r, "delete", "locate")
    /\ req' = [req EXCEPT ![r] = [op |-> "delete", at |-> "mark", key |-> @.key, asked |-> @.asked,
                   seen |-> @.seen, pos |-> FirstPosition(docs[FindByID].wallets, @.key)]]
    /\ UNCHANGED <<docs, token, now, requests, payments, history>>

\* The balance may have changed since it was weighed; that of an ETH wallet is
\* weighed in the main network only, for its first address, if at all.
Unweighed(r) ==
    LET k == req[r].key IN
    \/ req[r].seen # <<docs, funds>> \/ ~Looked(k)
    \/ k.currency = "ETH" /\ (req[r].asked # {<<k, 0>>} \/ NextAddress(k) \in funds)

MarkDeleted(r) ==
    /\ At(r, "delete", "mark")
    /\ LET k == req[r].key
           u == FindByWallet(k, Triple)
       IN \/ /\ u # 0
             /\ Update(u, req[r].pos, [WalletAt(u, req[r].pos) EXCEPT
                   !.status = "deleted", !.by = @ \cup {k}])
             /\ hid' = IF Unweighed(r) THEN hid \cup {k} ELSE hid
             /\ Answer(r, <<"deleted", k>>)
          \/ u = 0 /\ Refuse(r) /\ UNCHANGED <<docs, hid>>
    /\ UNCHANGED <<token, now, requests, funds, reports, touch, revived, sent, cut, granted, overtook>>

FirstImported(doc) == SelectInSeq(doc.wallets, LAMBDA w : Imported(w.key))
FindImported(a) == SelectInSeq(docs, LAMBDA doc : HasAddress(doc, a) # 0 /\ FirstImported(doc) # 0)

\* The selector has two conditions on the array, the address and isImported:
\* which of them wallets.$ stands for is not defined.
MarkImported(r) ==
    /\ At(r, "delete", "imported")
    /\ LET k == req[r].key
           u == FindImported(<<k, 0>>)
       IN \/ /\ u # 0
             /\ \E i \in {HasAddress(docs[u], <<k, 0>>), FirstImported(docs[u])} :
                  Update(u, i, [WalletAt(u, i) EXCEPT !.status = "deleted", !.by = @ \cup {k}])
             /\ Answer(r, <<"deleted", k>>)
          \/ u = 0 /\ Refuse(r) /\ UNCHANGED docs
    /\ UNCHANGED <<token, now, requests, payments, sent, cut, granted, overtook>>

-----------------------------------------------------------------------------
\* A payment reaches one of the user's addresses; the node reports it.
Receive(a) ==
    /\ a \notin funds /\ Cardinality(funds) < MaxPayments
    /\ \E u \in DOMAIN docs : HasAddress(docs[u], a) # 0
    /\ funds' = funds \cup {a}
    /\ reports' = Append(reports, a)
    /\ UNCHANGED <<docs, token, now, req, requests, touch, history, hid, revived>>

LastWith(ws, a) == SelectLastInSeq(ws, LAMBDA w : a \in w.addrs)

\* updateWalletAndAddressDate, called for every report: the last wallet with the
\* address is set to ok, by its position.
TouchRead ==
    /\ touch = Idle /\ reports # <<>>
    /\ reports' = Tail(reports)
    /\ LET a == Head(reports)
           u == FindByAddress(a)
       IN \/ /\ u # 0
             /\ touch' = [op |-> "touch", addr |-> a, pos |-> LastWith(docs[u].wallets, a)]
          \/ u = 0 /\ UNCHANGED touch
    /\ UNCHANGED <<docs, token, now, req, requests, funds, hid, revived, history>>

TouchSet ==
    /\ touch # Idle
    /\ touch' = Idle
    /\ LET k == touch.addr[1]
           u == FindByAddress(touch.addr)
       IN \/ /\ u # 0
             /\ Update(u, touch.pos, [WalletAt(u, touch.pos) EXCEPT !.status = "ok", !.by = @ \cup {k}])
             /\ revived' = revived \cup {k}
          \/ u = 0 /\ UNCHANGED <<docs, revived>>
    /\ UNCHANGED <<token, now, req, requests, funds, reports, hid, history>>

\* The clock is read when a request arrives: after the last one it stands.
Tick ==
    /\ now < MaxSeconds /\ requests < MaxRequests
    /\ now' = now + 1
    /\ UNCHANGED <<docs, token, req, requests, payments, history>>

Arrives(r, d) ==
    \/ Authenticate(r, d) \/ AddWallet(r, d) \/ DiscoverWallets(r, d) \/ AddAddress(r, d)
    \/ SendRaw(r, d) \/ ChangeName(r, d) \/ ConvertToBroken(r, d) \/ DeleteRequest(r, d)

Goes(r) ==
    \/ LoginInsert(r) \/ LoginRefresh(r) \/ LoginRewrite(r)
    \/ CheckAddWallet(r) \/ CreateRead(r) \/ CreatePush(r)
    \/ EventSendRawTx(r) \/ AddressRead(r) \/ AddressPush(r)
    \/ NameRead(r) \/ NameSet(r) \/ BrokenSet(r)
    \/ DeleteRead(r) \/ Weigh(r) \/ Locate(r) \/ MarkDeleted(r) \/ MarkImported(r)

Next ==
    \/ \E r \in Reqs : Goes(r) \/ \E d \in Devices : Arrives(r, d)
    \/ \E k \in Keys, i \in {0, 1} : Receive(<<k, i>>)
    \/ TouchRead \/ TouchSet
    \/ Tick

Spec == Init /\ [][Next]_vars

-----------------------------------------------------------------------------
Addresses == Keys \X {0, 1}
Wallet == [key : Keys, status : {"ok", "deleted"}, addrs : SUBSET Addresses, by : SUBSET Keys]

\* Every variable holds a value of its kind, and a request past its read acts on
\* the wallet that a read found.
TypeOK ==
    /\ \A u \in DOMAIN docs :
         /\ \A i \in DOMAIN docs[u].devices :
              docs[u].devices[i] \in [id : Devices, jwt : 1..MaxSeconds]
         /\ \A i \in DOMAIN docs[u].wallets : docs[u].wallets[i] \in Wallet \/ docs[u].wallets[i].key = Torn.key
    /\ token \in [Devices -> 0..MaxSeconds] /\ now \in 1..MaxSeconds
    /\ requests \in 0..MaxRequests
    /\ \A r \in Reqs : req[r].op \in {"idle", "login", "create", "mixed", "discover", "address",
                                     "send", "rename", "broken", "delete"}
    /\ funds \subseteq Addresses /\ sent \subseteq Keys /\ cut \subseteq Keys
    /\ granted \subseteq Devices \X (1..MaxSeconds) /\ overtook \in BOOLEAN
    /\ ToSet(reports) \subseteq Addresses /\ touch.op \in {"idle", "touch"}
    /\ hid \subseteq Keys /\ revived \subseteq Keys

\* No login has rewritten a document that had changed since it was read, and
\* the first login of the account was one.
Sound == ~overtook /\ Len(docs) <= 1

Stored(what) ==
    \E u \in DOMAIN docs :
        LET ws == docs[u].wallets IN
        CASE what[1] = "wallet"  -> Matches(ws, what[2]) # {}
          [] what[1] = "deleted" -> \E i \in Matches(ws, what[2]) : ws[i].status = "deleted"
          [] what[1] = "address" -> \E i \in Matches(ws, what[2]) : NextAddress(what[2]) \in ws[i].addrs
          [] what[1] = "token"   -> Holds(docs[u], token[what[2]])

\* Two devices have been given one token.
SharedToken == \E g, h \in granted : g[2] = h[2] /\ g[1] # h[1]

SeveralImported == \E u \in DOMAIN docs : Cardinality({i \in DOMAIN docs[u].wallets :
                                                  Imported(docs[u].wallets[i].key)}) > 1

\* What the app was told is done stays done: a wallet created or deleted, an
\* address added, a device logged in.  A login that rewrites a changed document
\* and two first logins break it; a token given to two devices may be taken from
\* one by the other; deleting one of several imported wallets may hit another; and
\* a report of a payment shows a deleted wallet again.
AnswersKept ==
    Sound => \A what \in answered :
        \/ Stored(what)
        \/ what[1] = "token" /\ SharedToken
        \/ /\ what[1] = "deleted"
           /\ what[2] \in revived \/ (Imported(what[2]) /\ SeveralImported)

\* A new name, a deletion or an address reaches the wallet the request was for,
\* with the same exceptions: a request for a wallet that a login has dropped
\* lands in another one.
ChangesLandInOwn ==
    Sound => \A u \in DOMAIN docs : \A i \in DOMAIN docs[u].wallets :
        LET w == docs[u].wallets[i] IN
        /\ \A a \in w.addrs : a[1] = w.key
        /\ \A k \in w.by : k = w.key \/ (Imported(k) /\ Imported(w.key) /\ SeveralImported)

\* Requests in flight may each push the same wallet, having found none: never
\* more of them than are served at a time, and never for an address that came
\* in upper case, which is not recognised.  Likewise for first logins.
CopiesBounded ==
    Sound => \A k \in Keys :
        \/ Imported(k)
        \/ \A u \in DOMAIN docs :
             Cardinality(Matches(docs[u].wallets, k))
               + Cardinality({r \in Reqs : Creating(r) /\ req[r].at = "push" /\ req[r].key = k})
             <= Cardinality(Reqs)

\* The change address of a payment the node has accepted is in its wallet once
\* the request has ended, unless the device's token was replaced meanwhile.
ChangeKept ==
    Sound => \A k \in sent :
        \/ Stored(<<"address", k>>)
        \/ \E r \in Reqs : req[r].op = "send" /\ req[r].key = k
        \/ k \in cut

AtRest == touch = Idle /\ reports = <<>> /\ \A r \in Reqs : req[r] = Idle

\* At rest an address with a balance is in a wallet that is shown: a payment that
\* comes after the deletion shows it again.  Only a deletion that did not weigh
\* the balance there was can hide one.
FundsShown ==
    (Sound /\ AtRest) => \A u \in DOMAIN docs : \A a \in funds :
        \/ a[1] \in hid \/ Imported(a[1])
        \/ \E i \in DOMAIN docs[u].wallets :
             a \in docs[u].wallets[i].addrs /\ docs[u].wallets[i].status = "ok"
=============================================================================

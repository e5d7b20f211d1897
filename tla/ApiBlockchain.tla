---------------------------- MODULE ApiBlockchain ----------------------------
(***************************************************************************)
(* The API synchronisation engine of HSEthereumKit: ApiBlockchain (timers,  *)
(* network requests, synchronisation states), the kit that owns it          *)
(* (EthereumKit with EthereumKitState) and its database (ApiGrdbStorage).   *)
(*                                                                          *)
(* Threads.  Every HTTP completion handler is dispatched to the main queue  *)
(* (HTTPClient.send), the public calls and the reachability listener run    *)
(* there too: each of them is one atomic action.  The 30 second timer runs  *)
(* refreshAll on a background queue, so its reads and writes are separate   *)
(* steps that the main thread's actions may interleave with.  It writes a   *)
(* contract's state in two: the dictionary is read and stored back without  *)
(* a lock, so that a write of the main thread in between is undone, or      *)
(* undoes the timer's (the outcomes of that data race but for a crash).     *)
(*                                                                          *)
(* A refresh is one Single.zip request and the requests its answers lead    *)
(* to.  Several may be outstanding; Refresh bounds how many at once.  The   *)
(* services answer as of any height of the chain: infura and etherscan are  *)
(* independent and may lag.  A height or balance shown to the user is any   *)
(* Reading, a transaction is the block it is in.  Left out: delegate    *)
(* notifications, gas prices, sending (see README).                         *)
(***************************************************************************)
EXTENDS Integers, FiniteSetsExt

CONSTANTS
    Contract,    \* the erc20 contract addresses the app may register
    Refresh,     \* identities of the outstanding refreshes (a bound for TLC)
    Reading,     \* the answers to a height or balance request, told apart only
    MaxHeight,   \* the height of the chain
    PlainTx,     \* blocks with a transaction of the account, not a creation
    CreationTx,  \* blocks in which the account created a contract
    TokenTx,     \* blocks with an erc20 transfer of the account
    None         \* nil: no value, no entry, no request

ASSUME BlocksAssumption ==
    /\ MaxHeight \in Nat
    /\ PlainTx \subseteq 1..MaxHeight
    /\ CreationTx \subseteq 1..MaxHeight
    /\ TokenTx \subseteq 1..MaxHeight

ASSUME NoneAssumption ==
    None \notin Int \cup {"synced", "syncing", "notSynced"} \cup Reading \cup Refresh

VARIABLES
    isReachable,  \* ReachabilityManager.isReachable
    syncState,    \* ApiBlockchain.syncState
    erc20,        \* ApiBlockchain.erc20Contracts: its sync state, None if absent
    timer,        \* the timer thread inside refreshAll
    flight,       \* per refresh, its requests that are not answered yet
    db,           \* the tables of ApiGrdbStorage
    kit,          \* EthereumKitState: height, balance and the erc20Holders
    tainted,      \* history: an answer to a request older than clear() was stored
    raced         \* history: both threads wrote erc20Contracts at the same time

vars == <<isReachable, syncState, erc20, timer, flight, db, kit, tainted, raced>>

Height    == 0..MaxHeight
SyncState == {"synced", "syncing", "notSynced"}
AccountTx == PlainTx \cup CreationTx

Registered == {c \in Contract : erc20[c] # None}

\* EthereumKitState.has: the holders are keyed by contract, each with a balance.
NoHolder == [has |-> FALSE, balance |-> None]
Holder(v) == [has |-> TRUE, balance |-> v]

-----------------------------------------------------------------------------
\* Storage.

\* The highest block number among stored rows, 0 when there is none (?? 0).
LastBlock(rows) == IF rows = {} THEN 0 ELSE Max(rows)

\* Mutant: the rows of both kinds are taken together.
LastBlockOfAll == LastBlock((db.account \cap PlainTx) \cup db.token)

\* lastTransactionBlockHeight(erc20: false): rows without a contractAddress.
LastAccountBlock == LastBlock(db.account \cap PlainTx)

\* Mutant: the erc20 request starts where the plain one does.
LastTokenBlockIsAccounts == LastAccountBlock

\* lastTransactionBlockHeight(erc20: true): rows with a contractAddress, which
\* those of contract creations have as well.
LastTokenBlock == LastBlock(db.token \cup (db.account \cap CreationTx))

EmptyDb == [height |-> None, balance |-> None, erc20 |-> [c \in Contract |-> None],
            account |-> {}, token |-> {}]

\* EthereumKit.init: what the kit shows is loaded from storage, no holder yet.
LoadKit(store) == [height |-> store.height, balance |-> store.balance,
                   erc20 |-> [c \in Contract |-> NoHolder]]

\* The transactions a service that answers at height h returns from block start on.
Reply(txs, start, h) == {b \in txs : start <= b /\ b <= h}

-----------------------------------------------------------------------------
\* Requests.

\* One refresh: is its zip out; the start block of its transaction request and
\* of its erc20 transaction request; the contracts whose balance is asked for;
\* stale (history): clear() happened after a start block was chosen.
NoRequests == [zip |-> FALSE, account |-> None, token |-> None,
               balances |-> {}, stale |-> FALSE]

\* The identity the timer thread will use is not available to the main thread.
Free(r) == flight[r] = NoRequests /\ timer.refresh # r

SendZip(r) == flight' = [flight EXCEPT ![r].zip = TRUE]

\* The refresh is over when its last answer has come in.
Answered(q) ==
    IF ~q.zip /\ q.account = None /\ q.token = None /\ q.balances = {}
    THEN NoRequests ELSE q

Resume(r, q) == flight' = [flight EXCEPT ![r] = Answered(q)]

-----------------------------------------------------------------------------
\* Synchronisation states.

SetIfRegistered(states, c, s) == IF states[c] = None THEN None ELSE s

\* changeAllSyncStates on the main thread, when the contracts are those of states.
ChangeAll(states, s) ==
    /\ syncState' = s
    /\ erc20' = [c \in Contract |-> SetIfRegistered(states, c, s)]

\* The guards of refreshAll that follow the one on reachability.
NothingSyncing(states) ==
    /\ syncState # "syncing"
    /\ \A c \in Contract : states[c] # "syncing"

\* refreshAll on the main thread.
RefreshAll(states) ==
    \/ /\ ~isReachable'
       /\ ChangeAll(states, "notSynced")
       /\ UNCHANGED flight
    \/ /\ isReachable'
       /\ ~NothingSyncing(states)
       /\ erc20' = states
       /\ UNCHANGED <<syncState, flight>>
    \/ /\ isReachable'
       /\ NothingSyncing(states)
       /\ ChangeAll(states, "syncing")
       /\ \E r \in Refresh : Free(r) /\ SendZip(r)

-----------------------------------------------------------------------------
\* Where the timer thread is in refreshAll; the state it sets and in which
\* contracts; the refresh it will send; the contract it is writing and the
\* dictionary as it read it.
TimerIdle == [pc |-> "idle", to |-> "notSynced", todo |-> {}, refresh |-> None,
              contract |-> None, copy |-> [c \in Contract |-> None]]

Init ==
    /\ isReachable \in BOOLEAN
    /\ syncState = "notSynced"
    /\ erc20 = [c \in Contract |-> None]
    /\ timer = TimerIdle
    /\ flight = [r \in Refresh |-> NoRequests]
    /\ db = EmptyDb
    /\ kit = LoadKit(EmptyDb)
    /\ tainted = FALSE
    /\ raced = FALSE

\* EthereumKit.start -> ApiBlockchain.start.
Start ==
    /\ UNCHANGED isReachable
    /\ RefreshAll(erc20)
    /\ UNCHANGED <<timer, db, kit, tainted, raced>>

\* ReachabilityManager.onUpdateStatus: the signal runs refreshAll.
ReachabilityChanges ==
    /\ isReachable' = ~isReachable
    /\ RefreshAll(erc20)
    /\ UNCHANGED <<timer, db, kit, tainted, raced>>

\* EthereumKit.register: the holder gets the stored balance, then
\* ApiBlockchain.register adds the contract and refreshes.
Register(c) ==
    /\ ~kit.erc20[c].has
    /\ kit' = [kit EXCEPT !.erc20[c] = Holder(db.erc20[c])]
    /\ UNCHANGED isReachable
    /\ IF erc20[c] # None
       THEN UNCHANGED <<syncState, erc20, flight>>
       ELSE RefreshAll([erc20 EXCEPT ![c] = "notSynced"])
    /\ UNCHANGED <<timer, db, tainted, raced>>

\* EthereumKit.unregister.
Unregister(c) ==
    /\ kit.erc20[c].has \/ erc20[c] # None
    /\ erc20' = [erc20 EXCEPT ![c] = None]
    /\ kit' = [kit EXCEPT !.erc20[c] = NoHolder]
    /\ UNCHANGED <<isReachable, syncState, timer, flight, db, tainted, raced>>

\* EthereumKit.clear: the requests that are out stay out, syncState stays.
Clear ==
    /\ erc20' = [c \in Contract |-> None]
    /\ db' = EmptyDb
    /\ kit' = LoadKit(EmptyDb)
    /\ flight' = [r \in Refresh |->
         [flight[r] EXCEPT !.stale = @ \/ flight[r].account # None
                                       \/ flight[r].token # None]]
    /\ tainted' = FALSE
    /\ UNCHANGED <<isReachable, syncState, timer, raced>>

\* The app is killed and launched again: only the database is kept.
Restart ==
    /\ isReachable' \in BOOLEAN
    /\ syncState' = "notSynced"
    /\ erc20' = [c \in Contract |-> None]
    /\ timer' = TimerIdle
    /\ flight' = [r \in Refresh |-> NoRequests]
    /\ kit' = LoadKit(db)
    /\ raced' = FALSE
    /\ UNCHANGED <<db, tainted>>

-----------------------------------------------------------------------------
\* The timer thread runs refreshAll.

\* It reads isReachable, then syncState.
TimerFires ==
    /\ timer.pc = "idle"
    /\ \/ /\ ~isReachable
          /\ timer' = [timer EXCEPT !.pc = "decided", !.to = "notSynced"]
       \/ /\ isReachable
          /\ syncState # "syncing"
          /\ \E r \in Refresh :
               /\ Free(r)
               /\ timer' = [timer EXCEPT !.pc = "stateRead", !.to = "syncing", !.refresh = r]
    /\ UNCHANGED <<isReachable, syncState, erc20, flight, db, kit, tainted, raced>>

\* Mutant: the timer waits for the contracts to be synced, not for them to end.
TimerWaitsForContracts ==
    /\ timer.pc = "stateRead"
    /\ timer' = IF \E c \in Contract : erc20[c] \in {"syncing", "notSynced"}
                THEN TimerIdle
                ELSE [timer EXCEPT !.pc = "decided"]
    /\ UNCHANGED <<isReachable, syncState, erc20, flight, db, kit, tainted, raced>>

\* It reads the contracts' states and gives up when one is syncing.
TimerReadsContracts ==
    /\ timer.pc = "stateRead"
    /\ timer' = IF \E c \in Contract : erc20[c] = "syncing"
                THEN TimerIdle
                ELSE [timer EXCEPT !.pc = "decided"]
    /\ UNCHANGED <<isReachable, syncState, erc20, flight, db, kit, tainted, raced>>

\* changeAllSyncStates: syncState first, then a copy of the contracts' keys.
TimerSetsState ==
    /\ timer.pc = "decided"
    /\ syncState' = timer.to
    /\ timer' = [timer EXCEPT !.pc = "updating", !.todo = Registered]
    /\ UNCHANGED <<isReachable, erc20, flight, db, kit, tainted, raced>>

\* update(syncState:contractAddress:) for one of them: nothing to do when it was
\* removed meanwhile or is in that state.
TimerReadsContract(c) ==
    /\ timer.pc = "updating"
    /\ c \in timer.todo
    /\ timer' = IF erc20[c] \in {None, timer.to}
                THEN [timer EXCEPT !.todo = @ \ {c}]
                ELSE [timer EXCEPT !.pc = "writing", !.contract = c, !.copy = erc20]
    /\ UNCHANGED <<isReachable, syncState, erc20, flight, db, kit, tainted, raced>>

\* Otherwise the dictionary it read is stored with that change, over what the
\* main thread wrote in between; or the main thread's write is the last one.
TimerStoresContract ==
    /\ timer.pc = "writing"
    /\ \/ erc20' = [timer.copy EXCEPT ![timer.contract] = timer.to]
       \/ erc20 # timer.copy /\ UNCHANGED erc20
    /\ raced' = (raced \/ erc20 # timer.copy)
    /\ timer' = [timer EXCEPT !.pc = "updating", !.todo = @ \ {timer.contract},
                              !.contract = None, !.copy = TimerIdle.copy]
    /\ UNCHANGED <<isReachable, syncState, flight, db, kit, tainted>>

\* It sends the zip request, or is done when the network was down.
TimerSends ==
    /\ timer.pc = "updating"
    /\ timer.todo = {}
    /\ timer' = TimerIdle
    /\ IF timer.to = "syncing" THEN SendZip(timer.refresh) ELSE UNCHANGED flight
    /\ UNCHANGED <<isReachable, syncState, erc20, db, kit, tainted, raced>>

-----------------------------------------------------------------------------
\* Answers, on the main queue.

\* Mutant: an answer that comes when the state is set already is not shown.
ZipShownWhileSyncing(r) ==
    /\ flight[r].zip
    /\ \E h, v \in Reading :
         /\ db' = [db EXCEPT !.height = h, !.balance = v]
         /\ kit' = IF syncState = "syncing"
                   THEN [kit EXCEPT !.height = h, !.balance = v] ELSE kit
    /\ Resume(r, [flight[r] EXCEPT
         !.zip = FALSE,
         !.account = LastAccountBlock + 1,
         !.token = IF Registered = {} THEN None ELSE LastTokenBlock + 1])
    /\ UNCHANGED <<isReachable, syncState, erc20, timer, tainted, raced>>

\* Height and balance arrive: both are stored and shown, then
\* refreshTransactions asks for what the database does not have yet.
ZipSucceeds(r) ==
    /\ flight[r].zip
    /\ \E h, v \in Reading :
         /\ db' = [db EXCEPT !.height = h, !.balance = v]
         /\ kit' = [kit EXCEPT !.height = h, !.balance = v]
    /\ Resume(r, [flight[r] EXCEPT
         !.zip = FALSE,
         !.account = LastAccountBlock + 1,
         !.token = IF Registered = {} THEN None ELSE LastTokenBlock + 1])
    /\ UNCHANGED <<isReachable, syncState, erc20, timer, tainted, raced>>

ZipFails(r) ==
    /\ flight[r].zip
    /\ ChangeAll(erc20, "notSynced")
    /\ Resume(r, [flight[r] EXCEPT !.zip = FALSE])
    /\ UNCHANGED <<isReachable, timer, db, kit, tainted, raced>>

AccountTxsArrive(r) ==
    /\ flight[r].account # None
    /\ \E h \in Height :
         db' = [db EXCEPT !.account = @ \cup Reply(AccountTx, flight[r].account, h)]
    /\ syncState' = "synced"
    /\ tainted' = (tainted \/ flight[r].stale)
    /\ Resume(r, [flight[r] EXCEPT !.account = None])
    /\ UNCHANGED <<isReachable, erc20, timer, kit, raced>>

\* Mutant: the error handler is empty.
AccountTxsFailIgnored(r) ==
    /\ flight[r].account # None
    /\ Resume(r, [flight[r] EXCEPT !.account = None])
    /\ UNCHANGED <<isReachable, syncState, erc20, timer, db, kit, tainted, raced>>

AccountTxsFail(r) ==
    /\ flight[r].account # None
    /\ syncState' = "notSynced"
    /\ Resume(r, [flight[r] EXCEPT !.account = None])
    /\ UNCHANGED <<isReachable, erc20, timer, db, kit, tainted, raced>>

\* updateErc20(transactions:), then refreshErc20Balances asks for the balance
\* of each contract that is registered now.
TokenTxsArrive(r) ==
    /\ flight[r].token # None
    /\ \E h \in Height :
         db' = [db EXCEPT !.token = @ \cup Reply(TokenTx, flight[r].token, h)]
    /\ tainted' = (tainted \/ flight[r].stale)
    /\ Resume(r, [flight[r] EXCEPT !.token = None, !.balances = Registered])
    /\ UNCHANGED <<isReachable, syncState, erc20, timer, kit, raced>>

\* Mutant: the error handler sets the account's state, not the contracts'.
TokenTxsFailForAccount(r) ==
    /\ flight[r].token # None
    /\ syncState' = "notSynced"
    /\ Resume(r, [flight[r] EXCEPT !.token = None])
    /\ UNCHANGED <<isReachable, erc20, timer, db, kit, tainted, raced>>

TokenTxsFail(r) ==
    /\ flight[r].token # None
    /\ erc20' = [c \in Contract |-> SetIfRegistered(erc20, c, "notSynced")]
    /\ Resume(r, [flight[r] EXCEPT !.token = None])
    /\ UNCHANGED <<isReachable, syncState, timer, db, kit, tainted, raced>>

\* The contract may have been unregistered since: its balance is stored anyway.
BalanceArrives(r, c) ==
    /\ c \in flight[r].balances
    /\ \E v \in Reading :
         /\ db' = [db EXCEPT !.erc20[c] = v]
         /\ kit' = IF kit.erc20[c].has THEN [kit EXCEPT !.erc20[c] = Holder(v)] ELSE kit
    /\ erc20' = [erc20 EXCEPT ![c] = SetIfRegistered(erc20, c, "synced")]
    /\ Resume(r, [flight[r] EXCEPT !.balances = @ \ {c}])
    /\ UNCHANGED <<isReachable, syncState, timer, tainted, raced>>

\* Mutant: a contract that was removed meanwhile is put back.
BalanceFailPutsBack(r, c) ==
    /\ c \in flight[r].balances
    /\ erc20' = [erc20 EXCEPT ![c] = "notSynced"]
    /\ Resume(r, [flight[r] EXCEPT !.balances = @ \ {c}])
    /\ UNCHANGED <<isReachable, syncState, timer, db, kit, tainted, raced>>

BalanceFails(r, c) ==
    /\ c \in flight[r].balances
    /\ erc20' = [erc20 EXCEPT ![c] = SetIfRegistered(erc20, c, "notSynced")]
    /\ Resume(r, [flight[r] EXCEPT !.balances = @ \ {c}])
    /\ UNCHANGED <<isReachable, syncState, timer, db, kit, tainted, raced>>

-----------------------------------------------------------------------------
AnswerZip(r)        == ZipSucceeds(r) \/ ZipFails(r)
AnswerAccount(r)    == AccountTxsArrive(r) \/ AccountTxsFail(r)
AnswerToken(r)      == TokenTxsArrive(r) \/ TokenTxsFail(r)
AnswerBalance(r, c) == BalanceArrives(r, c) \/ BalanceFails(r, c)

TimerStep == \/ TimerReadsContracts \/ TimerSetsState \/ TimerStoresContract \/ TimerSends
             \/ \E c \in Contract : TimerReadsContract(c)

User == Start \/ Clear \/ \E c \in Contract : Register(c) \/ Unregister(c)

Next ==
    \/ User
    \/ ReachabilityChanges
    \/ Restart
    \/ TimerFires
    \/ TimerStep
    \/ \E r \in Refresh : AnswerZip(r) \/ AnswerAccount(r) \/ AnswerToken(r)
    \/ \E r \in Refresh, c \in Contract : AnswerBalance(r, c)

Spec == Init /\ [][Next]_vars

\* The timer is periodic and its thread runs on; URLSession answers or times out.
Fairness ==
    /\ WF_vars(TimerFires)
    /\ WF_vars(TimerStep)
    /\ \A r \in Refresh :
         /\ WF_vars(AnswerZip(r))
         /\ WF_vars(AnswerAccount(r))
         /\ WF_vars(AnswerToken(r))
         /\ \A c \in Contract : WF_vars(AnswerBalance(r, c))

FairSpec == Spec /\ Fairness

-----------------------------------------------------------------------------
Flight == [zip : BOOLEAN, account : 1..(MaxHeight + 1) \cup {None},
           token : 1..(MaxHeight + 1) \cup {None},
           balances : SUBSET Contract, stale : BOOLEAN]

TypeOK ==
    /\ isReachable \in BOOLEAN
    /\ syncState \in SyncState
    /\ erc20 \in [Contract -> SyncState \cup {None}]
    /\ timer \in [pc : {"idle", "stateRead", "decided", "updating", "writing"},
                  to : {"syncing", "notSynced"}, todo : SUBSET Contract,
                  refresh : Refresh \cup {None}, contract : Contract \cup {None},
                  copy : [Contract -> SyncState \cup {None}]]
    /\ flight \in [Refresh -> Flight]
    /\ db \in [height : Reading \cup {None}, balance : Reading \cup {None},
               erc20 : [Contract -> Reading \cup {None}],
               account : SUBSET AccountTx, token : SUBSET TokenTx]
    /\ kit \in [height : Reading \cup {None}, balance : Reading \cup {None},
                erc20 : [Contract -> [has : BOOLEAN, balance : Reading \cup {None}]]]
    /\ tainted \in BOOLEAN
    /\ raced \in BOOLEAN

\* The timer thread has set, or is about to set, states to syncing and its
\* request is still to be sent.
TimerWillSend == timer.pc \in {"updating", "writing"} /\ timer.to = "syncing"

\* Nothing is left in state syncing without a pending step that ends it.
\* refreshAll returns early while anything is syncing (lines 70-77), so one
\* orphaned state would stop every later refresh for good.
NoOrphanSyncing ==
    /\ syncState = "syncing" =>
         \/ TimerWillSend
         \/ \E r \in Refresh : flight[r].zip \/ flight[r].account # None
    /\ ~raced => \A c \in Contract : erc20[c] = "syncing" =>
         \/ TimerWillSend
         \/ \E r \in Refresh : \/ flight[r].zip
                               \/ flight[r].token # None
                               \/ c \in flight[r].balances

\* The contracts ApiBlockchain refreshes are those the kit has a delegate for,
\* though the timer thread writes the one and only the main thread the other,
\* unless they wrote at the same time.
HoldersMatchContracts ==
    ~raced => \A c \in Contract : kit.erc20[c].has <=> erc20[c] # None

\* What the kit shows is what is stored, also after unregistering, clearing and
\* late answers: a restart shows the same values again.
KitMirrorsDb ==
    /\ kit.height = db.height
    /\ kit.balance = db.balance
    /\ \A c \in Contract : kit.erc20[c].has => kit.erc20[c].balance = db.erc20[c]

\* A contract reported as synced has a stored balance, also after clear().
SyncedContractHasBalance ==
    ~raced => \A c \in Contract : erc20[c] = "synced" => db.erc20[c] # None

\* The stored history has no gap: refreshTransactions asks from one block above
\* the last stored one, so a block skipped once is never asked for again.
\* Guaranteed unless an answer to a request from before clear() was stored, and
\* then again from the next clear() on.
HistoryHasNoGap ==
    ~tainted => \A b \in AccountTx, top \in db.account : b <= top => b \in db.account

\* The erc20 history may lack a block below its last one only under a stored
\* contract creation, whose row also counts as an erc20 row.
TokenGapsAreUnderCreations ==
    ~tainted => \A b \in TokenTx, top \in db.token :
        b <= top => \/ b \in db.token
                    \/ \E k \in db.account \cap CreationTx : b <= k

\* A refresh ends: neither the account nor a contract stays syncing.
RefreshEnds ==
    /\ (syncState = "syncing") ~> (syncState # "syncing")
    /\ \A c \in Contract : (erc20[c] = "syncing") ~> (erc20[c] # "syncing" \/ raced)

\* A contract registered while a refresh is out is not picked up by it; as long
\* as the network is up some later refresh does.
RegisteredIsRefreshed ==
    \A c \in Contract :
        (erc20[c] = "notSynced" /\ isReachable)
            ~> (erc20[c] # "notSynced" \/ ~isReachable \/ raced)
=============================================================================

------------------------- MODULE ApiBlockchainProofs -------------------------
(***************************************************************************)
(* Proofs about ApiBlockchain, for any sets of contracts and refreshes and  *)
(* any history of the chain.                                                *)
(***************************************************************************)
EXTENDS ApiBlockchain, WellFoundedInduction, TLAPS

(***************************************************************************)
(* Stored block numbers.                                                    *)
(***************************************************************************)

\* A nonempty set of blocks of the chain has a greatest one, and Max is it.
LEMMA MaxOfBlocks ==
    ASSUME NEW S \in SUBSET (1..MaxHeight), S # {}
    PROVE  Max(S) \in S /\ \A b \in S : b <= Max(S)
<1> DEFINE T == {MaxHeight - b : b \in S}
<1>1. T \subseteq Nat /\ T # {}
  <2>1. \A b \in S : MaxHeight - b \in Nat
    BY BlocksAssumption
  <2>2. PICK b \in S : TRUE
    OBVIOUS
  <2>3. MaxHeight - b \in T
    BY <2>2
  <2>4. QED
    BY <2>1, <2>3
<1>2. PICK t \in T : \A u \in T : ~ (<<u, t>> \in OpToRel(<, Nat))
  BY <1>1, NatLessThanWellFounded, WFMin, Zenon
<1>3. \A u \in T : t <= u
  <2>1. \A x, y \in Nat : x < y => <<x, y>> \in OpToRel(<, Nat)
    BY Zenon DEF OpToRel
  <2>2. \A u \in T : u \in Nat /\ t \in Nat /\ ~ (u < t)
    BY <1>1, <1>2, <2>1
  <2>3. QED
    BY <2>2
<1>4. PICK m \in S : t = MaxHeight - m
  BY <1>2
<1>5. \A b \in S : b <= m
  BY <1>3, <1>4, BlocksAssumption
<1>6. QED
  BY <1>5, BlocksAssumption DEF Max

\* What refreshTransactions starts from: the last stored block, or 0.
LEMMA LastBlockOfRows ==
    ASSUME NEW S \in SUBSET (1..MaxHeight)
    PROVE  /\ LastBlock(S) \in 0..MaxHeight
           /\ LastBlock(S) \in S \cup {0}
           /\ \A b \in S : b <= LastBlock(S)
<1>1. CASE S = {}
  BY <1>1, BlocksAssumption DEF LastBlock
<1>2. CASE S # {}
  <2>1. Max(S) \in S /\ \A b \in S : b <= Max(S)
    BY <1>2, MaxOfBlocks
  <2>2. LastBlock(S) = Max(S)
    BY <1>2 DEF LastBlock
  <2>3. LastBlock(S) \in S
    BY <2>1, <2>2
  <2>4. LastBlock(S) \in 0..MaxHeight
    <3>1. \A m \in S : m \in 0..MaxHeight
      BY BlocksAssumption
    <3>2. QED
      BY <2>3, <3>1, Zenon
  <2>5. \A b \in S : b <= LastBlock(S)
    BY <2>1, <2>2, Zenon
  <2>6. QED
    BY <2>3, <2>4, <2>5
<1>3. QED
  BY <1>1, <1>2

(***************************************************************************)
(* Type correctness.                                                        *)
(***************************************************************************)

\* A finished refresh is well typed.
LEMMA NoRequestsType == NoRequests \in Flight
BY DEF NoRequests, Flight

\* Setting fields of a refresh to values of their types keeps its type.
LEMMA FlightUpdates ==
    /\ \A q \in Flight, a, t \in 1..(MaxHeight + 1) \cup {None} :
         [q EXCEPT !.zip = FALSE, !.account = a, !.token = t] \in Flight
    /\ \A q \in Flight, C \in SUBSET Contract :
         [q EXCEPT !.token = None, !.balances = C] \in Flight
    /\ \A q \in Flight, b \in BOOLEAN : [q EXCEPT !.stale = b] \in Flight
    /\ \A q \in Flight : /\ [q EXCEPT !.zip = FALSE] \in Flight
                         /\ [q EXCEPT !.account = None] \in Flight
                         /\ [q EXCEPT !.token = None] \in Flight
<1>0. \A q \in Flight, b \in BOOLEAN : [q EXCEPT !.stale = b] \in Flight
  BY DEF Flight
<1>1. \A q \in Flight : [q EXCEPT !.zip = FALSE] \in Flight
  BY DEF Flight
<1>2. \A q \in Flight, a \in 1..(MaxHeight + 1) \cup {None} :
        [q EXCEPT !.account = a] \in Flight
  BY DEF Flight
<1>3. \A q \in Flight, t \in 1..(MaxHeight + 1) \cup {None} :
        [q EXCEPT !.token = t] \in Flight
  BY DEF Flight
<1>4. \A q \in Flight, C \in SUBSET Contract : [q EXCEPT !.balances = C] \in Flight
  BY DEF Flight
<1>5. \A q, a, t : [q EXCEPT !.zip = FALSE, !.account = a, !.token = t]
        = [[[q EXCEPT !.zip = FALSE] EXCEPT !.account = a] EXCEPT !.token = t]
  BY Zenon
<1>6. \A q, C : [q EXCEPT !.token = None, !.balances = C]
        = [[q EXCEPT !.token = None] EXCEPT !.balances = C]
  BY Zenon
<1>7. None \in 1..(MaxHeight + 1) \cup {None}
  OBVIOUS
<1>8. QED
  BY <1>0, <1>1, <1>2, <1>3, <1>4, <1>5, <1>6, <1>7, Zenon

\* What a refresh goes on with is well typed when its requests are.
LEMMA ResumeType ==
    ASSUME NEW r \in Refresh, NEW q \in Flight, flight \in [Refresh -> Flight],
           Resume(r, q)
    PROVE  flight' \in [Refresh -> Flight]
BY NoRequestsType DEF Resume, Answered

\* Sending a zip request keeps the types of the refreshes.
LEMMA SendZipType ==
    ASSUME NEW r, flight \in [Refresh -> Flight], SendZip(r)
    PROVE  flight' \in [Refresh -> Flight]
BY DEF SendZip, Flight

\* refreshAll sets states and sends at most one request.
LEMMA RefreshAllType ==
    ASSUME TypeOK, NEW states \in [Contract -> SyncState \cup {None}],
           RefreshAll(states)
    PROVE  /\ syncState' \in SyncState
           /\ erc20' \in [Contract -> SyncState \cup {None}]
           /\ flight' \in [Refresh -> Flight]
<1>1. CASE ~isReachable' /\ ChangeAll(states, "notSynced") /\ UNCHANGED flight
  BY <1>1 DEF ChangeAll, SetIfRegistered, SyncState, TypeOK
<1>2. CASE erc20' = states /\ UNCHANGED <<syncState, flight>>
  BY <1>2 DEF TypeOK
<1>3. CASE ChangeAll(states, "syncing") /\ \E r \in Refresh : Free(r) /\ SendZip(r)
  <2>1. flight' \in [Refresh -> Flight]
    BY <1>3, SendZipType DEF TypeOK
  <2>2. QED
    BY <1>3, <2>1 DEF ChangeAll, SetIfRegistered, SyncState
<1>4. QED
  BY <1>1, <1>2, <1>3 DEF RefreshAll

\* The start blocks that ZipSucceeds takes from storage.
LEMMA StartBlocks ==
    ASSUME TypeOK
    PROVE  /\ LastAccountBlock + 1 \in 1..(MaxHeight + 1)
           /\ LastTokenBlock + 1 \in 1..(MaxHeight + 1)
<1>1. /\ db.account \cap PlainTx \in SUBSET (1..MaxHeight)
      /\ db.token \cup (db.account \cap CreationTx) \in SUBSET (1..MaxHeight)
  BY BlocksAssumption DEF TypeOK, AccountTx
<1>2. LastAccountBlock \in 0..MaxHeight /\ LastTokenBlock \in 0..MaxHeight
  BY <1>1, LastBlockOfRows, Zenon DEF LastAccountBlock, LastTokenBlock
<1>3. \A m \in 0..MaxHeight : m + 1 \in 1..(MaxHeight + 1)
  BY BlocksAssumption
<1>4. QED
  BY <1>2, <1>3, Zenon

\* The state after launch is well typed.
LEMMA InitType == Init => TypeOK
<1> SUFFICES ASSUME Init PROVE TypeOK
  OBVIOUS
<1>1. flight \in [Refresh -> Flight]
  BY NoRequestsType DEF Init
<1>2. /\ db \in [height : Reading \cup {None}, balance : Reading \cup {None},
                erc20 : [Contract -> Reading \cup {None}],
                account : SUBSET AccountTx, token : SUBSET TokenTx]
      /\ kit \in [height : Reading \cup {None}, balance : Reading \cup {None},
                 erc20 : [Contract -> [has : BOOLEAN, balance : Reading \cup {None}]]]
  BY DEF Init, EmptyDb, LoadKit, NoHolder
<1>3. QED
  BY <1>1, <1>2 DEF Init, TypeOK, SyncState, TimerIdle

\* A state that is set for a registered contract only is well typed.
LEMMA SetIfRegisteredType ==
    ASSUME NEW states \in [Contract -> SyncState \cup {None}], NEW c \in Contract,
           NEW s \in SyncState
    PROVE  SetIfRegistered(states, c, s) \in SyncState \cup {None}
BY DEF SetIfRegistered

\* The public calls keep every type.
LEMMA UserType == ASSUME TypeOK, User PROVE TypeOK'
<1> USE DEF TypeOK
<1>1. CASE Start
  <2>1. RefreshAll(erc20)
    BY <1>1 DEF Start
  <2>2. QED
    BY <1>1, <2>1, RefreshAllType DEF Start
<1>2. CASE Clear
  <2>1. EmptyDb \in [height : Reading \cup {None}, balance : Reading \cup {None},
                     erc20 : [Contract -> Reading \cup {None}],
                     account : SUBSET AccountTx, token : SUBSET TokenTx]
    BY DEF EmptyDb
  <2>2. LoadKit(EmptyDb) \in
          [height : Reading \cup {None}, balance : Reading \cup {None},
           erc20 : [Contract -> [has : BOOLEAN, balance : Reading \cup {None}]]]
    BY DEF EmptyDb, LoadKit, NoHolder
  <2>3. flight' \in [Refresh -> Flight]
    <3>1. ASSUME NEW r \in Refresh
          PROVE  [flight[r] EXCEPT !.stale = @ \/ flight[r].account # None
                                               \/ flight[r].token # None] \in Flight
      <4>1. (flight[r].stale \/ flight[r].account # None \/ flight[r].token # None) \in BOOLEAN
        OBVIOUS
      <4>2. flight[r] \in Flight
        OBVIOUS
      <4>3. QED
        BY <4>1, <4>2, FlightUpdates, Zenon
    <3>2. QED
      BY <1>2, <3>1 DEF Clear
  <2>4. QED
    BY <1>2, <2>1, <2>2, <2>3 DEF Clear
<1>3. ASSUME NEW c \in Contract, Register(c)
      PROVE  TypeOK'
  <2>1. kit' \in [height : Reading \cup {None}, balance : Reading \cup {None},
                  erc20 : [Contract -> [has : BOOLEAN, balance : Reading \cup {None}]]]
    BY <1>3 DEF Register, Holder
  <2>2. CASE erc20[c] # None
    BY <1>3, <2>1, <2>2 DEF Register
  <2>3. CASE erc20[c] = None
    <3>1. RefreshAll([erc20 EXCEPT ![c] = "notSynced"])
      BY <1>3, <2>3 DEF Register
    <3>2. [erc20 EXCEPT ![c] = "notSynced"] \in [Contract -> SyncState \cup {None}]
      BY DEF SyncState
    <3>3. QED
      BY <1>3, <2>1, <3>1, <3>2, RefreshAllType DEF Register
  <2>4. QED
    BY <2>2, <2>3
<1>4. ASSUME NEW c \in Contract, Unregister(c)
      PROVE  TypeOK'
  BY <1>4 DEF Unregister, NoHolder
<1>5. QED
  BY <1>1, <1>2, <1>3, <1>4 DEF User

\* The timer thread keeps every type.
LEMMA TimerType == ASSUME TypeOK, TimerFires \/ TimerStep PROVE TypeOK'
<1> USE DEF TypeOK
<1>1. CASE TimerFires
  BY <1>1 DEF TimerFires
<1>2. CASE TimerReadsContracts
  BY <1>2 DEF TimerReadsContracts, TimerIdle
<1>3. CASE TimerSetsState
  BY <1>3 DEF TimerSetsState, Registered, SyncState
<1>4. ASSUME NEW c \in Contract, TimerReadsContract(c)
      PROVE  TypeOK'
  BY <1>4 DEF TimerReadsContract
<1>5. CASE TimerSends
  <2>1. flight' \in [Refresh -> Flight]
    BY <1>5, SendZipType DEF TimerSends
  <2>2. QED
    BY <1>5, <2>1 DEF TimerSends, TimerIdle
<1>6. CASE TimerStoresContract
  <2>1. erc20' \in [Contract -> SyncState \cup {None}]
    BY <1>6 DEF TimerStoresContract, SyncState
  <2>2. QED
    BY <1>6, <2>1 DEF TimerStoresContract, TimerIdle
<1>7. QED
  BY <1>1, <1>2, <1>3, <1>4, <1>5, <1>6 DEF TimerStep

\* The answers to a zip or transaction request keep every type.
LEMMA AnswerType ==
    ASSUME TypeOK, NEW r \in Refresh, AnswerZip(r) \/ AnswerAccount(r) \/ AnswerToken(r)
    PROVE  TypeOK'
<1> USE DEF TypeOK
<1>0. flight[r] \in Flight
  OBVIOUS
<1>1. CASE ZipSucceeds(r)
  <2> DEFINE q == [flight[r] EXCEPT
         !.zip = FALSE,
         !.account = LastAccountBlock + 1,
         !.token = IF Registered = {} THEN None ELSE LastTokenBlock + 1]
  <2>1. q \in Flight
    <3>1. \A a \in 1..(MaxHeight + 1), t \in 1..(MaxHeight + 1) \cup {None} :
            [flight[r] EXCEPT !.zip = FALSE, !.account = a, !.token = t] \in Flight
      BY FlightUpdates, Zenon
    <3>2. (IF Registered = {} THEN None ELSE LastTokenBlock + 1) \in 1..(MaxHeight + 1) \cup {None}
      BY StartBlocks, Zenon
    <3>3. QED
      BY <3>1, <3>2, StartBlocks, Zenon
  <2>2. Resume(r, q)
    BY <1>1 DEF ZipSucceeds
  <2>3. flight' \in [Refresh -> Flight]
    BY <2>1, <2>2, ResumeType
  <2>4. QED
    BY <1>1, <2>3 DEF ZipSucceeds
<1>2. CASE ZipFails(r)
  <2> DEFINE q == [flight[r] EXCEPT !.zip = FALSE]
  <2>1. q \in Flight /\ Resume(r, q)
    BY <1>2, <1>0, FlightUpdates, Zenon DEF ZipFails
  <2>2. flight' \in [Refresh -> Flight]
    BY <2>1, ResumeType
  <2>3. QED
    BY <1>2, <2>2 DEF ZipFails, ChangeAll, SetIfRegistered, SyncState
<1>3. CASE AccountTxsArrive(r)
  <2> DEFINE q == [flight[r] EXCEPT !.account = None]
  <2>1. q \in Flight /\ Resume(r, q)
    BY <1>3, <1>0, FlightUpdates, Zenon DEF AccountTxsArrive
  <2>2. flight' \in [Refresh -> Flight]
    BY <2>1, ResumeType
  <2>3. QED
    BY <1>3, <2>2 DEF AccountTxsArrive, SyncState, Reply
<1>4. CASE AccountTxsFail(r)
  <2> DEFINE q == [flight[r] EXCEPT !.account = None]
  <2>1. q \in Flight /\ Resume(r, q)
    BY <1>4, <1>0, FlightUpdates, Zenon DEF AccountTxsFail
  <2>2. flight' \in [Refresh -> Flight]
    BY <2>1, ResumeType
  <2>3. QED
    BY <1>4, <2>2 DEF AccountTxsFail, SyncState
<1>5. CASE TokenTxsArrive(r)
  <2> DEFINE q == [flight[r] EXCEPT !.token = None, !.balances = Registered]
  <2>1. q \in Flight
    <3>1. \A C \in SUBSET Contract :
            [flight[r] EXCEPT !.token = None, !.balances = C] \in Flight
      BY FlightUpdates, Zenon
    <3>2. Registered \in SUBSET Contract
      BY DEF Registered
    <3>3. QED
      BY <3>1, <3>2, Zenon
  <2>2. flight' \in [Refresh -> Flight]
    BY <1>5, <2>1, ResumeType DEF TokenTxsArrive
  <2>3. QED
    BY <1>5, <2>2 DEF TokenTxsArrive, Reply
<1>6. CASE TokenTxsFail(r)
  <2> DEFINE q == [flight[r] EXCEPT !.token = None]
  <2>1. q \in Flight /\ Resume(r, q)
    BY <1>6, <1>0, FlightUpdates, Zenon DEF TokenTxsFail
  <2>2. flight' \in [Refresh -> Flight]
    BY <2>1, ResumeType
  <2>3. QED
    BY <1>6, <2>2 DEF TokenTxsFail, SetIfRegistered, SyncState
<1>7. QED
  BY <1>1, <1>2, <1>3, <1>4, <1>5, <1>6 DEF AnswerZip, AnswerAccount, AnswerToken

\* The answer to a balance request keeps every type.
LEMMA BalanceType ==
    ASSUME TypeOK, NEW r \in Refresh, NEW c \in Contract, AnswerBalance(r, c)
    PROVE  TypeOK'
<1> USE DEF TypeOK
<1> DEFINE q == [flight[r] EXCEPT !.balances = @ \ {c}]
<1>1. q \in Flight
  <2>1. \A C \in SUBSET Contract : [flight[r] EXCEPT !.balances = C] \in Flight
    BY DEF Flight
  <2>2. flight[r].balances \ {c} \in SUBSET Contract
    BY DEF Flight
  <2>3. q = [flight[r] EXCEPT !.balances = flight[r].balances \ {c}]
    BY DEF Flight
  <2>4. QED
    BY <2>1, <2>2, <2>3, Zenon
<1>2. flight' \in [Refresh -> Flight]
  BY <1>1, ResumeType DEF AnswerBalance, BalanceArrives, BalanceFails
<1>3. CASE BalanceArrives(r, c)
  <2> PICK v \in Reading :
         /\ db' = [db EXCEPT !.erc20[c] = v]
         /\ kit' = IF kit.erc20[c].has THEN [kit EXCEPT !.erc20[c] = Holder(v)] ELSE kit
    BY <1>3 DEF BalanceArrives
  <2>1. kit' \in [height : Reading \cup {None}, balance : Reading \cup {None},
                  erc20 : [Contract -> [has : BOOLEAN, balance : Reading \cup {None}]]]
    <3>1. Holder(v) \in [has : BOOLEAN, balance : Reading \cup {None}]
      BY DEF Holder
    <3>2. CASE kit.erc20[c].has
      BY <3>1, <3>2
    <3>3. CASE ~kit.erc20[c].has
      BY <3>3
    <3>4. QED
      BY <3>2, <3>3
  <2>2. db' \in [height : Reading \cup {None}, balance : Reading \cup {None},
                 erc20 : [Contract -> Reading \cup {None}],
                 account : SUBSET AccountTx, token : SUBSET TokenTx]
    OBVIOUS
  <2>3. QED
    BY <1>2, <1>3, <2>1, <2>2 DEF BalanceArrives, SetIfRegistered, SyncState
<1>4. CASE BalanceFails(r, c)
  BY <1>2, <1>4 DEF BalanceFails, SetIfRegistered, SyncState
<1>5. QED
  BY <1>3, <1>4 DEF AnswerBalance

\* Every variable keeps its type (the types of the code's fields and columns).
THEOREM TypeCorrect == Spec => []TypeOK
<1>1. TypeOK /\ [Next]_vars => TypeOK'
  <2> SUFFICES ASSUME TypeOK, [Next]_vars PROVE TypeOK'
    OBVIOUS
  <2>1. CASE ReachabilityChanges
    <3>1. RefreshAll(erc20)
      BY <2>1 DEF ReachabilityChanges
    <3>2. QED
      BY <2>1, <3>1, RefreshAllType DEF ReachabilityChanges, TypeOK
  <2>2. CASE Restart
    BY <2>2, NoRequestsType DEF Restart, TypeOK, SyncState, TimerIdle, LoadKit, NoHolder
  <2>3. CASE UNCHANGED vars
    BY <2>3 DEF TypeOK, vars
  <2>4. QED
    BY <2>1, <2>2, <2>3, UserType, TimerType, AnswerType, BalanceType DEF Next
<1>2. QED
  BY InitType, <1>1, PTL DEF Spec

(***************************************************************************)
(* What an answer leaves of its refresh.                                    *)
(***************************************************************************)

\* The refresh r waits for the requests given, all others for theirs as before;
\* it stays a request from before clear() when it was one.
After(r, zip, account, token, balances) ==
    /\ flight'[r].zip = zip
    /\ flight'[r].account = account
    /\ flight'[r].token = token
    /\ flight'[r].balances = balances
    /\ account # None \/ token # None => flight'[r].stale = flight[r].stale
    /\ \A s \in Refresh : s # r => flight'[s] = flight[s]

\* Resume leaves what it is given, whether or not that ends the refresh.
LEMMA ResumeFields ==
    ASSUME NEW r \in Refresh, NEW q \in Flight, flight \in [Refresh -> Flight],
           Resume(r, q)
    PROVE  /\ flight'[r].zip = q.zip /\ flight'[r].account = q.account
           /\ flight'[r].token = q.token /\ flight'[r].balances = q.balances
           /\ q.account # None \/ q.token # None => flight'[r].stale = q.stale
           /\ \A s \in Refresh : s # r => flight'[s] = flight[s]
<1>1. flight' = [flight EXCEPT ![r] = Answered(q)]
  BY DEF Resume
<1>2. flight'[r] = Answered(q) /\ \A s \in Refresh : s # r => flight'[s] = flight[s]
  BY <1>1
<1>3. CASE ~q.zip /\ q.account = None /\ q.token = None /\ q.balances = {}
  <2>1. Answered(q) = NoRequests
    BY <1>3 DEF Answered
  <2>2. /\ flight'[r].zip = FALSE /\ flight'[r].account = None /\ flight'[r].token = None
        /\ flight'[r].balances = {} /\ flight'[r].stale = FALSE
    BY <1>2, <2>1 DEF NoRequests
  <2>3. q.zip = FALSE
    BY <1>3 DEF Flight
  <2>4. QED
    BY <1>2, <1>3, <2>2, <2>3, Zenon
<1>4. CASE ~(~q.zip /\ q.account = None /\ q.token = None /\ q.balances = {})
  BY <1>2, <1>4, Zenon DEF Answered
<1>5. QED
  BY <1>3, <1>4

\* After its zip request a refresh waits for its transaction requests.
LEMMA ZipSucceedsFlight ==
    ASSUME TypeOK, NEW r \in Refresh, ZipSucceeds(r)
    PROVE  After(r, FALSE, LastAccountBlock + 1,
                 IF Registered = {} THEN None ELSE LastTokenBlock + 1, flight[r].balances)
<1> DEFINE a == LastAccountBlock + 1
           t == IF Registered = {} THEN None ELSE LastTokenBlock + 1
           q == [flight[r] EXCEPT !.zip = FALSE, !.account = a, !.token = t]
<1>1. flight[r] \in Flight /\ flight \in [Refresh -> Flight]
  BY DEF TypeOK
<1>2. a \in 1..(MaxHeight + 1) \cup {None} /\ t \in 1..(MaxHeight + 1) \cup {None}
  BY StartBlocks, Zenon
<1>3. Resume(r, q)
  BY DEF ZipSucceeds
<1> HIDE DEF a, t
<1>4. q \in Flight
  BY <1>1, <1>2, FlightUpdates, Zenon
<1>5. DOMAIN flight[r] = {"zip", "account", "token", "balances", "stale"}
  BY <1>1 DEF Flight
<1>6. /\ q.zip = FALSE /\ q.account = a /\ q.token = t
      /\ q.balances = flight[r].balances /\ q.stale = flight[r].stale
  <2> DEFINE p1 == [flight[r] EXCEPT !.zip = FALSE]
             p2 == [p1 EXCEPT !.account = a]
             p3 == [p2 EXCEPT !.token = t]
  <2>1. q = p3
    BY Zenon
  <2>2. /\ p3.zip = FALSE /\ p3.account = a /\ p3.token = t
        /\ p3.balances = flight[r].balances /\ p3.stale = flight[r].stale
    BY <1>5, Zenon
  <2> HIDE DEF q, p3
  <2>3. QED
    BY <2>1, <2>2, Zenon
<1> HIDE DEF q
<1>7. After(r, FALSE, a, t, flight[r].balances)
  BY <1>1, <1>3, <1>4, <1>6, ResumeFields, Zenon DEF After
<1>8. QED
  BY <1>7 DEF a, t

\* After its erc20 transactions a refresh waits for the balances.
LEMMA TokenTxsArriveFlight ==
    ASSUME TypeOK, NEW r \in Refresh, TokenTxsArrive(r)
    PROVE  After(r, flight[r].zip, flight[r].account, None, Registered)
<1> DEFINE q == [flight[r] EXCEPT !.token = None, !.balances = Registered]
<1>1. flight[r] \in Flight /\ flight \in [Refresh -> Flight] /\ Registered \in SUBSET Contract
  BY DEF TypeOK, Registered
<1>2. q \in Flight
  BY <1>1, FlightUpdates, Zenon
<1>3. Resume(r, q)
  BY DEF TokenTxsArrive
<1>4. DOMAIN flight[r] = {"zip", "account", "token", "balances", "stale"}
  BY <1>1 DEF Flight
<1>5. /\ q.zip = flight[r].zip /\ q.account = flight[r].account /\ q.token = None
      /\ q.balances = Registered /\ q.stale = flight[r].stale
  <2> DEFINE p1 == [flight[r] EXCEPT !.token = None]
             p2 == [p1 EXCEPT !.balances = Registered]
  <2>1. q = p2
    BY Zenon
  <2>2. /\ p2.zip = flight[r].zip /\ p2.account = flight[r].account /\ p2.token = None
        /\ p2.balances = Registered /\ p2.stale = flight[r].stale
    BY <1>4, Zenon
  <2> HIDE DEF q, p2
  <2>3. QED
    BY <2>1, <2>2, Zenon
<1> HIDE DEF q
<1>6. QED
  BY <1>1, <1>2, <1>3, <1>5, ResumeFields, Zenon DEF After

\* Every other answer only removes the request it answers.
LEMMA AnswerFlight ==
    ASSUME TypeOK, NEW r \in Refresh
    PROVE  /\ ZipFails(r) =>
                After(r, FALSE, flight[r].account, flight[r].token, flight[r].balances)
           /\ AccountTxsArrive(r) \/ AccountTxsFail(r) =>
                After(r, flight[r].zip, None, flight[r].token, flight[r].balances)
           /\ TokenTxsFail(r) =>
                After(r, flight[r].zip, flight[r].account, None, flight[r].balances)
           /\ \A c \in Contract : AnswerBalance(r, c) =>
                After(r, flight[r].zip, flight[r].account, flight[r].token,
                      flight[r].balances \ {c})
<1>1. flight[r] \in Flight /\ flight \in [Refresh -> Flight]
  BY DEF TypeOK
<1>2. ASSUME ZipFails(r)
      PROVE  After(r, FALSE, flight[r].account, flight[r].token, flight[r].balances)
  <2> DEFINE q == [flight[r] EXCEPT !.zip = FALSE]
  <2>1. q \in Flight /\ Resume(r, q)
    BY <1>1, <1>2 DEF Flight, ZipFails
  <2>2. /\ q.zip = FALSE /\ q.account = flight[r].account /\ q.token = flight[r].token
        /\ q.balances = flight[r].balances /\ q.stale = flight[r].stale
    BY <1>1 DEF Flight
  <2> HIDE DEF q
  <2>3. QED
    BY <1>1, <2>1, <2>2, ResumeFields, Zenon DEF After
<1>3. ASSUME AccountTxsArrive(r) \/ AccountTxsFail(r)
      PROVE  After(r, flight[r].zip, None, flight[r].token, flight[r].balances)
  <2> DEFINE q == [flight[r] EXCEPT !.account = None]
  <2>1. q \in Flight /\ Resume(r, q)
    BY <1>1, <1>3 DEF Flight, AccountTxsArrive, AccountTxsFail
  <2>2. /\ q.zip = flight[r].zip /\ q.account = None /\ q.token = flight[r].token
        /\ q.balances = flight[r].balances /\ q.stale = flight[r].stale
    BY <1>1 DEF Flight
  <2> HIDE DEF q
  <2>3. QED
    BY <1>1, <2>1, <2>2, ResumeFields, Zenon DEF After
<1>4. ASSUME TokenTxsFail(r)
      PROVE  After(r, flight[r].zip, flight[r].account, None, flight[r].balances)
  <2> DEFINE q == [flight[r] EXCEPT !.token = None]
  <2>1. q \in Flight /\ Resume(r, q)
    BY <1>1, <1>4 DEF Flight, TokenTxsFail
  <2>2. /\ q.zip = flight[r].zip /\ q.account = flight[r].account /\ q.token = None
        /\ q.balances = flight[r].balances /\ q.stale = flight[r].stale
    BY <1>1 DEF Flight
  <2> HIDE DEF q
  <2>3. QED
    BY <1>1, <2>1, <2>2, ResumeFields, Zenon DEF After
<1>5. ASSUME NEW c \in Contract, AnswerBalance(r, c)
      PROVE  After(r, flight[r].zip, flight[r].account, flight[r].token,
                   flight[r].balances \ {c})
  <2> DEFINE q == [flight[r] EXCEPT !.balances = @ \ {c}]
  <2>1. flight[r].balances \ {c} \in SUBSET Contract
    BY <1>1 DEF Flight
  <2>2. q = [flight[r] EXCEPT !.balances = flight[r].balances \ {c}]
    OBVIOUS
  <2>3. \A C \in SUBSET Contract : [flight[r] EXCEPT !.balances = C] \in Flight
    BY <1>1 DEF Flight
  <2>4. q \in Flight /\ Resume(r, q)
    BY <1>5, <2>1, <2>2, <2>3, Zenon DEF AnswerBalance, BalanceArrives, BalanceFails
  <2>5. /\ q.zip = flight[r].zip /\ q.account = flight[r].account
        /\ q.token = flight[r].token /\ q.balances = flight[r].balances \ {c}
        /\ q.stale = flight[r].stale
    BY <1>1 DEF Flight
  <2> HIDE DEF q
  <2>6. QED
    BY <1>1, <2>4, <2>5, ResumeFields, Zenon DEF After
<1>6. QED
  BY <1>2, <1>3, <1>4, <1>5, Zenon

(***************************************************************************)
(* The contracts of the kit and of its blockchain.                          *)
(***************************************************************************)

\* An absent contract is in no synchronisation state.
LEMMA NoneIsNoState ==
    None # "synced" /\ None # "syncing" /\ None # "notSynced"
BY NoneAssumption

\* refreshAll neither adds nor removes a contract and makes none synced.
LEMMA RefreshAllContracts ==
    ASSUME NEW states \in [Contract -> SyncState \cup {None}], RefreshAll(states)
    PROVE  \A c \in Contract : /\ erc20'[c] = None <=> states[c] = None
                               /\ erc20'[c] = "synced" => states[c] = "synced"
<1>1. CASE erc20' = states
  BY <1>1
<1>2. ASSUME NEW s \in {"syncing", "notSynced"}, ChangeAll(states, s)
      PROVE  \A c \in Contract : /\ erc20'[c] = None <=> states[c] = None
                                 /\ erc20'[c] = "synced" => states[c] = "synced"
  BY <1>2, NoneIsNoState DEF ChangeAll, SetIfRegistered
<1>3. QED
  BY <1>1, <1>2, Zenon DEF RefreshAll

\* The contract the timer thread is writing was registered when it read the
\* dictionary.
WritesRegistered ==
    timer.pc = "writing" => timer.contract \in Contract /\ timer.copy[timer.contract] # None

\* At launch the timer thread writes nothing.
LEMMA WritesInit == Init => WritesRegistered
BY DEF Init, TimerIdle, WritesRegistered

\* No step changes what the timer thread has read.
LEMMA WritesStep ==
    ASSUME TypeOK, WritesRegistered, [Next]_vars
    PROVE  WritesRegistered'
<1>1. CASE UNCHANGED timer
  BY <1>1 DEF WritesRegistered
<1>2. CASE Restart \/ TimerFires \/ TimerReadsContracts \/ TimerSetsState \/ TimerSends
           \/ TimerStoresContract
  <2>1. timer'.pc # "writing"
    <3>1. CASE Restart \/ TimerReadsContracts \/ TimerSends
      BY <3>1 DEF Restart, TimerReadsContracts, TimerSends, TimerIdle, TypeOK
    <3>2. CASE TimerFires \/ TimerSetsState
      BY <3>2 DEF TimerFires, TimerSetsState, TypeOK
    <3>3. CASE TimerStoresContract
      BY <3>3 DEF TimerStoresContract, TypeOK
    <3>4. QED
      BY <1>2, <3>1, <3>2, <3>3
  <2>2. QED
    BY <2>1 DEF WritesRegistered
<1>3. ASSUME NEW c \in Contract, TimerReadsContract(c)
      PROVE  WritesRegistered'
  BY <1>3 DEF TimerReadsContract, WritesRegistered, TypeOK
<1>4. Next => \/ UNCHANGED timer
              \/ Restart \/ TimerFires \/ TimerReadsContracts \/ TimerSetsState \/ TimerSends
              \/ TimerStoresContract \/ \E c \in Contract : TimerReadsContract(c)
  BY DEF Next, User, Start, Clear, Register, Unregister, ReachabilityChanges, TimerStep,
     AnswerZip, ZipSucceeds, ZipFails, AnswerAccount, AccountTxsArrive, AccountTxsFail,
     AnswerToken, TokenTxsArrive, TokenTxsFail, AnswerBalance, BalanceArrives, BalanceFails
<1>5. QED
  BY <1>1, <1>2, <1>3, <1>4 DEF vars

\* The timer's write changes one registered contract to the timer's state, unless
\* the main thread wrote at the same time.
LEMMA StoreInPlace ==
    ASSUME TypeOK, WritesRegistered, TimerStoresContract, ~raced'
    PROVE  /\ ~raced
           /\ \A c \in Contract : /\ erc20'[c] = None <=> erc20[c] = None
                                 /\ erc20'[c] \in {erc20[c], timer.to}
<1>1. ~raced /\ erc20 = timer.copy
  BY DEF TimerStoresContract, TypeOK
<1>2. erc20' = [erc20 EXCEPT ![timer.contract] = timer.to] /\ erc20[timer.contract] # None
  BY <1>1 DEF TimerStoresContract, WritesRegistered
<1>3. QED
  BY <1>1, <1>2, NoneIsNoState DEF TypeOK

\* At launch there is neither a holder nor a contract.
LEMMA HoldersInit == Init => HoldersMatchContracts
BY DEF Init, LoadKit, NoHolder, HoldersMatchContracts

\* Every step that adds or removes the one does so with the other.
LEMMA HoldersStep ==
    ASSUME TypeOK, WritesRegistered, HoldersMatchContracts, [Next]_vars
    PROVE  HoldersMatchContracts'
<1> USE DEF HoldersMatchContracts
<1> erc20 \in [Contract -> SyncState \cup {None}]
  BY DEF TypeOK
<1>1. CASE Start \/ ReachabilityChanges
  BY <1>1, RefreshAllContracts DEF Start, ReachabilityChanges
<1>2. CASE Clear \/ Restart
  BY <1>2 DEF Clear, Restart, LoadKit, NoHolder
<1>3. ASSUME NEW c \in Contract, Register(c)
      PROVE  HoldersMatchContracts'
  <2> DEFINE states == [erc20 EXCEPT ![c] = "notSynced"]
  <2>1. /\ kit'.erc20[c].has
        /\ \A d \in Contract : d # c => kit'.erc20[d] = kit.erc20[d]
    BY <1>3 DEF Register, Holder, TypeOK
  <2>2. /\ erc20'[c] # None
        /\ \A d \in Contract : d # c => (erc20'[d] = None <=> erc20[d] = None)
    <3>1. CASE erc20[c] # None
      BY <1>3, <3>1 DEF Register
    <3>2. CASE erc20[c] = None
      <4>1. states \in [Contract -> SyncState \cup {None}] /\ RefreshAll(states)
        BY <1>3, <3>2 DEF Register, SyncState
      <4>2. \A d \in Contract : erc20'[d] = None <=> states[d] = None
        BY <4>1, RefreshAllContracts
      <4>3. QED
        BY <4>2, NoneIsNoState
    <3>3. QED
      BY <3>1, <3>2
  <2>3. UNCHANGED raced
    BY <1>3 DEF Register
  <2>4. QED
    BY <2>1, <2>2, <2>3
<1>4. ASSUME NEW c \in Contract, Unregister(c)
      PROVE  HoldersMatchContracts'
  BY <1>4 DEF Unregister, NoHolder, TypeOK
<1>5. CASE TimerFires \/ TimerReadsContracts \/ TimerSetsState \/ TimerSends
  BY <1>5 DEF TimerFires, TimerReadsContracts, TimerSetsState, TimerSends
<1>6. CASE TimerStoresContract \/ \E c \in Contract : TimerReadsContract(c)
  <2>1. ~raced' => ~raced /\ kit' = kit
    BY <1>6 DEF TimerStoresContract, TimerReadsContract
  <2>2. ~raced' => \A c \in Contract : erc20'[c] = None <=> erc20[c] = None
    BY <1>6, StoreInPlace DEF TimerReadsContract
  <2>3. QED
    BY <2>1, <2>2
<1>7. ASSUME NEW r \in Refresh, AnswerZip(r) \/ AnswerAccount(r) \/ AnswerToken(r)
      PROVE  HoldersMatchContracts'
  <2>1. \A c \in Contract : erc20'[c] = None <=> erc20[c] = None
    BY <1>7, NoneIsNoState DEF AnswerZip, ZipSucceeds, ZipFails, ChangeAll, AnswerAccount,
       AccountTxsArrive, AccountTxsFail, AnswerToken, TokenTxsArrive, TokenTxsFail,
       SetIfRegistered
  <2>2. kit'.erc20 = kit.erc20
    BY <1>7 DEF AnswerZip, ZipSucceeds, ZipFails, AnswerAccount, AccountTxsArrive,
       AccountTxsFail, AnswerToken, TokenTxsArrive, TokenTxsFail, TypeOK
  <2>3. UNCHANGED raced
    BY <1>7 DEF AnswerZip, ZipSucceeds, ZipFails, AnswerAccount, AccountTxsArrive,
       AccountTxsFail, AnswerToken, TokenTxsArrive, TokenTxsFail
  <2>4. QED
    BY <2>1, <2>2, <2>3
<1>8. ASSUME NEW r \in Refresh, NEW c \in Contract, AnswerBalance(r, c)
      PROVE  HoldersMatchContracts'
  <2>1. \A d \in Contract : erc20'[d] = None <=> erc20[d] = None
    BY <1>8, NoneIsNoState DEF AnswerBalance, BalanceArrives, BalanceFails, SetIfRegistered
  <2>2. \A d \in Contract : kit'.erc20[d].has <=> kit.erc20[d].has
    BY <1>8 DEF AnswerBalance, BalanceArrives, BalanceFails, Holder, TypeOK
  <2>3. UNCHANGED raced
    BY <1>8 DEF AnswerBalance, BalanceArrives, BalanceFails
  <2>4. QED
    BY <2>1, <2>2, <2>3
<1>9. CASE UNCHANGED vars
  BY <1>9 DEF vars
<1>10. QED
  BY <1>1, <1>2, <1>3, <1>4, <1>5, <1>6, <1>7, <1>8, <1>9 DEF Next, User, TimerStep

\* The blockchain refreshes the contracts the kit has a holder for, and no other.
THEOREM HoldersMatch == Spec => []HoldersMatchContracts
BY TypeCorrect, WritesInit, WritesStep, HoldersInit, HoldersStep, PTL DEF Spec

(***************************************************************************)
(* What the kit shows and what is stored.                                   *)
(***************************************************************************)

\* At launch the kit shows what is stored: nothing.
LEMMA MirrorInit == Init => KitMirrorsDb
BY DEF Init, LoadKit, EmptyDb, NoHolder, KitMirrorsDb

\* Every step that stores a value shows it, and the other way round.
LEMMA MirrorStep ==
    ASSUME TypeOK, KitMirrorsDb, [Next]_vars
    PROVE  KitMirrorsDb'
<1> USE DEF KitMirrorsDb
<1>1. CASE UNCHANGED <<db, kit>>
  BY <1>1
<1>2. CASE Clear \/ Restart
  BY <1>2 DEF Clear, Restart, LoadKit, EmptyDb, NoHolder
<1>3. ASSUME NEW c \in Contract, Register(c) \/ Unregister(c)
      PROVE  KitMirrorsDb'
  <2> DEFINE h == IF Register(c) THEN Holder(db.erc20[c]) ELSE NoHolder
  <2>1. kit' = [kit EXCEPT !.erc20[c] = h] /\ UNCHANGED db
    BY <1>3 DEF Register, Unregister
  <2>2. h.has => h.balance = db.erc20[c]
    BY DEF Holder, NoHolder
  <2> HIDE DEF h
  <2>3. QED
    BY <2>1, <2>2 DEF TypeOK
<1>4. ASSUME NEW r \in Refresh, ZipSucceeds(r)
      PROVE  KitMirrorsDb'
  BY <1>4 DEF ZipSucceeds, TypeOK
<1>5. ASSUME NEW r \in Refresh, AccountTxsArrive(r) \/ TokenTxsArrive(r)
      PROVE  KitMirrorsDb'
  BY <1>5 DEF AccountTxsArrive, TokenTxsArrive, TypeOK
<1>6. ASSUME NEW r \in Refresh, NEW c \in Contract, BalanceArrives(r, c)
      PROVE  KitMirrorsDb'
  <2> PICK v \in Reading :
         /\ db' = [db EXCEPT !.erc20[c] = v]
         /\ kit' = IF kit.erc20[c].has THEN [kit EXCEPT !.erc20[c] = Holder(v)] ELSE kit
    BY <1>6 DEF BalanceArrives
  <2>1. /\ db'.height = db.height /\ db'.balance = db.balance /\ db'.erc20[c] = v
        /\ \A d \in Contract : d # c => db'.erc20[d] = db.erc20[d]
    BY DEF TypeOK
  <2>2. CASE kit.erc20[c].has
    BY <2>1, <2>2 DEF Holder, TypeOK
  <2>3. CASE ~kit.erc20[c].has
    BY <2>1, <2>3
  <2>4. QED
    BY <2>2, <2>3
<1>7. Next => \/ UNCHANGED <<db, kit>>
              \/ Clear \/ Restart
              \/ \E c \in Contract : Register(c) \/ Unregister(c)
              \/ \E r \in Refresh : ZipSucceeds(r) \/ AccountTxsArrive(r) \/ TokenTxsArrive(r)
              \/ \E r \in Refresh, c \in Contract : BalanceArrives(r, c)
  BY DEF Next, User, Start, ReachabilityChanges, TimerFires, TimerStep, TimerReadsContracts,
     TimerSetsState, TimerReadsContract, TimerStoresContract, TimerSends, AnswerZip, ZipFails, AnswerAccount,
     AccountTxsFail, AnswerToken, TokenTxsFail, AnswerBalance, BalanceFails
<1>8. QED
  BY <1>1, <1>2, <1>3, <1>4, <1>5, <1>6, <1>7 DEF vars

\* A restart of the app shows the values that were shown before.
THEOREM KitMirrors == Spec => []KitMirrorsDb
BY TypeCorrect, MirrorInit, MirrorStep, PTL DEF Spec

\* At launch no contract is synced.
LEMMA BalanceInit == Init => SyncedContractHasBalance
BY NoneIsNoState DEF Init, SyncedContractHasBalance

\* A contract becomes synced only where its balance is stored.
LEMMA BalanceStep ==
    ASSUME TypeOK, WritesRegistered, SyncedContractHasBalance, [Next]_vars
    PROVE  SyncedContractHasBalance'
<1> USE DEF SyncedContractHasBalance
<1> erc20 \in [Contract -> SyncState \cup {None}]
  BY DEF TypeOK
<1>1. CASE UNCHANGED <<erc20, db, raced>>
  BY <1>1
<1>2. CASE Clear \/ Restart
  BY <1>2, NoneIsNoState DEF Clear, Restart
<1>3. CASE Start \/ ReachabilityChanges
  BY <1>3, RefreshAllContracts DEF Start, ReachabilityChanges
<1>4. ASSUME NEW c \in Contract, Register(c)
      PROVE  SyncedContractHasBalance'
  <2> DEFINE states == [erc20 EXCEPT ![c] = "notSynced"]
  <2>1. CASE erc20[c] # None
    BY <1>4, <2>1 DEF Register
  <2>2. CASE erc20[c] = None
    <3>1. states \in [Contract -> SyncState \cup {None}] /\ RefreshAll(states)
      BY <1>4, <2>2 DEF Register, SyncState
    <3>2. \A d \in Contract : erc20'[d] = "synced" => states[d] = "synced"
      BY <3>1, RefreshAllContracts
    <3>3. \A d \in Contract : erc20'[d] = "synced" => erc20[d] = "synced"
      BY <3>2
    <3>4. QED
      BY <1>4, <3>3 DEF Register
  <2>3. QED
    BY <2>1, <2>2
<1>5. ASSUME NEW c \in Contract, Unregister(c)
      PROVE  SyncedContractHasBalance'
  BY <1>5, NoneIsNoState DEF Unregister
<1>6. ASSUME NEW r \in Refresh, ZipFails(r) \/ TokenTxsFail(r)
      PROVE  SyncedContractHasBalance'
  BY <1>6, NoneIsNoState DEF ZipFails, TokenTxsFail, ChangeAll, SetIfRegistered
<1>7. ASSUME NEW r \in Refresh, ZipSucceeds(r) \/ AccountTxsArrive(r) \/ TokenTxsArrive(r)
      PROVE  SyncedContractHasBalance'
  BY <1>7 DEF ZipSucceeds, AccountTxsArrive, TokenTxsArrive, TypeOK
<1>8. ASSUME NEW r \in Refresh, NEW c \in Contract, BalanceArrives(r, c)
      PROVE  SyncedContractHasBalance'
  <2>1. PICK v \in Reading : db' = [db EXCEPT !.erc20[c] = v]
    BY <1>8 DEF BalanceArrives
  <2>2. db'.erc20[c] # None /\ \A d \in Contract : d # c => db'.erc20[d] = db.erc20[d]
    BY <2>1, NoneAssumption DEF TypeOK
  <2>3. UNCHANGED raced /\ \A d \in Contract : d # c => erc20'[d] = erc20[d]
    BY <1>8 DEF BalanceArrives
  <2>4. QED
    BY <2>2, <2>3
<1>9. ASSUME NEW r \in Refresh, NEW c \in Contract, BalanceFails(r, c)
      PROVE  SyncedContractHasBalance'
  BY <1>9, NoneIsNoState DEF BalanceFails, SetIfRegistered
<1>10. CASE TimerStoresContract
  <2>1. ~raced' => ~raced /\ \A c \in Contract : erc20'[c] \in {erc20[c], timer.to}
    BY <1>10, StoreInPlace
  <2>2. timer.to # "synced" /\ db' = db
    BY <1>10 DEF TimerStoresContract, TypeOK
  <2>3. QED
    BY <2>1, <2>2
<1>11. Next => \/ UNCHANGED <<erc20, db, raced>>
               \/ Clear \/ Restart \/ Start \/ ReachabilityChanges \/ TimerStoresContract
               \/ \E c \in Contract : Register(c) \/ Unregister(c)
               \/ \E r \in Refresh : \/ ZipFails(r) \/ TokenTxsFail(r) \/ ZipSucceeds(r)
                                     \/ AccountTxsArrive(r) \/ TokenTxsArrive(r)
               \/ \E r \in Refresh, c \in Contract : BalanceArrives(r, c) \/ BalanceFails(r, c)
  BY DEF Next, User, TimerFires, TimerStep, TimerReadsContracts, TimerSetsState,
     TimerReadsContract, TimerSends, AnswerZip, AnswerAccount, AccountTxsFail, AnswerToken,
     AnswerBalance
<1>12. QED
  BY <1>1, <1>2, <1>3, <1>4, <1>5, <1>6, <1>7, <1>8, <1>9, <1>10, <1>11 DEF vars

\* A contract is reported as synced only when its balance is stored.
THEOREM SyncedHasBalance == Spec => []SyncedContractHasBalance
BY TypeCorrect, WritesInit, WritesStep, BalanceInit, BalanceStep, PTL DEF Spec

(***************************************************************************)
(* Nothing is left syncing.                                                 *)
(***************************************************************************)

\* The timer thread that is going to set states to syncing has a refresh for the
\* request that will end them.
TimerHasRefresh == timer.pc # "idle" /\ timer.to = "syncing" => timer.refresh \in Refresh

OrphanInv == NoOrphanSyncing /\ TimerHasRefresh

\* At launch nothing is syncing.
LEMMA OrphanInit == Init => OrphanInv
BY NoneIsNoState DEF Init, TimerIdle, OrphanInv, NoOrphanSyncing, TimerHasRefresh

\* What refreshAll makes syncing has a request out.
LEMMA RefreshAllSends ==
    ASSUME TypeOK, NEW states \in [Contract -> SyncState \cup {None}], RefreshAll(states)
    PROVE  \/ syncState' # "syncing" /\ \A c \in Contract : erc20'[c] # "syncing"
           \/ erc20' = states /\ UNCHANGED <<syncState, flight>>
           \/ \E r \in Refresh : flight'[r].zip
<1>1. CASE ChangeAll(states, "notSynced")
  BY <1>1, NoneIsNoState DEF ChangeAll, SetIfRegistered
<1>2. CASE \E r \in Refresh : SendZip(r)
  BY <1>2 DEF SendZip, TypeOK, Flight
<1>3. QED
  BY <1>1, <1>2 DEF RefreshAll

\* refreshAll preserves the invariant on the main thread.
LEMMA RefreshAllOrphan ==
    ASSUME TypeOK, OrphanInv, NEW states \in [Contract -> SyncState \cup {None}],
           RefreshAll(states), UNCHANGED <<timer, raced>>,
           \A c \in Contract : states[c] = "syncing" => erc20[c] = "syncing"
    PROVE  OrphanInv'
<1>1. TimerHasRefresh'
  BY DEF OrphanInv, TimerHasRefresh
<1>2. NoOrphanSyncing'
  BY RefreshAllSends DEF OrphanInv, NoOrphanSyncing, TimerWillSend
<1>3. QED
  BY <1>1, <1>2 DEF OrphanInv

\* The public calls preserve the invariant.
LEMMA OrphanUser == ASSUME TypeOK, OrphanInv, User PROVE OrphanInv'
<1> erc20 \in [Contract -> SyncState \cup {None}]
  BY DEF TypeOK
<1>1. CASE Start
  BY <1>1, RefreshAllOrphan DEF Start
<1>2. CASE Clear
  <2>1. \A r \in Refresh : /\ flight'[r].zip = flight[r].zip
                          /\ flight'[r].account = flight[r].account
                          /\ flight'[r].token = flight[r].token
                          /\ flight'[r].balances = flight[r].balances
    BY <1>2 DEF Clear, TypeOK, Flight
  <2>2. UNCHANGED <<syncState, timer, raced>> /\ \A c \in Contract : erc20'[c] # "syncing"
    BY <1>2, NoneIsNoState DEF Clear
  <2>3. QED
    BY <2>1, <2>2 DEF OrphanInv, NoOrphanSyncing, TimerWillSend, TimerHasRefresh
<1>3. ASSUME NEW c \in Contract, Register(c)
      PROVE  OrphanInv'
  <2> DEFINE states == [erc20 EXCEPT ![c] = "notSynced"]
  <2>1. CASE erc20[c] # None
    BY <1>3, <2>1 DEF Register, OrphanInv, NoOrphanSyncing, TimerWillSend, TimerHasRefresh
  <2>2. CASE erc20[c] = None
    <3>1. /\ states \in [Contract -> SyncState \cup {None}]
          /\ \A d \in Contract : states[d] = "syncing" => erc20[d] = "syncing"
          /\ UNCHANGED <<timer, raced>>
      BY <1>3 DEF SyncState, Register
    <3>2. RefreshAll(states)
      BY <1>3, <2>2 DEF Register
    <3> HIDE DEF states
    <3>3. QED
      BY <3>1, <3>2, RefreshAllOrphan
  <2>3. QED
    BY <2>1, <2>2
<1>4. ASSUME NEW c \in Contract, Unregister(c)
      PROVE  OrphanInv'
  BY <1>4, NoneIsNoState
     DEF Unregister, OrphanInv, NoOrphanSyncing, TimerWillSend, TimerHasRefresh
<1>5. QED
  BY <1>1, <1>2, <1>3, <1>4 DEF User

\* So does the timer thread between its reads and its request.
LEMMA OrphanTimer ==
    ASSUME TypeOK, WritesRegistered, OrphanInv, TimerFires \/ TimerStep
    PROVE  OrphanInv'
<1> USE DEF OrphanInv, NoOrphanSyncing, TimerWillSend, TimerHasRefresh
<1>1. CASE TimerFires
  BY <1>1 DEF TimerFires, TypeOK
<1>2. CASE TimerReadsContracts
  BY <1>2 DEF TimerReadsContracts, TimerIdle, TypeOK
<1>3. CASE TimerSetsState
  BY <1>3 DEF TimerSetsState, TypeOK
<1>4. ASSUME NEW c \in Contract, TimerReadsContract(c)
      PROVE  OrphanInv'
  BY <1>4 DEF TimerReadsContract, TypeOK
<1>5. CASE TimerSends
  <2>1. CASE timer.to = "syncing"
    <3>1. timer.refresh \in Refresh /\ SendZip(timer.refresh)
      BY <1>5, <2>1 DEF TimerSends
    <3>2. flight'[timer.refresh].zip
      BY <3>1 DEF SendZip, TypeOK, Flight
    <3>3. QED
      BY <1>5, <3>1, <3>2 DEF TimerSends, TimerIdle
  <2>2. CASE timer.to # "syncing"
    BY <1>5, <2>2 DEF TimerSends, TimerIdle
  <2>3. QED
    BY <2>1, <2>2
<1>6. CASE TimerStoresContract
  <2>1. ~raced' => /\ ~raced
                   /\ \A c \in Contract : erc20'[c] \in {erc20[c], timer.to}
    BY <1>6, StoreInPlace
  <2>2. /\ UNCHANGED <<syncState, flight>>
        /\ timer'.pc = "updating" /\ timer'.to = timer.to /\ timer'.refresh = timer.refresh
    BY <1>6 DEF TimerStoresContract, TypeOK
  <2>3. timer.pc = "writing" /\ timer.to \in {"syncing", "notSynced"}
    BY <1>6 DEF TimerStoresContract, TypeOK
  <2>4. QED
    BY <2>1, <2>2, <2>3
<1>7. QED
  BY <1>1, <1>2, <1>3, <1>4, <1>5, <1>6 DEF TimerStep

\* An answer removes a request together with the states that wait for it.
LEMMA OrphanAnswer ==
    ASSUME TypeOK, OrphanInv, NEW r \in Refresh, UNCHANGED <<timer, raced>>
    PROVE  /\ AnswerZip(r) \/ AnswerAccount(r) \/ AnswerToken(r) => OrphanInv'
           /\ \A c \in Contract : AnswerBalance(r, c) => OrphanInv'
<1> USE DEF OrphanInv, NoOrphanSyncing, TimerWillSend, TimerHasRefresh
<1>1. ASSUME ZipSucceeds(r) PROVE OrphanInv'
  <2>1. LastAccountBlock + 1 # None /\ LastTokenBlock + 1 # None
    BY StartBlocks, NoneAssumption
  <2>2. After(r, FALSE, LastAccountBlock + 1,
              IF Registered = {} THEN None ELSE LastTokenBlock + 1, flight[r].balances)
    BY <1>1, ZipSucceedsFlight
  <2>3. flight'[r].account # None
    BY <2>1, <2>2 DEF After
  <2>4. \A c \in Contract : erc20[c] = "syncing" => flight'[r].token # None
    BY <2>1, <2>2, NoneIsNoState DEF After, Registered
  <2>5. QED
    BY <1>1, <2>3, <2>4 DEF ZipSucceeds
<1>2. ASSUME ZipFails(r) PROVE OrphanInv'
  BY <1>2, NoneIsNoState DEF ZipFails, ChangeAll, SetIfRegistered
<1>3. ASSUME AccountTxsArrive(r) \/ AccountTxsFail(r) PROVE OrphanInv'
  <2>1. After(r, flight[r].zip, None, flight[r].token, flight[r].balances)
    BY <1>3, AnswerFlight
  <2>2. syncState' # "syncing" /\ UNCHANGED erc20
    BY <1>3 DEF AccountTxsArrive, AccountTxsFail
  <2>3. QED
    BY <2>1, <2>2 DEF After
<1>4. ASSUME TokenTxsArrive(r) PROVE OrphanInv'
  <2>1. After(r, flight[r].zip, flight[r].account, None, Registered)
    BY <1>4, TokenTxsArriveFlight
  <2>2. \A c \in Contract : erc20[c] = "syncing" => c \in flight'[r].balances
    BY <2>1, NoneIsNoState DEF After, Registered
  <2>3. QED
    BY <1>4, <2>1, <2>2 DEF After, TokenTxsArrive
<1>5. ASSUME TokenTxsFail(r) PROVE OrphanInv'
  <2>1. After(r, flight[r].zip, flight[r].account, None, flight[r].balances)
    BY <1>5, AnswerFlight
  <2>2. UNCHANGED syncState /\ \A c \in Contract : erc20'[c] # "syncing"
    BY <1>5, NoneIsNoState DEF TokenTxsFail, SetIfRegistered
  <2>3. QED
    BY <2>1, <2>2 DEF After
<1>6. ASSUME NEW c \in Contract, AnswerBalance(r, c) PROVE OrphanInv'
  <2>1. After(r, flight[r].zip, flight[r].account, flight[r].token, flight[r].balances \ {c})
    BY <1>6, AnswerFlight
  <2>2. /\ UNCHANGED syncState /\ erc20'[c] # "syncing"
        /\ \A d \in Contract : d # c => erc20'[d] = erc20[d]
    BY <1>6, NoneIsNoState
       DEF AnswerBalance, BalanceArrives, BalanceFails, SetIfRegistered, TypeOK
  <2>3. QED
    BY <2>1, <2>2 DEF After
<1>7. QED
  BY <1>1, <1>2, <1>3, <1>4, <1>5, <1>6 DEF AnswerZip, AnswerAccount, AnswerToken

\* Every step preserves the invariant.
LEMMA OrphanStep ==
    ASSUME TypeOK, WritesRegistered, OrphanInv, [Next]_vars
    PROVE  OrphanInv'
<1> erc20 \in [Contract -> SyncState \cup {None}]
  BY DEF TypeOK
<1>1. CASE ReachabilityChanges
  BY <1>1, RefreshAllOrphan DEF ReachabilityChanges
<1>2. CASE Restart
  BY <1>2, NoneIsNoState DEF Restart, TimerIdle, OrphanInv, NoOrphanSyncing, TimerHasRefresh
<1>3. ASSUME NEW r \in Refresh, AnswerZip(r) \/ AnswerAccount(r) \/ AnswerToken(r)
      PROVE  OrphanInv'
  <2>1. UNCHANGED <<timer, raced>>
    BY <1>3 DEF AnswerZip, ZipSucceeds, ZipFails, AnswerAccount, AccountTxsArrive,
       AccountTxsFail, AnswerToken, TokenTxsArrive, TokenTxsFail
  <2>2. QED
    BY <1>3, <2>1, OrphanAnswer
<1>4. ASSUME NEW r \in Refresh, NEW c \in Contract, AnswerBalance(r, c)
      PROVE  OrphanInv'
  <2>1. UNCHANGED <<timer, raced>>
    BY <1>4 DEF AnswerBalance, BalanceArrives, BalanceFails
  <2>2. QED
    BY <1>4, <2>1, OrphanAnswer
<1>5. CASE UNCHANGED vars
  BY <1>5 DEF vars, OrphanInv, NoOrphanSyncing, TimerWillSend, TimerHasRefresh
<1>6. QED
  BY <1>1, <1>2, <1>3, <1>4, <1>5, OrphanUser, OrphanTimer DEF Next

\* Whatever is in state syncing has a request out, or one the timer thread is
\* about to send, whose answer ends it: refreshAll is never blocked for good.
THEOREM NoOrphan == Spec => []NoOrphanSyncing
<1>1. OrphanInv => NoOrphanSyncing
  BY DEF OrphanInv
<1>2. QED
  BY <1>1, TypeCorrect, WritesInit, WritesStep, OrphanInit, OrphanStep, PTL DEF Spec

(***************************************************************************)
(* The stored history.                                                      *)
(***************************************************************************)

\* A transaction request starts where nothing below is missing.
AccountBelowStored(store, start) ==
    \A b \in AccountTx : b < start => b \in store.account

TokenBelowStored(store, start) ==
    \A b \in TokenTx : b < start => \/ b \in store.token
                                     \/ \E k \in store.account \cap CreationTx : b <= k

\* The properties alone are not inductive: the answer to a request is stored
\* some time after its start block was computed, and others may come in between.
\* While storage only grows, what was complete below the start stays complete;
\* clear() breaks that for the requests that are out (stale).
HistoryInv ==
    ~tainted =>
        /\ HistoryHasNoGap
        /\ TokenGapsAreUnderCreations
        /\ \A r \in Refresh : ~flight[r].stale =>
              /\ flight[r].account # None => AccountBelowStored(db, flight[r].account)
              /\ flight[r].token # None => TokenBelowStored(db, flight[r].token)

\* At launch nothing is stored.
LEMMA HistoryInit == Init => HistoryInv
BY DEF Init, EmptyDb, NoRequests, HistoryInv, HistoryHasNoGap, TokenGapsAreUnderCreations

\* Stored blocks are blocks of the chain.
LEMMA BlockIsInt == ASSUME TypeOK
    PROVE /\ \A b \in AccountTx \cup TokenTx \cup db.account \cup db.token : b \in Int
          /\ AccountTx \in SUBSET (1..MaxHeight) /\ TokenTx \in SUBSET (1..MaxHeight)
          /\ db.account \in SUBSET AccountTx /\ db.token \in SUBSET TokenTx
<1>1. AccountTx \in SUBSET (1..MaxHeight) /\ TokenTx \in SUBSET (1..MaxHeight)
  BY BlocksAssumption DEF AccountTx
<1>2. db.account \in SUBSET AccountTx /\ db.token \in SUBSET TokenTx
  BY DEF TypeOK
<1>3. \A b \in 1..MaxHeight : b \in Int
  OBVIOUS
<1>4. QED
  BY <1>1, <1>2, <1>3

\* The start blocks chosen by refreshTransactions have nothing missing below.
LEMMA StartsAreComplete ==
    ASSUME TypeOK, HistoryHasNoGap, TokenGapsAreUnderCreations, ~tainted
    PROVE  /\ AccountBelowStored(db, LastAccountBlock + 1)
           /\ TokenBelowStored(db, LastTokenBlock + 1)
<1> DEFINE A == db.account \cap PlainTx
           T == db.token \cup (db.account \cap CreationTx)
<1>1. A \in SUBSET (1..MaxHeight) /\ T \in SUBSET (1..MaxHeight)
  BY BlocksAssumption, BlockIsInt
<1>2. /\ LastAccountBlock \in 0..MaxHeight /\ LastAccountBlock \in A \cup {0}
      /\ LastTokenBlock \in 0..MaxHeight /\ LastTokenBlock \in T \cup {0}
  BY <1>1, LastBlockOfRows, Zenon DEF LastAccountBlock, LastTokenBlock
<1>3. AccountBelowStored(db, LastAccountBlock + 1)
  <2> SUFFICES ASSUME NEW b \in AccountTx, b < LastAccountBlock + 1
               PROVE  b \in db.account
    BY DEF AccountBelowStored
  <2>1. b \in 1..MaxHeight
    BY BlockIsInt
  <2>2. b <= LastAccountBlock /\ LastAccountBlock # 0
    BY <1>2, <2>1
  <2>3. LastAccountBlock \in db.account
    BY <1>2, <2>2
  <2>4. QED
    BY <2>2, <2>3 DEF HistoryHasNoGap
<1>4. TokenBelowStored(db, LastTokenBlock + 1)
  <2> SUFFICES ASSUME NEW b \in TokenTx, b < LastTokenBlock + 1
               PROVE  \/ b \in db.token
                      \/ \E k \in db.account \cap CreationTx : b <= k
    BY DEF TokenBelowStored
  <2>1. b \in 1..MaxHeight
    BY BlockIsInt
  <2>2. b <= LastTokenBlock /\ LastTokenBlock # 0
    BY <1>2, <2>1
  <2>3. LastTokenBlock \in T
    BY <1>2, <2>2
  <2>4. QED
    BY <2>2, <2>3 DEF TokenGapsAreUnderCreations
<1>5. QED
  BY <1>3, <1>4

\* Storing the reply to a request that starts at a complete block leaves no gap.
LEMMA ReplyClosesGaps ==
    ASSUME TypeOK, NEW h \in Height, NEW start \in 1..(MaxHeight + 1)
    PROVE  /\ /\ HistoryHasNoGap /\ ~tainted /\ AccountBelowStored(db, start)
              /\ db'.account = db.account \cup Reply(AccountTx, start, h)
              => HistoryHasNoGap'
           /\ /\ TokenGapsAreUnderCreations /\ ~tainted /\ TokenBelowStored(db, start)
              /\ db'.token = db.token \cup Reply(TokenTx, start, h)
              /\ db'.account = db.account
              => TokenGapsAreUnderCreations'
<1> h \in Int /\ start \in Int
  BY DEF Height
<1>1. ASSUME HistoryHasNoGap, ~tainted, AccountBelowStored(db, start),
             db'.account = db.account \cup Reply(AccountTx, start, h)
      PROVE  HistoryHasNoGap'
  <2> SUFFICES ASSUME NEW b \in AccountTx, NEW top \in db'.account, b <= top
               PROVE  b \in db'.account
    BY DEF HistoryHasNoGap
  <2>1. b \in Int
    BY BlockIsInt
  <2>2. CASE top \in db.account
    BY <1>1, <2>2 DEF HistoryHasNoGap
  <2>3. CASE top \in Reply(AccountTx, start, h)
    <3>1. top \in Int /\ top <= h
      BY <2>3, BlockIsInt DEF Reply
    <3>2. b <= h
      BY <2>1, <3>1
    <3>3. CASE b < start
      BY <1>1, <3>3 DEF AccountBelowStored
    <3>4. CASE start <= b
      BY <1>1, <3>2, <3>4 DEF Reply
    <3>5. QED
      BY <2>1, <3>3, <3>4
  <2>4. QED
    BY <1>1, <2>2, <2>3
<1>2. ASSUME TokenGapsAreUnderCreations, ~tainted, TokenBelowStored(db, start),
             db'.token = db.token \cup Reply(TokenTx, start, h),
             db'.account = db.account
      PROVE  TokenGapsAreUnderCreations'
  <2> SUFFICES ASSUME NEW b \in TokenTx, NEW top \in db'.token, b <= top
               PROVE  \/ b \in db'.token
                      \/ \E k \in db'.account \cap CreationTx : b <= k
    BY DEF TokenGapsAreUnderCreations
  <2>1. b \in Int
    BY BlockIsInt
  <2>2. CASE top \in db.token
    BY <1>2, <2>2 DEF TokenGapsAreUnderCreations
  <2>3. CASE top \in Reply(TokenTx, start, h)
    <3>1. top \in Int /\ top <= h
      BY <2>3, BlockIsInt DEF Reply
    <3>2. b <= h
      BY <2>1, <3>1
    <3>3. CASE b < start
      BY <1>2, <3>3 DEF TokenBelowStored
    <3>4. CASE start <= b
      BY <1>2, <3>2, <3>4 DEF Reply
    <3>5. QED
      BY <2>1, <3>3, <3>4
  <2>4. QED
    BY <1>2, <2>2, <2>3
<1>3. QED
  BY <1>1, <1>2

\* A step that leaves the stored rows alone, and of each refresh the requests it
\* still has, preserves the invariant.
LEMMA HistoryFrame ==
    ASSUME HistoryInv, UNCHANGED tainted,
           db'.account = db.account, db'.token = db.token,
           \A r \in Refresh :
               /\ \/ flight'[r].account = None
                  \/ flight'[r].account = flight[r].account /\ flight'[r].stale = flight[r].stale
               /\ \/ flight'[r].token = None
                  \/ flight'[r].token = flight[r].token /\ flight'[r].stale = flight[r].stale
    PROVE  HistoryInv'
BY DEF HistoryInv, HistoryHasNoGap, TokenGapsAreUnderCreations, AccountBelowStored,
   TokenBelowStored

\* The refreshes other than r, and the requests r still has, rely on the same blocks
\* after r stored some rows.
LEMMA HistoryGrows ==
    ASSUME TypeOK, NEW r \in Refresh, NEW account, NEW token, NEW zip, NEW balances,
           After(r, zip, account, token, balances),
           account = None \/ account = flight[r].account,
           token = None \/ token = flight[r].token,
           db.account \subseteq db'.account, db.token \subseteq db'.token,
           \A s \in Refresh : ~flight[s].stale =>
              /\ flight[s].account # None => AccountBelowStored(db, flight[s].account)
              /\ flight[s].token # None => TokenBelowStored(db, flight[s].token)
    PROVE  \A s \in Refresh : ~flight'[s].stale =>
              /\ flight'[s].account # None => AccountBelowStored(db', flight'[s].account)
              /\ flight'[s].token # None => TokenBelowStored(db', flight'[s].token)
<1>1. \A start : AccountBelowStored(db, start) => AccountBelowStored(db', start)
  BY DEF AccountBelowStored
<1>2. \A start : TokenBelowStored(db, start) => TokenBelowStored(db', start)
  BY DEF TokenBelowStored
<1>3. QED
  BY <1>1, <1>2, Zenon DEF After

\* The answers preserve the invariant.
LEMMA HistoryAnswer ==
    ASSUME TypeOK, HistoryInv, NEW r \in Refresh
    PROVE  /\ AnswerZip(r) \/ AnswerAccount(r) \/ AnswerToken(r) => HistoryInv'
           /\ \A c \in Contract : AnswerBalance(r, c) => HistoryInv'
<1>1. ASSUME ZipSucceeds(r) PROVE HistoryInv'
  <2> DEFINE t == IF Registered = {} THEN None ELSE LastTokenBlock + 1
  <2>1. After(r, FALSE, LastAccountBlock + 1, t, flight[r].balances)
    BY <1>1, ZipSucceedsFlight
  <2>2. UNCHANGED tainted /\ db'.account = db.account /\ db'.token = db.token
    BY <1>1 DEF ZipSucceeds, TypeOK
  <2>3. CASE tainted
    BY <2>2, <2>3 DEF HistoryInv
  <2>4. CASE ~tainted
    <3>1. /\ HistoryHasNoGap /\ TokenGapsAreUnderCreations
          /\ AccountBelowStored(db, LastAccountBlock + 1) /\ TokenBelowStored(db, LastTokenBlock + 1)
      BY <2>4, StartsAreComplete DEF HistoryInv
    <3>2. HistoryHasNoGap' /\ TokenGapsAreUnderCreations'
      BY <2>2, <3>1 DEF HistoryHasNoGap, TokenGapsAreUnderCreations
    <3>3. \A s \in Refresh : ~flight'[s].stale =>
              /\ flight'[s].account # None => AccountBelowStored(db, flight'[s].account)
              /\ flight'[s].token # None => TokenBelowStored(db, flight'[s].token)
      BY <2>1, <2>4, <3>1 DEF After, HistoryInv
    <3>4. \A start : /\ AccountBelowStored(db, start) => AccountBelowStored(db', start)
                     /\ TokenBelowStored(db, start) => TokenBelowStored(db', start)
      BY <2>2 DEF AccountBelowStored, TokenBelowStored
    <3>5. \A s \in Refresh : ~flight'[s].stale =>
              /\ flight'[s].account # None => AccountBelowStored(db', flight'[s].account)
              /\ flight'[s].token # None => TokenBelowStored(db', flight'[s].token)
      BY <3>3, <3>4, Zenon
    <3>6. QED
      BY <3>2, <3>5, Zenon DEF HistoryInv
  <2>5. QED
    BY <2>3, <2>4
<1>2. ASSUME ZipFails(r) PROVE HistoryInv'
  <2>1. After(r, FALSE, flight[r].account, flight[r].token, flight[r].balances)
    BY <1>2, AnswerFlight
  <2>2. UNCHANGED tainted /\ db'.account = db.account /\ db'.token = db.token
    BY <1>2 DEF ZipFails
  <2>3. QED
    BY <2>1, <2>2, HistoryFrame DEF After
<1>3. ASSUME AccountTxsArrive(r) PROVE HistoryInv'
  <2>1. After(r, flight[r].zip, None, flight[r].token, flight[r].balances)
    BY <1>3, AnswerFlight
  <2>2. PICK h \in Height :
          db' = [db EXCEPT !.account = @ \cup Reply(AccountTx, flight[r].account, h)]
    BY <1>3 DEF AccountTxsArrive
  <2>3. /\ db'.account = db.account \cup Reply(AccountTx, flight[r].account, h)
        /\ db'.token = db.token
    BY <2>2 DEF TypeOK
  <2>4. flight[r].account \in 1..(MaxHeight + 1) /\ flight[r].account # None
    BY <1>3 DEF AccountTxsArrive, TypeOK, Flight
  <2>5. CASE tainted \/ flight[r].stale
    BY <1>3, <2>5 DEF AccountTxsArrive, HistoryInv
  <2>6. CASE ~tainted /\ ~flight[r].stale
    <3>1. /\ HistoryHasNoGap /\ TokenGapsAreUnderCreations
          /\ AccountBelowStored(db, flight[r].account)
      BY <2>4, <2>6 DEF HistoryInv
    <3>2. HistoryHasNoGap'
      BY <2>3, <2>4, <2>6, <3>1, ReplyClosesGaps
    <3>3. TokenGapsAreUnderCreations'
      BY <2>3, <2>6, <3>1 DEF TokenGapsAreUnderCreations
    <3>4. \A s \in Refresh : ~flight'[s].stale =>
              /\ flight'[s].account # None => AccountBelowStored(db', flight'[s].account)
              /\ flight'[s].token # None => TokenBelowStored(db', flight'[s].token)
      BY <2>1, <2>3, <2>6, HistoryGrows DEF HistoryInv
    <3>5. QED
      BY <3>2, <3>3, <3>4, Zenon DEF HistoryInv
  <2>7. QED
    BY <2>5, <2>6
<1>4. ASSUME AccountTxsFail(r) PROVE HistoryInv'
  <2>1. After(r, flight[r].zip, None, flight[r].token, flight[r].balances)
    BY <1>4, AnswerFlight
  <2>2. UNCHANGED <<tainted, db>>
    BY <1>4 DEF AccountTxsFail
  <2>3. QED
    BY <2>1, <2>2, HistoryFrame DEF After
<1>5. ASSUME TokenTxsArrive(r) PROVE HistoryInv'
  <2>1. After(r, flight[r].zip, flight[r].account, None, Registered)
    BY <1>5, TokenTxsArriveFlight
  <2>2. PICK h \in Height :
          db' = [db EXCEPT !.token = @ \cup Reply(TokenTx, flight[r].token, h)]
    BY <1>5 DEF TokenTxsArrive
  <2>3. /\ db'.token = db.token \cup Reply(TokenTx, flight[r].token, h)
        /\ db'.account = db.account
    BY <2>2 DEF TypeOK
  <2>4. flight[r].token \in 1..(MaxHeight + 1) /\ flight[r].token # None
    BY <1>5 DEF TokenTxsArrive, TypeOK, Flight
  <2>5. CASE tainted \/ flight[r].stale
    BY <1>5, <2>5 DEF TokenTxsArrive, HistoryInv
  <2>6. CASE ~tainted /\ ~flight[r].stale
    <3>1. /\ HistoryHasNoGap /\ TokenGapsAreUnderCreations
          /\ TokenBelowStored(db, flight[r].token)
      BY <2>4, <2>6 DEF HistoryInv
    <3>2. HistoryHasNoGap'
      BY <2>3, <2>6, <3>1 DEF HistoryHasNoGap
    <3>3. TokenGapsAreUnderCreations'
      BY <2>3, <2>4, <2>6, <3>1, ReplyClosesGaps
    <3>4. \A s \in Refresh : ~flight'[s].stale =>
              /\ flight'[s].account # None => AccountBelowStored(db', flight'[s].account)
              /\ flight'[s].token # None => TokenBelowStored(db', flight'[s].token)
      BY <2>1, <2>3, <2>6, HistoryGrows DEF HistoryInv
    <3>5. QED
      BY <3>2, <3>3, <3>4, Zenon DEF HistoryInv
  <2>7. QED
    BY <2>5, <2>6
<1>6. ASSUME TokenTxsFail(r) PROVE HistoryInv'
  <2>1. After(r, flight[r].zip, flight[r].account, None, flight[r].balances)
    BY <1>6, AnswerFlight
  <2>2. UNCHANGED <<tainted, db>>
    BY <1>6 DEF TokenTxsFail
  <2>3. QED
    BY <2>1, <2>2, HistoryFrame DEF After
<1>7. ASSUME NEW c \in Contract, AnswerBalance(r, c) PROVE HistoryInv'
  <2>1. After(r, flight[r].zip, flight[r].account, flight[r].token, flight[r].balances \ {c})
    BY <1>7, AnswerFlight
  <2>2. UNCHANGED tainted /\ db'.account = db.account /\ db'.token = db.token
    BY <1>7 DEF AnswerBalance, BalanceArrives, BalanceFails, TypeOK
  <2>3. QED
    BY <2>1, <2>2, HistoryFrame DEF After
<1>8. QED
  BY <1>1, <1>2, <1>3, <1>4, <1>5, <1>6, <1>7 DEF AnswerZip, AnswerAccount, AnswerToken

\* Sending a zip request touches no transaction request.
LEMMA SendZipFrame ==
    ASSUME TypeOK, HistoryInv, UNCHANGED <<tainted, db>>,
           UNCHANGED flight \/ \E r : SendZip(r)
    PROVE  HistoryInv'
<1>1. \A s \in Refresh : /\ flight'[s].account = flight[s].account
                         /\ flight'[s].token = flight[s].token
                         /\ flight'[s].stale = flight[s].stale
  BY DEF SendZip, TypeOK, Flight
<1>2. QED
  BY <1>1, HistoryFrame

\* Every step preserves the invariant; clear() marks the requests that are out.
LEMMA HistoryStep == ASSUME TypeOK, HistoryInv, [Next]_vars PROVE HistoryInv'
<1>1. CASE Clear
  <2>1. db'.account = {} /\ db'.token = {}
    BY <1>1 DEF Clear, EmptyDb
  <2>2. ASSUME NEW r \in Refresh, ~flight'[r].stale
        PROVE  flight'[r].account = None /\ flight'[r].token = None
    <3> DEFINE old == flight[r].stale \/ flight[r].account # None \/ flight[r].token # None
    <3>1. flight'[r] = [flight[r] EXCEPT !.stale = old]
      BY <1>1 DEF Clear, TypeOK
    <3>2. /\ flight'[r].account = flight[r].account /\ flight'[r].token = flight[r].token
          /\ \A b \in BOOLEAN : [flight[r] EXCEPT !.stale = b].stale = b
      BY <3>1 DEF TypeOK, Flight
    <3>3. old \in BOOLEAN
      OBVIOUS
    <3> HIDE DEF old
    <3>4. ~old
      BY <2>2, <3>1, <3>2, <3>3, Zenon
    <3>5. QED
      BY <3>2, <3>4 DEF old
  <2>3. HistoryHasNoGap' /\ TokenGapsAreUnderCreations'
    BY <2>1 DEF HistoryHasNoGap, TokenGapsAreUnderCreations
  <2>4. QED
    BY <2>2, <2>3, Zenon DEF HistoryInv
<1>2. CASE Restart
  <2>1. /\ UNCHANGED <<db, tainted>>
        /\ \A r \in Refresh : flight'[r].account = None /\ flight'[r].token = None
    BY <1>2 DEF Restart, NoRequests
  <2>2. QED
    BY <2>1, HistoryFrame
<1>3. ASSUME NEW r \in Refresh,
             \/ AnswerZip(r) \/ AnswerAccount(r) \/ AnswerToken(r)
             \/ \E c \in Contract : AnswerBalance(r, c)
      PROVE  HistoryInv'
  BY <1>3, HistoryAnswer
<1>4. Next => \/ Clear \/ Restart
              \/ \E r \in Refresh : \/ AnswerZip(r) \/ AnswerAccount(r) \/ AnswerToken(r)
                                    \/ \E c \in Contract : AnswerBalance(r, c)
              \/ /\ UNCHANGED <<tainted, db>>
                 /\ UNCHANGED flight \/ \E r : SendZip(r)
  BY DEF Next, User, Start, ReachabilityChanges, Register, Unregister, RefreshAll,
     TimerFires, TimerStep, TimerReadsContracts, TimerSetsState, TimerReadsContract,
     TimerStoresContract, TimerSends
<1>5. CASE UNCHANGED vars
  BY <1>5, SendZipFrame DEF vars
<1>6. QED
  BY <1>1, <1>2, <1>3, <1>4, <1>5, SendZipFrame

\* The account's stored history has no gap, whatever the order of the answers,
\* unless a reply to a request from before clear() was stored.
THEOREM HistoryComplete == Spec => []HistoryHasNoGap
<1>1. HistoryInv => HistoryHasNoGap
  BY DEF HistoryInv, HistoryHasNoGap
<1>2. QED
  BY <1>1, TypeCorrect, HistoryInit, HistoryStep, PTL DEF Spec

\* The same for the erc20 history, but for gaps under a contract creation.
THEOREM TokenHistoryComplete == Spec => []TokenGapsAreUnderCreations
<1>1. HistoryInv => TokenGapsAreUnderCreations
  BY DEF HistoryInv, TokenGapsAreUnderCreations
<1>2. QED
  BY <1>1, TypeCorrect, HistoryInit, HistoryStep, PTL DEF Spec
=============================================================================

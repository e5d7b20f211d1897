# Verification of the Usechain wallet for iOS

TLA+ models of the wallet app (`src/USEChainWallet`), checked with TLC on small
instances, and theorems about them proved with TLAPS for every value of the constants.
Source paths below are relative to `src/USEChainWallet/Classes` unless they start with
`Tools` or `Common`, which are relative to `src/USEChainWallet`.

## 1. The system

The app is a set of view controllers over `UserDefaults` (the wallets, the account shown,
details handed from page to page) and a few network helpers. Beside them the repository
holds `HSEthereumKit`, a wallet engine with two backends: an API one (infura and etherscan
behind one timer) and an SPV one (a light client that speaks LES to one node). No page of
this commit starts the kit; it is complete code all the same, and the part of the
repository with real concurrency, so both engines are modelled.

| component | state | operations | hard because |
|---|---|---|---|
| API engine (`HSEthereumKit/Core`) | sync states of the account and of each erc20 contract, requests in flight, GRDB tables, `EthereumKitState` | start, register, unregister, clear, reachability, the 30 s timer, every answer and error | the timer runs `refreshAll` on a background queue, everything else on the main queue; several refreshes overlap; nothing is cancelled by `clear()` |
| SPV engine (`HSEthereumKit/Spv`) | streams, handshake, byte buffer, frame codec, request holder, stored headers | connect, read, handshake, hello/status/headers/proofs, disconnect, save, clear | bytes come in any portions; handlers disconnect while frames are still buffered; the chain is reorganised; `clear()` runs on another thread |
| Wallet registry (create, import, list, detail, passcode, sub account and recover pages) | the lists of wallets in `UserDefaults`, names and passcodes, addresses, public keys, the account shown | create, import (phrase, key, keystore), select, rename, change passcode, delete, recover, remove, generate a sub account | a handler makes up to seven writes and the app may be killed between two; keystores are decrypted in the background; pages keep the account they were opened for |
| Mnemonic confirmation (`USEConfrimMnemonicNewVC`) | the shuffle, selected and confirmed words | shuffle, tap, swipe back, confirm | an index and two arrays must stay in step over any taps; a cancelled swipe clears half of the state |
| Sending (`USETransferVC`, `USEEvaluateTransactionVC`, `USEKYCAuditingVC`, `USESubAccountAuditingVC`, `Tools/UseEthersManager.m`, `Tools/UseChainNetTools.swift`) | the page and its HUD, the send under way, nonce, posted transaction, `currentTXHash` | prompt, nonce request, sign, post, every answer, failure and timeout, leave, switch wallet, restart | the account may change between prompt, nonce and signature; a timeout does not tell whether the node took the transaction |
| Transaction records (`USECoinDetailVC`, `USETxRecordViewModel`) | the list, the page counter, the two spinners | open, pull down, reach the end, answers and failures, leave, switch wallet | a refresh and a load overlap and share a counter that moves before the answer |
| Certificate request (`pkcs10header.c`, `generateCsr`) | a buffer and three arrays sized by a guess | `parse_name`, `GenCSR`, `generateCsr` | pointer arithmetic over escapes; a refused subject goes on as an empty one |
| KYC (`KYCAuthentication`) | data, hashes and certificate per account, photos and kind of card for all accounts | fill in, confirm, upload, poll, apply again, register | every answer is stored under the account shown when it comes; a registration is put together from three stored values; a passport leaves the back photo of an earlier form, and which photos an upload takes follows a card that every form resets |
| Transaction details, rating target, address book (`USETransferCompletedVC`, `USEEvaluateTransactionVC`, `Mine`) | the book, the row being edited, the address handed over, the details stored last | open, answer, propose, add, change, delete, rate | pages hand values over in `UserDefaults`, and late answers write them under other pages |
| Displays, exports, settings, views | labels, single settings | show, copy | see section 8 |
| RLPx/ECIES, RLP, trie nodes, ABIv2, SMP, signing | none | pure functions | byte arithmetic |
| ethers.framework, Pods | - | - | external |

How they interact. Pages call each other by pushing a controller and leaving values in
`UserDefaults`; network helpers call back on the main queue. `EthereumKit` owns one
blockchain, one storage and one `EthereumKitState` and is called by the app on the main
thread; `ApiBlockchain` calls the provider and stores its answers. In the SPV engine
`Connection` calls up through `FrameConnection`, `DevP2PConnection`, `DevP2PPeer`, `LESPeer`
to `PeerGroup` on the run loop thread, and each layer calls down to send or disconnect, so
a disconnect happens inside the loop that reads frames. Sending, the KYC
pages, the records and the registry meet in the account shown (`USECurrentAccountInfo`); the
KYC pages hand a registration to Sending; the details page hands an address to the book and
a transaction to the rating, which is one of the pages that send.

## 2. What makes each component correct

- **API engine.** No state is left `syncing` without a request whose answer ends it (one
  orphan would stop every later refresh); every refresh ends; what is registered is
  refreshed; kit and blockchain agree on the contracts; what is shown is what is stored; a
  `synced` contract has a balance; the stored history has no gap.
- **SPV engine.** The stored headers are a chain without gaps, the balance shown is proved
  against the last of them, one request is out and none is lost, and a connection ends in
  a balance.
- **Registry.** A wallet is never lost; an account is listed once; every page that opens a
  wallet finds what it unwraps; the account shown is a listed wallet under its own name and
  address; sub account slots are not reused.
- **Mnemonic confirmation.** Every word is on one button; what is confirmed spells the
  phrase; the wallet is added only after all of it; no taps lead into a dead end or a crash.
- **Sending.** The account that was confirmed signs; nonces leave no gap; sending again
  does not pay twice; the stored hash is of an accepted transaction; the HUD goes away. To
  the outside it is a ledger: a send is charged once, taken once or not at all, and told as
  sent only once it was taken.
- **Transaction records.** Between the top of the list and its oldest transfer none is
  missing, the list and the counter agree, and the spinners stop.
- **Certificate request.** No access is out of bounds, and what was spelled is what the
  request carries, with nothing dropped.
- **KYC.** No page needs data that is not stored, a registration is of one piece, and an
  upload carries the photos of the form its data are from, as far as the shared files allow.
- **Details, rating and book.** An editor shows the entry it replaces, no entry is lost or
  doubled by a save, and a rating is about the transaction it was opened from.

## 3. Modules

| module | models | abstract / left out |
|---|---|---|
| `ApiBlockchain` | `ApiBlockchain`, `ApiGrdbStorage`, `EthereumKit`, `EthereumKitState`, `ReachabilityManager` | values are readings that are only compared; transactions are their blocks; delegate calls, gas price, kit sends |
| `SpvSync` | `Connection`, `FrameConnection`, `DevP2PConnection`, `DevP2PPeer`, `LESPeer`, `PeerGroup`, `SpvGrdbStorage` | a frame is its message, a proof the block it is rooted in; malformed frames; two `start()` calls before the first one set `runLoop` |
| `HeaderChain` | abstract: what the SPV engine promises of its store | streams, frames, requests, heights as text |
| `WalletRegistry` | the pages that write the wallets | exports, encrypted copies nobody reads |
| `MnemonicConfirm` | the confirmation page | layout |
| `Sending` | the send pages, `sendUSETransactionWith`, an external node | amounts, data, balances |
| `Ledger` | abstract: what sending promises | pages, requests, prices, timeouts |
| `TxRecords` | the records page and its view model, an external explorer | a transfer is its number; the balance label |
| `CertName` | `parse_name`, `GenCSR`, `generateCsr` | a known type counts as one character; the key and the signature |
| `KycAudit` | the form, confirmation, auditing and registration pages, an external authority | a person is what a form spells but for its card; photos are the forms they were taken for |
| `Contacts` | the details, rating and address book pages | an entry is its address |
| `PagesProofs` | the theorems of `Contacts` and of `MnemonicConfirm`, which share no variable | |
| `...Proofs` | the theorems of the module they are named after | |
| `MC...` | constants for TLC, one per component | |

**Correspondence.** A handler on the main queue is one action. The timer thread of the API
engine is cut at every read and write it shares with the main thread (`TimerFires` to
`TimerSends`); its unlocked read-modify-write of the contracts' dictionary is two steps and
the history variable `raced` records that the main thread wrote in between. In `SpvSync` the
run loop thread is cut where it lets `clear()` in: between frames and between saving headers
and reading the last one back; `thread` is where it stands. In `WalletRegistry` a handler is
given by the defaults after all its writes and the set of the defaults after some of them:
a kill leaves one of the latter and sets `torn`. `Sending`, `TxRecords`, `KycAudit` and
`Contacts` cut an operation at its network calls: the request leaves in one action, its answer
or failure is handled whole in another, under whatever page is open by then. The pages of
`KycAudit` and `Contacts` are a stack, as in the navigation controller; an editor or a rating
remembers in the model what it showed or was opened from. `CertName` is a step machine:
one step per character of `parse_name`'s inner loops, per end of a type or a value, and per
entry added.

**History variables** (`tainted`, `raced`, `owned`, `made`, `torn`, `crossed`, `before`,
`switched`, `cleared`, `trust`, `meant`, `edited`, `strayed`) are read by properties and,
`torn`/`raced`/`crossed`/`strayed`, by TLC's constraints; no action's guard depends on one.

**Notes on single pages.** `USERecoverWalletVC` is pushed by no page of this commit and is
modelled as if it were opened from the main page. The keystore page shows a HUD, but its back
button works, so an import may finish under any other page. After the last deletion the start
page is shown without a way back. A wallet left half written by a kill can make the list or
the main page crash at every launch: the properties about pages hold while `torn` is false,
`NothingLost` holds anyway. In `Sending` a dearer transaction displaces an accepted one with the
same nonce: the properties say that at most one of them is mined, not that both are.

## 4. Runs

| run | cfg | properties | bounds |
|---|---|---|---|
| `api_safety` | `MCApiBlockchain_safety` | `NoOrphanSyncing`, `HoldersMatchContracts`, `KitMirrorsDb`, `HistoryHasNoGap`, `TokenGapsAreUnderCreations` | two refreshes at once, with two contracts, or with two readings for every height and balance, or with three blocks (transfer, creation, transfer) |
| `api_liveness` | `MCApiBlockchain_liveness` | `RefreshEnds`, `RegisteredIsRefreshed` | one contract, two refreshes, no symmetry, races included |
| `spv` | `MCSpvSync` | `NoGap`, `OneRequestOut`, `KeepsChain`, `SyncEnds` | five heights, two branches from the second on, replies of three headers |
| `registry_pages` | `MCWalletRegistry_pages` | `PagesOpen`, `CurrentListed`, `CurrentShown` | one phrase, a key of the same account, one of another, two imports at once, two passcodes |
| `registry_kills` | `MCWalletRegistry_kills` | `NothingLost`, `OneWalletPerAccount` | two phrases, two keys, a kill between any two writes, again and again |
| `registry_subaccounts` | `MCWalletRegistry_subaccounts` | `ListedOnce`, `SlotsCounted` | one phrase, sub accounts of it in two slots, their keys also imported, one keystore at a time, a kill between any two writes, again and again |
| `mnemonic_confirm` | `MCMnemonicConfirm` | `EveryWordOnce`, `ConfirmedSpellPhrase`, `NoDeadEnd`, `CrashOnlyAfterSwipe` | five words, two of them twice |
| `sending` | `MCSending` | `SignedByOwner`, `NoNonceGap`, `NotPaidTwice`, `HudWhileSending`, `KeepsPromise` | two accounts, two sends, two mined transactions each |
| `tx_records` | `MCTxRecords` | `TypeOK`, `NoTransferSkipped`, `ListIsPages`, `SpinnersEnd` | pages of two, accounts of up to five and one transfers, page counter up to 3 |
| `cert_name` | `MCCertName` | `InBounds`, `RoundTrip`, `NothingDropped` | every subject of up to seven characters, every spelling of lists of up to two elements |
| `kyc` | `MCKycAudit` | `NoDataMissed`, `RegistersOnePiece`, `PhotosOfApplicant` | two accounts, two persons, identity cards and passports, two applications, four pages; with a passport one person, one application, three pages |
| `contacts` | `MCContacts` | `EditorFits`, `BookKept`, `RatesShown` | a transfer and a rating, three requests, four addresses, three entries, five pages |

Why the bounds are enough to be interesting. Two contracts and two refreshes are needed for
one refresh to overtake another, and for a contract to be registered while the other's
request is out; a third adds no new pair. Two readings let an older height or balance be stored
after a newer one. Three blocks put a gap between two stored ones, and the creation in the middle is
what the erc20 query miscounts. Contracts, readings and histories are explored one of three at a
time (`OneAtATime`): what is sent and which state is set depends on nothing that is stored but
the start block, and a history looks at no contract and at no reading. With rows stored the
timer is idle, since refreshes of the main thread overlap in the same ways. The theorems hold for any
contracts, readings and blocks together. Two slots are one to count and one to take
while a kill left the first half made; a sub account's key that is imported first is the one the code
lists twice. Five words with repetitions
give every way a repeated word can be tapped on its other button first. Two sends are one
repeated after a timeout, or two from different pages; two mined transactions let another
device's one come first. In `spv` the second branch forks above the checkpoint so that a
stored header can lose its place, a reply of three headers can be the end of a chain or cut,
and the last height has one more digit (`Boundary`), like block 10,000,000 over the
checkpoint 5,194,692. In `tx_records` five transfers are two full pages and a page that is
not, with one more page asked for and found empty. Seven characters hold an escape at every
place of an element, and three elements of two characters each, the fewest an
element can take. In `kyc` the second application is one corrected, or one of the other account
while the first is still being uploaded; a passport after an identity card is enough for a back
photo that is left over. In `contacts` three requests let two answers be late
while a third page is open, and three entries leave one above and one below the one edited.

Constraints. `NotRaced` in the safety run of the API engine stops after the data race, whose
later states the properties exclude; the liveness run has none. `NotTorn` does the same for the
pages of the registry, `NotStrayed` in KYC. The sub accounts' run goes on after kills; there
`QuietOnceTorn` leaves out a keystore under way after a kill and a crossing together with a
kill (the theorems `NoDoubles` and `NoSlotTwice` do not). `FewRecoverable` bounds what repeated
kills in a deletion append. `PassportsApart` keeps repeated applications to identity cards.
Symmetry (contracts, refreshes and readings; accounts and sends; accounts and
persons; requests and two addresses) is used in runs without liveness, where the permuted
values are only compared. `OneAtATime` is a constraint on steps, so that
no state beyond it is even counted. Deadlock is checked everywhere but in the registry, where a torn
wallet may stop the app at launch and the constraints end behaviours, and for `CertName`,
where parsing ends.

What the runs show beyond "the properties hold":

- `SyncEnds` holds only up to `Boundary`. Heights are stored as text and sorted as text
  (`SpvGrdbStorage.swift:121`, `SpvExtensions.swift:15`): with one digit more the last block sorts
  below the old ones, and the engine asks for the same headers again and again.
- `SyncEnds` excludes a lost connection because a second one on the same object never
  handshakes: `handshakeSent` is not reset (`Connection.swift:126`).
- `HistoryHasNoGap` excludes `tainted`: an answer to a request from before `clear()` is stored
  into the emptied database and its lower blocks are never asked for again.
- `TokenGapsAreUnderCreations`: a contract creation's row counts as an erc20 row
  (`ApiGrdbStorage`), so the erc20 query may start above transfers that were not fetched.
- `HoldersMatchContracts` excludes `raced`: two unlocked writers of one dictionary.
- `SignedByOwner` excludes `switched`: a keystore import that ends under an open send page
  changes the account that signs, after the other's passcode was asked for.
- `HudWhileSending` excludes the KYC page without an answer, which stays covered.
- `CrashOnlyAfterSwipe`: a swipe back that is cancelled empties the words, and the next tap is
  out of range.
- `NoTransferSkipped` excludes failed loads and loads a refresh overlapped (`trust`): the
  counter moves before the request (`USETxRecordViewModel.swift:40`), so a load that fails leaves its
  page out for good, and the counter can fall to -1.
- `NoDataMissed` excludes `strayed`: certificate, hashes and state are stored under the account
  shown when the answer comes, not the one that applied. `PhotosOfApplicant` excludes photos
  saved since by another account: their file names are the same for all; and the back photo where
  the card stored is not that of the data: a form that is only opened resets it to the identity card
  (`USEKYCAuthenticationVC.swift:104`), and a passport is then uploaded with the back photo of an
  earlier form, which it had left in its file (`USEKYCAuthenticationVC.swift:717`).
- `ListedOnce` excludes a sub account that was imported before it is generated: the alert that it
  is listed is not followed by a return, and it is listed twice (`USEGenerateSubAccountVC.swift:50`).
- `RoundTrip` and `NothingDropped`: what is spelled with escapes is read back. A subject that is
  refused becomes a request with an empty one (`pkcs10header.c:218`), not an error; none of the
  application's is.
- `BookKept` excludes a row that was reset: an answer that comes late, or the details page that
  reappears for the length of a swipe that is cancelled, resets `wannaChangeIndex` under an open
  editor (`USETransferCompletedVC.swift:67`), and the save adds an entry beside the old one.
- `RatesShown` excludes pages whose answer has not come: the rating takes the details stored
  last. After a rating was sent and its own details were shown, going back and rating again
  rates the rating; before any details were stored the tap crashes.

## 5. Fairness

- `ApiBlockchain`: the timer is periodic and its thread is not stopped (`WF` of `TimerFires`,
  `TimerStep`); URLSession answers or times out every request (`WF` of each answer).
- `SpvSync`: the run loop goes on (`WF` of handshake, frames, saving); whole messages are
  delivered again and again as long as they arrive (`SF`, because parts of a message may come
  in between, and a message has finitely many bytes); the node answers what it reads (`WF`).
  Nothing is assumed of the chain, of pings, of disconnects, of the user or of restarts.
- `TxRecords`: a request is answered, fails or times out (`WF` of the end of each kind of
  request). Nothing is assumed of the explorer, the user or the chain.
- The other modules have safety properties only.

## 6. Refinement

- `Sending` implements `Ledger` (`KeepsPromise`, proved as `PromiseKept`). The payer of a send is
  the account that signs it, its stamp the nonce it read, taken are the sends the node accepted,
  open those still in its pool, and told those a page reported as sent. Every step of the pages,
  requests and timeouts is a step of the ledger or leaves it alone; an accepted send whose
  answer was lost is taken and not told.
- `SpvSync` implements `HeaderChain` (`KeepsChain`, proved as `ChainKept`). Of the stored headers
  and the balance only what `clear()`, a restart, a saved reply and a proof do to them is left. The
  abstract store grows along one branch from a header it has; that replies that are cut,
  repeated or overtaken by a reorganisation obey it is what the refinement says. "Last" in it is
  the last by the text of the height, as in the code.

## 7. Proofs

Each theorem holds for every value of the constants that satisfies the named assumptions
(`BlocksAssumption`, `NoneAssumption`, `PhraseAssumption`, `SendingAssumption`, `SpvAssumption`,
`TxRecordsAssumption`, `CertNameAssumption`, `KycAuditAssumption`, `ContactsAssumption`, and in the registry
`MaxSlotAssumption`, `StoreAssumption`, `NoCollision`), which TLC evaluates in the runs. They say
that `None` is not one of the values it is told from, that bounds are numbers, that the blocks
form a tree above the checkpoint, and that different wallets have different addresses.
`PagesProofs` extends two modules, and no proof about one cites the other's assumption.

- **API engine.** `TypeCorrect`, `HoldersMatch`, `KitMirrors` and `SyncedHasBalance` (a contract
  reported as synced has its balance stored) are inductive given the types. `NoOrphan` needs
  `TimerHasRefresh`: a timer thread that is going to set states to syncing has a refresh for the
  request that will end them. `HistoryComplete` and `TokenHistoryComplete`
  need what is true of requests in flight (`HistoryInv`): the start block of one that is not
  stale has everything below it stored, also when other answers come first. That is the
  argument for overlapping refreshes: an answer can only add blocks, so what was complete
  below a start block stays complete.
- **Mnemonic.** `ShuffleCorrect` by `ShuffleInv`: drawn and remaining numbers are disjoint and
  without repetition. `ConfirmedSpell`, `CrashesAfterSwipe` by `ConfirmInv`, which adds that the
  confirmed buttons are distinct and that nothing is confirmed before the shuffle is done.
  `AddedSpelled` is the action property that follows. `AlwaysAWayOn` adds `SelectInv` (the buttons
  shown as selected are the chosen ones, each chosen once) and a count for repeated words: were
  all buttons with the next word confirmed, its places in the whole phrase would map one to one
  to its places among the confirmed words (`Injection`, `FS_Injection`), which lack the next one.
- **Sending.** `TypeCorrect` with `Confirmed` (every send that has begun was confirmed) and `PostedOnce`.
  `NoGap` and `PaidOnce` by `NonceInv`: the nonce read is at most what is mined (`Counted`), a
  mined send is at its nonce's place (`MinedAtNonce`), and what was below it was seen when it
  was read (`SeenBefore`). `OwnerSigns` needs `PageOfShown`: an open page belongs to the account
  shown unless an import switched it. `HashAccepted` and `HudEnds` are inductive together with
  the types; `PromiseKept` follows step by step from these invariants.
- **SPV engine.** The types alone are not inductive: an answer is only handled well because it is
  the answer to what was asked. `Talk` says so: what is on the wire, in the buffer and in the
  frame reader forms a strict turn-taking (`OneTurn`), each answer carries the id and content of
  the pending request (`Matching`), and no pending request is forgotten (`NoneForgotten`).
  `TypeCorrect` and `OneOut` follow. `StoreHasNoGap` adds `Store`: what is asked for begins at a
  stored header (`AsksStored`), and once a balance is shown nothing more is asked
  (`CalmWhenShown`). `ChainKept` maps every step with the same facts.
- **Registry.** One invariant for all eight theorems: types, `NothingLost`, `ListedOnce`,
  `SlotsCounted`, and stronger forms of the others (`Wallets`, `Current`, `Pages`). Its lemmas
  are about single writes to the defaults, since a kill can cut a handler after any of them:
  each handler is proved for the defaults after every prefix of its writes. `Safekeeping` is the
  order of the writes in a deletion and a recovery; `ImportedOnce` follows from a relation
  between the addresses registered and the lists that each write preserves.
- **Records.** `NothingSkipped` and `PagesListed` by `ListInv`: a load asks for no page above the
  counter (`Requests`), and every transfer above the page that comes next (`NextPage`) is in the
  list (`Gapless`, `Exact`). New transfers push the others down, so the next page can only
  overlap the list and never leaves a hole. Both for pages of any size, hence the lemmas on
  products.
- **Certificate request.** `StaysInBounds` by counting (`Counted`): what is written is two characters
  behind what is read, and every element took at least two characters of the subject, so that
  the guessed length of the arrays has an entry more than there are elements. `RequestIsMeant`
  by `Faithful`: of a subject that spells a list, what lies ahead of the read pointer is always the
  escaped rest of the element being read, followed by the spelling of the elements after it, and
  what is behind is in `elements`, `type` and `buf`. `SubjectIsKept` by `NoLoss`, the same from the
  other end: what was read, spelled out again, is the part of the subject behind the pointer.
  Both rest on what `FlattenSeq` and the escaping of a text do at the head and the end of a
  sequence. That the function behind `FlattenSeq` exists for sequences of every length
  (`JoinsExists`), and what it yields (`FlattenCons`), is shown on the length of a smallest
  counterexample (`SmallestOf`): induction over a set of numbers, without an operator parameter.
- **KYC.** `DataStored`, `OnePieceRegistered`, `OwnPhotos`: open pages belong to the account
  shown (`PagesOwned`); who applied has data and hashes, and a certificate once passed
  (`Applied`); who has a status has data (`Decided`); and while an application is under way what
  is stored is what was uploaded, and a certificate is for just that (`Single`), unless a form
  was sent meanwhile or an account was changed under an answer. `OwnPhotos` needs `Kept`: as long
  as the account whose photos were saved last has not begun another form, front and hold are of its
  form, and the back too if that form is an identity card's. From it follows what any upload may carry
  (`KeptUnmixed`).
- **Transaction details and address book.** One invariant, `IInv`, for `EditorAlwaysFits`,
  `BookIsKept` and `RatesWhatIsShown`. `Order` says which page may lie on which: a book only on
  nothing, a rating only on details, an editor only on top; hence a book is covered by one editor
  at most. `Agrees`: the list a book page holds is the book, so that a deletion from the page's
  copy undoes nothing; the answer a request waits for is about its page's transaction, and what it
  stored still is while no other answer came. `Prompts`: an alert is only on the top page, proposes
  an address that is not in the book, and no row is named under it. `Rows` is the argument about
  the row that outlives editors and the app: under an editor it is either reset or the row of
  the entry the editor was opened for, and under a book page on top it is reset. `BookFits`
  adds that an address handed over is not in the book, in a later session either, because every
  way to store an address first lays an editor out, which takes the one handed over. The action
  properties follow from `IInv` before and after the step: what `RemoveAt` and `ReplaceAt` take from a
  list without repetition is one entry, and only `TapRating` gives a rating its target.

Only model-checked is liveness (`RefreshEnds`, `RegisteredIsRefreshed`, `SyncEnds`, `SpinnersEnd`):
temporal proofs under fairness are out of the prover's reach. Every safety property, action
property and refinement that a run checks is proved. The type invariants but that of
`TxRecords`, `SyncedHasBalance`, `HashAccepted` and `AddedSpelled` are proved and not run.

## 8. What is not modelled

Byte codecs and cryptography (RLPx frames, ECIES, RLP, trie nodes, ABIv2, big numbers,
signing): pure functions; what depends on them sees their results. HTTP and JSON-RPC plumbing:
one request, one callback. Kit sends and gas prices: no page uses them yet. Displays, exports,
settings and views: they show what they are given. Vendored code (`Pods`, `ethers.framework`,
the OpenSSL and other C headers in the tree) is by far the largest part of the repository's C and
C++; none of it is this program's logic. A second peer, discovery, and OS level stream
failures before a connection opens. Two threads inside `DatabasePool`: GRDB serialises writes.
Disk failures: `ApiGrdbStorage.swift:130` ignores a failing write and the kit shows the new value
all the same; the models take writes to succeed.

Within modelled components: in KYC a swipe back that is cancelled, deleting an account that applied (its entries stay as they are),
and the repeated poll of the chain page. In the details page, how the proposed
party is chosen: the code compares `"0x" +` the account's address with addresses in the other
notation (`USETransferCompletedVC.swift:59`), which never match, so that it is always the recipient,
also when that is oneself; `Contacts` takes one party per transaction. In the registry, what
exports copy.

## 9. Plan

1. *Done:* all modules of section 3, both refinements, and the proofs of section 7.
2. Kit sends: the pending nonce two sends share, and the stored transaction without a block
   that `lastTransactionBlockHeight` must not count.
3. Algorithms as operators against reference definitions: `FrameCodec.readFrame`'s padding and
   lengths, RLP, `TrieNode.getPath`, `CapabilityHelper.sharedCapabilities`.
4. An abstract `Wallets` (owned, recoverable, gone) implemented by `WalletRegistry`.

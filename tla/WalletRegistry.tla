--------------------------- MODULE WalletRegistry ---------------------------
(***************************************************************************)
(* The wallets of the app and the account it shows: what the pages that     *)
(* create, import, open, rename, delete and recover a wallet, change its    *)
(* passcode or generate a sub account, keep in UserDefaults.                *)
(*                                                                          *)
(* Every handler runs on the main thread, so handlers do not interleave.    *)
(* Three things still make the order of writes matter.  A keystore is       *)
(* decrypted in the background and its handler runs whatever page is open   *)
(* by then.  A page works with the account that was current when it was     *)
(* opened.  And the app may be killed in a handler: UserDefaults then hold  *)
(* the writes made so far.  A handler is therefore given by the defaults    *)
(* after all its writes and the set of those after some of them.            *)
(*                                                                          *)
(* A wallet is known by its store: a mnemonic phrase or a private key.      *)
(* Passcode prompts are modelled where the right one is typed: with any     *)
(* other the handlers return at once.  Left out: the KYC entries (see       *)
(* README), exports, which write nothing, and the encrypted copies whose    *)
(* result is dropped.                                                       *)
(***************************************************************************)
EXTENDS Integers, SequencesExt

CONSTANTS
    Mnemonic,     \* mnemonic phrases
    Key,          \* private keys, those of sub accounts among them
    Address,      \* account addresses
    Name,         \* the wallet names users choose
    ImportName,   \* the name an import gives, told from the others or not
    ChildName,    \* the name a sub account gets
    Passcode,     \* the passcodes users choose
    Tap,          \* keystore imports under way at once (a bound for TLC)
    MaxSlot,      \* sub accounts per wallet (a bound for TLC)
    AddressOf,    \* external: the address of a store's account (slot 0)
    ChildKey,     \* external: a sub account's key, from an account, a phrase, a
                  \* slot (its domain bounds the derivations TLC explores)
    None          \* nil

Store == Mnemonic \cup Key

ASSUME MaxSlotAssumption == MaxSlot \in Nat

ASSUME StoreAssumption ==
    /\ Mnemonic \cap Key = {}
    /\ None \notin Store
    /\ AddressOf \in [Store -> Address]
    /\ DOMAIN ChildKey \subseteq Address \X Mnemonic \X (1..MaxSlot)
    /\ ChildKey \in [DOMAIN ChildKey -> Key]

\* Different derivations do not collide.  Stores may: one account can be imported
\* as a phrase, as a key, or with its key spelled in another case.
ASSUME NoCollision ==
    \A d, e \in DOMAIN ChildKey : ChildKey[d] = ChildKey[e] => d = e

VARIABLES
    ud,       \* UserDefaults
    app,      \* what is in memory: the open pages and the keystores being decrypted
    owned,    \* history: stores ever listed and not removed for good
    made,     \* history: stores created or generated here rather than imported
    torn,     \* history: the app was killed in a handler
    crossed   \* history: a page opened for one wallet acted while another was current

vars == <<ud, app, owned, made, torn, crossed>>

Names == Name \cup {ImportName, ChildName}

Account == [name : Names, store : Store, address : Address]

Info == [name : Names, passcode : Passcode]

ASSUME NoneAssumption ==
    /\ None \notin Name \cup Passcode
    /\ None \notin Account
    /\ None \notin Info

\* The wallets of a list and those the pages show.
Listed(d) == ToSet(d.mnemonics) \cup ToSet(d.keys)

ListOf(d, s) == IF s \in Mnemonic THEN d.mnemonics ELSE d.keys

Listing(d, s) ==
    IF s \in Mnemonic
    THEN [d EXCEPT !.mnemonics = Append(@, s)]
    ELSE [d EXCEPT !.keys = Append(@, s)]

\* What is left of a list when only the stores in S are kept.
Only(list, S) ==
    LET kept[n \in 0..Len(list)] ==
            IF n = 0 THEN <<>>
            ELSE IF list[n] \in S THEN Append(kept[n - 1], list[n]) ELSE kept[n - 1]
    IN  kept[Len(list)]

Others(list, s) == Only(list, Store \ {s})

AccountOf(d, s) ==
    [name |-> d.info[s].name, store |-> s, address |-> AddressOf[s]]

NothingStored ==
    [mnemonics |-> <<>>,                       \* USEUserWallets
     keys      |-> <<>>,                       \* USEUserPrivateKeyWallets
     recover   |-> <<>>,                       \* USErecoverWalletsKey
     addresses |-> {},                         \* USEWalletsAddressStore
     info      |-> [s \in Store |-> None],     \* <store>: its name and passcode
     pubKeys   |-> {},                         \* UmPublickKeyBy<address>
     current   |-> None,                       \* USECurrentAccountInfo
     draft     |-> [name |-> None, passcode |-> None, mnemonic |-> None],
                                               \* USEUserWalletName, ...Passcode, ...Mnemonic
     slot      |-> [a \in Address |-> 0],      \* childAccountSlot<address>
     child     |-> [a \in Address |-> None]]   \* parentAccontInfoHalfKey<address>,
                                               \* currentChildAccountSlotHalfKey<address>

\* The app as it starts: the main page, nothing being decrypted.
Launched ==
    [page |-> "main", detail |-> None, over |-> None,
     decrypting |-> [t \in Tap |-> None]]

Init ==
    /\ ud = NothingStored
    /\ app = Launched
    /\ owned = {}
    /\ made = {}
    /\ torn = FALSE
    /\ crossed = FALSE

-----------------------------------------------------------------------------
\* A handler makes all its writes, or is killed between two of them.
Handler(partial, final, next) ==
    \/ /\ ud' = final
       /\ app' = next
       /\ UNCHANGED torn
    \/ /\ ud' \in partial
       /\ app' = Launched
       /\ torn' = TRUE

\* Mutant: the public key is not stored.
WithoutPubKey(d, a) == d

WithPubKey(d, a) == [d EXCEPT !.pubKeys = @ \cup {a}]

WithInfo(d, s, n, p) == [d EXCEPT !.info[s] = [name |-> n, passcode |-> p]]

\* Histories: stores that are listed now are owned.
Owns == owned' = owned \cup Listed(ud')
Makes(s) == made' = made \cup ({s} \cap Listed(ud'))

Goes(page) == [app EXCEPT !.page = page, !.detail = None, !.over = None]

\* The main page and the list of wallets turn public keys into UM addresses,
\* the app crashes when one is missing.
MainOpens == ud.current # None => ud.current.address \in ud.pubKeys

ListOpens ==
    \A s \in Listed(ud) : ud.info[s] # None => AddressOf[s] \in ud.pubKeys

AtMain == app.page = "main" /\ MainOpens

-----------------------------------------------------------------------------
\* Creating a wallet.

\* The next page draws a random phrase: one that nobody has seen.
Fresh(m) ==
    /\ m \notin Listed(ud)
    /\ ud.info[m] = None
    /\ AddressOf[m] \notin ud.addresses

CreateClicked(n, p, m) ==
    /\ AtMain
    /\ Fresh(m)
    /\ LET passcodeSet == [ud EXCEPT !.draft.passcode = p]
           nameSet     == [passcodeSet EXCEPT !.draft.name = n]
           phraseSet   == [nameSet EXCEPT !.draft.mnemonic = m]
       IN \/ ud' = phraseSet /\ app' = Goes("create")
          \/ ud' \in {passcodeSet, nameSet} /\ app' = Launched
    /\ UNCHANGED <<owned, made, torn, crossed>>

\* All twelve words were chosen in order (see MnemonicConfirm).
ConfirmCreated ==
    LET m == ud.draft.mnemonic
        a == AddressOf[m]
        listed == Listing(ud, m)
        named  == WithInfo(listed, m, ud.draft.name, ud.draft.passcode)
        keyed  == WithPubKey(named, a)
        chosen == [keyed EXCEPT !.current = AccountOf(named, m)]
    IN /\ app.page = "create"
       /\ m \notin ToSet(ud.mnemonics)
       /\ Handler({listed, named, keyed}, chosen, Goes("main"))
       /\ Owns
       /\ Makes(m)
       /\ UNCHANGED crossed

-----------------------------------------------------------------------------
\* Importing a wallet.

\* kHasThisAddress looks the address up and, when it is not there, registers it.
HasThisAddress(a) == a \in ud.addresses

\* Mutant: the address is looked up only.
Unregistered(a) == ud

Registered(a) == [ud EXCEPT !.addresses = @ \cup {a}]

Import(s, p, next) ==
    LET a      == AddressOf[s]
        listed == Listing(Registered(a), s)
        named  == WithInfo(listed, s, ImportName, p)
        chosen == [named EXCEPT !.current = AccountOf(named, s)]
        keyed  == WithPubKey(chosen, a)
    IN \/ /\ HasThisAddress(a)
          /\ app' = next
          /\ UNCHANGED <<ud, torn>>
       \/ /\ ~HasThisAddress(a)
          /\ s \in ToSet(ListOf(ud, s))
          /\ Handler({}, Registered(a), next)
       \/ /\ ~HasThisAddress(a)
          /\ s \notin ToSet(ListOf(ud, s))
          /\ Handler({Registered(a), listed, named, chosen}, keyed, next)

ImportStore(s, p) ==
    /\ AtMain
    /\ Import(s, p, app)
    /\ Owns
    /\ UNCHANGED <<made, crossed>>

\* The page shows a HUD, but the user may leave it.
KeystoreTapped(t, k, p) ==
    /\ AtMain
    /\ app.decrypting[t] = None
    /\ app' = [app EXCEPT !.decrypting[t] = [key |-> k, passcode |-> p]]
    /\ UNCHANGED <<ud, owned, made, torn, crossed>>

Decrypted(t) == [app EXCEPT !.decrypting[t] = None]

KeystoreDecrypted(t) ==
    /\ app.decrypting[t] # None
    /\ Import(app.decrypting[t].key, app.decrypting[t].passcode, Decrypted(t))
    /\ Owns
    /\ UNCHANGED <<made, crossed>>

KeystoreFails(t) ==
    /\ app.decrypting[t] # None
    /\ app' = Decrypted(t)
    /\ UNCHANGED <<ud, owned, made, torn, crossed>>

-----------------------------------------------------------------------------
\* The list of wallets.

\* A row is drawn for the wallets that have a name.
Row(s) == s \in Listed(ud) /\ ud.info[s] # None

Select(s) ==
    /\ AtMain
    /\ ud.current # None
    /\ ListOpens
    /\ Row(s)
    /\ ud' = [ud EXCEPT !.current = AccountOf(ud, s)]
    /\ UNCHANGED <<app, owned, made, torn, crossed>>

\* The detail page reads the current account when it is made.
OpenDetail(s) ==
    /\ AtMain
    /\ ud.current # None
    /\ ListOpens
    /\ Row(s)
    /\ ud' = [ud EXCEPT !.current = AccountOf(ud, s)]
    /\ app' = [app EXCEPT !.page = "detail", !.detail = AccountOf(ud, s)]
    /\ UNCHANGED <<owned, made, torn, crossed>>

Back ==
    /\ app.page # "main"
    /\ app' = IF app.page \in {"passcode", "subAccount"}
              THEN [app EXCEPT !.page = "detail", !.over = None]
              ELSE Goes("main")
    /\ UNCHANGED <<ud, owned, made, torn, crossed>>

-----------------------------------------------------------------------------
\* The detail page.

\* The account after a deletion: the first phrase, else the first key, else none.
Remains(d) == d.mnemonics \o d.keys

\* Mutant: the list is written first, the deleted wallet is kept afterwards.
DeleteThenKeep ==
    LET s    == app.detail.store
        left == [ud EXCEPT !.mnemonics = Others(@, s), !.keys = Others(@, s)]
        kept == [left EXCEPT !.recover = @ \o Only(Remains(ud), {s})]
        next == [kept EXCEPT !.current =
                    IF Remains(left) = <<>> THEN None
                    ELSE AccountOf(left, Head(Remains(left)))]
    IN /\ app.page = "detail"
       /\ Handler({left, kept}, next, Goes("main"))
       /\ Owns
       /\ UNCHANGED <<made, crossed>>

\* Mutant: the account shown stays.
DeleteKeepsCurrent ==
    LET s == app.detail.store
        left == [ud EXCEPT !.recover = Append(@, s),
                           !.mnemonics = Others(@, s), !.keys = Others(@, s)]
    IN /\ app.page = "detail"
       /\ Handler({}, left, Goes("main"))
       /\ Owns
       /\ UNCHANGED <<made, crossed>>

\* One write per occurrence in the list, then the list, then the account.  An
\* account without a name cannot be written: the app crashes there.
Delete ==
    LET s        == app.detail.store
        found    == Only(Remains(ud), {s})
        kept(n)  == [ud EXCEPT !.recover = @ \o SubSeq(found, 1, n)]
        left     == [kept(Len(found)) EXCEPT !.mnemonics = Others(@, s),
                                             !.keys = Others(@, s)]
        partial  == {kept(n) : n \in 1..Len(found)} \cup {left}
        chosen   == [left EXCEPT !.current =
                        IF Remains(left) = <<>> THEN None
                        ELSE AccountOf(left, Head(Remains(left)))]
    IN /\ app.page = "detail"
       /\ \/ /\ Remains(left) # <<>> => left.info[Head(Remains(left))] # None
             /\ Handler(partial, chosen, Goes("main"))
          \/ /\ ud' \in partial
             /\ app' = Launched
             /\ torn' = TRUE
       /\ Owns
       /\ UNCHANGED <<made, crossed>>

\* The wallet is the page's, the address that of the account shown now.
Crosses(w) == crossed' = (crossed \/ w.store # ud.current.store)

\* Mutant: the name is changed in the account only.
RenameShown(n) ==
    /\ app.page = "detail"
    /\ ud' = [ud EXCEPT !.current.name = n]
    /\ Crosses(app.detail)
    /\ UNCHANGED <<app, owned, made, torn>>

Rename(n) ==
    LET s       == app.detail.store
        named   == [ud EXCEPT !.info[s].name = n]
        chosen  == [named EXCEPT !.current = [name |-> n, store |-> s,
                                              address |-> ud.current.address]]
    IN /\ app.page = "detail"
       /\ Handler({named}, chosen, app)
       /\ Crosses(app.detail)
       /\ UNCHANGED <<owned, made>>

OpenPasscode ==
    /\ app.page = "detail"
    /\ app' = [app EXCEPT !.page = "passcode"]
    /\ UNCHANGED <<ud, owned, made, torn, crossed>>

\* The page reads the account at the first click, whether it then changes the
\* passcode or refuses the old one.
PasscodeOwner == IF app.over = None THEN ud.current ELSE app.over

PasscodeRefused ==
    /\ app.page = "passcode"
    /\ app' = [app EXCEPT !.over = PasscodeOwner]
    /\ UNCHANGED <<ud, owned, made, torn, crossed>>

ChangePasscode(p) ==
    LET s == PasscodeOwner.store
    IN /\ app.page = "passcode"
       /\ p # ud.info[s].passcode
       /\ ud' = [ud EXCEPT !.info[s].passcode = p]
       /\ app' = [app EXCEPT !.over = PasscodeOwner]
       /\ UNCHANGED <<owned, made, torn, crossed>>

-----------------------------------------------------------------------------
\* Sub accounts.

\* Opened for an account that is not itself a sub account; with a private key
\* the page only refuses.
OpenSubAccount ==
    /\ app.page = "detail"
    /\ ud.child[app.detail.address] = None
    /\ ud.current.store \in Mnemonic
    /\ app' = [app EXCEPT !.page = "subAccount", !.over = ud.current]
    /\ UNCHANGED <<ud, owned, made, torn, crossed>>

NextSlot(d, a) == [d EXCEPT !.slot[a] = @ + 1]

\* Mutant: the slot is counted once the sub account is there.
GenerateCountsLast(p) ==
    LET w       == app.over
        slot    == ud.slot[w.address] + 1
        from    == <<AddressOf[ud.current.store], w.store, slot>>
        k       == ChildKey[from]
        a       == AddressOf[k]
        listed  == Listing(ud, k)
        keyed   == WithPubKey(listed, a)
        child   == [parent |-> ud.current.store, slot |-> slot]
        slotted == [keyed EXCEPT !.child[a] = child]
        named   == WithInfo(slotted, k, ChildName, p)
        chosen  == [named EXCEPT !.current = AccountOf(named, k)]
    IN /\ app.page = "subAccount"
       /\ from \in DOMAIN ChildKey
       /\ Handler({listed, keyed, slotted, named, chosen}, NextSlot(chosen, w.address),
                  Goes("main"))
       /\ Owns
       /\ Makes(k)
       /\ Crosses(w)

\* The key is derived from the account shown now and the page's phrase.  A key
\* that is already listed is reported, and listed again.
Generate(p) ==
    LET w       == app.over
        slot    == ud.slot[w.address] + 1
        from    == <<AddressOf[ud.current.store], w.store, slot>>
        k       == ChildKey[from]
        a       == AddressOf[k]
        counted == NextSlot(ud, w.address)
        listed  == Listing(counted, k)
        keyed   == WithPubKey(listed, a)
        parented == [keyed EXCEPT !.child[a] =
                        [parent |-> ud.current.store,
                         slot |-> IF @ = None THEN 0 ELSE @.slot]]
        slotted == [parented EXCEPT !.child[a].slot = slot]
        named   == WithInfo(slotted, k, ChildName, p)
        chosen  == [named EXCEPT !.current = AccountOf(named, k)]
    IN /\ app.page = "subAccount"
       /\ from \in DOMAIN ChildKey
       /\ Handler({counted, listed, keyed, parented, slotted, named}, chosen, Goes("main"))
       /\ Owns
       /\ Makes(k)
       /\ Crosses(w)

-----------------------------------------------------------------------------
\* Recovering deleted wallets, or removing them for good.

RecoverOpens ==
    \A s \in ToSet(ud.recover) : ud.info[s] # None /\ AddressOf[s] \in ud.pubKeys

\* Mutant: the wallet is listed without searching the list.
RecoverAnyway(s) ==
    /\ AtMain
    /\ ud.current # None
    /\ RecoverOpens
    /\ s \in ToSet(ud.recover)
    /\ LET listed == Listing(ud, s)
       IN Handler({listed}, [listed EXCEPT !.recover = Others(@, s)], app)
    /\ Owns
    /\ UNCHANGED <<made, crossed>>

Recover(s) ==
    /\ AtMain
    /\ ud.current # None
    /\ RecoverOpens
    /\ s \in ToSet(ud.recover)
    /\ LET listed == IF s \in ToSet(ListOf(ud, s)) THEN ud ELSE Listing(ud, s)
       IN Handler({listed}, [listed EXCEPT !.recover = Others(@, s)], app)
    /\ Owns
    /\ UNCHANGED <<made, crossed>>

RemoveForever(s) ==
    /\ AtMain
    /\ ud.current # None
    /\ RecoverOpens
    /\ s \in ToSet(ud.recover)
    /\ ud' = [ud EXCEPT !.recover = Others(@, s)]
    /\ owned' = (owned \ {s}) \cup Listed(ud)
    /\ UNCHANGED <<app, made, torn, crossed>>

\* The app is killed between handlers, and started again.
Restart ==
    /\ app' = Launched
    /\ UNCHANGED <<ud, owned, made, torn, crossed>>

Next ==
    \/ \E n \in Name, p \in Passcode, m \in Mnemonic : CreateClicked(n, p, m)
    \/ ConfirmCreated
    \/ \E s \in Store, p \in Passcode : ImportStore(s, p)
    \/ \E t \in Tap, k \in Key, p \in Passcode : KeystoreTapped(t, k, p)
    \/ \E t \in Tap : KeystoreDecrypted(t) \/ KeystoreFails(t)
    \/ \E s \in Store : Select(s) \/ OpenDetail(s)
    \/ Back
    \/ Delete
    \/ \E n \in Name : Rename(n)
    \/ OpenPasscode
    \/ PasscodeRefused
    \/ \E p \in Passcode : ChangePasscode(p)
    \/ OpenSubAccount
    \/ \E p \in Passcode : Generate(p)
    \/ \E s \in Store : Recover(s) \/ RemoveForever(s)
    \/ Restart

Spec == Init /\ [][Next]_vars

-----------------------------------------------------------------------------
Repeated(list, s) == \E i, j \in DOMAIN list : i # j /\ list[i] = s /\ list[j] = s

TypeOK ==
    /\ ud \in [mnemonics : Seq(Mnemonic),
               keys      : Seq(Key),
               recover   : Seq(Store),
               addresses : SUBSET Address,
               info      : [Store -> Info \cup {None}],
               pubKeys   : SUBSET Address,
               current   : Account \cup {None},
               draft     : [name : Name \cup {None}, passcode : Passcode \cup {None},
                            mnemonic : Mnemonic \cup {None}],
               slot      : [Address -> 0..MaxSlot],
               child     : [Address -> [parent : Store, slot : 0..MaxSlot] \cup {None}]]
    /\ app \in [page : {"main", "create", "detail", "passcode", "subAccount"},
                detail : Account \cup {None},
                over : Account \cup {None},
                decrypting : [Tap -> [key : Key, passcode : Passcode] \cup {None}]]
    /\ owned \subseteq Store
    /\ made \subseteq Store
    /\ torn \in BOOLEAN
    /\ crossed \in BOOLEAN

\* A wallet that was ever listed is listed or can be recovered until the user
\* removes it for good, wherever the app was killed.
NothingLost == owned \subseteq Listed(ud) \cup ToSet(ud.recover)

\* Two wallets of one account are listed only when one was created or generated
\* here: those addresses are not registered, imported ones are, for good.
OneWalletPerAccount ==
    \A s, t \in Listed(ud) :
        s # t /\ AddressOf[s] = AddressOf[t] => s \in made \/ t \in made

\* A list holds a wallet once, but for a sub account's key that was imported before it
\* was generated: it is appended though it is there, and was registered by the import.
\* No kill in a handler and no repeated recovery lists a wallet twice, and no slot is
\* used again, unless a page opened for one wallet acted while another was current.
ListedOnce ==
    \A s \in Store :
        Repeated(ListOf(ud, s), s) =>
            s \in Key \cap made /\ (crossed \/ AddressOf[s] \in ud.addresses)

\* What the pages unwrap is there, unless the app was killed in a handler: a
\* name and passcode, and a public key, for every wallet.
PagesOpen ==
    ~torn =>
        /\ \A s \in Listed(ud) \cup ToSet(ud.recover) :
               ud.info[s] # None /\ AddressOf[s] \in ud.pubKeys
        /\ MainOpens

\* The account shown is a listed wallet, unless the app was killed in a handler.
CurrentListed ==
    ~torn /\ ud.current # None => ud.current.store \in Listed(ud)

\* It is shown with its wallet's name and address, unless a page opened for one
\* wallet acted while another was current.
CurrentShown ==
    ~torn /\ ~crossed /\ ud.current # None =>
        ud.current = AccountOf(ud, ud.current.store)

\* The slots of a wallet's sub accounts are counted, also when the app is killed
\* while one is generated, so that no sub account is derived twice.
SlotsCounted ==
    ~crossed =>
        \A m \in Mnemonic, i \in 1..MaxSlot :
            /\ <<AddressOf[m], m, i>> \in DOMAIN ChildKey
            /\ ChildKey[<<AddressOf[m], m, i>>] \in made
            => i <= ud.slot[AddressOf[m]]
=============================================================================

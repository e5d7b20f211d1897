------------------------------- MODULE Sending -------------------------------
(***************************************************************************)
(* Sending a transaction from the app: the pages for a transfer, a rating,   *)
(* the registration of an account (KYC) or of a sub account ask for the      *)
(* passcode, then all of them call sendUSETransactionWith, which asks the    *)
(* node for the account's transaction count, signs with it as the nonce and  *)
(* posts the transaction.                                                    *)
(*                                                                          *)
(* The page that sends is covered by a HUD, its back button is not: the user *)
(* may leave and open another page while the requests are out.  Requests     *)
(* fail or time out at any point, also after the node took the transaction.  *)
(* The account is the node's to count: transactions sent from another device *)
(* count too.  The node (pool, mined) is external: one transaction per       *)
(* account and nonce, replaced only by a dearer one.                         *)
(*                                                                          *)
(* What a page pushes on success is left out: it sends nothing itself, and   *)
(* the user comes back to this page or leaves it.                            *)
(***************************************************************************)
EXTENDS Integers, Sequences

CONSTANTS
    Account,    \* accounts
    Send,       \* sends that are confirmed (a bound for TLC)
    Price,      \* the gas prices a kind of page may use
    MaxMined,   \* transactions mined per account (a bound for TLC)
    None        \* nil

Kind == {"transfer", "rating", "kyc", "subAccount"}

\* What was confirmed of a send.
Sent == [owner : Account, signer : Account, price : Nat]

ASSUME SendingAssumption ==
    /\ None \notin Send
    /\ None \notin Account
    /\ None \notin Nat
    /\ None \notin Sent
    /\ Price \in [Kind -> SUBSET Nat]
    /\ MaxMined \in Nat

VARIABLES
    shown,      \* the account shown (USECurrentAccountInfo)
    page,       \* the page that can send: its kind, the account it asks the passcode
                \* of once clicked, the account whose slot the sub account page derives,
                \* the send its HUD is shown for; None when no such page is open
    send,       \* what was confirmed: for which owner, signed by whom, at which price
    client,     \* what the app knows of a send
    nonce,      \* the nonce a send was signed with
    hash,       \* currentTXHash
    post,       \* the posted transaction on its way to the node, and its verdict
    pool,       \* the node's pending transactions
    mined,      \* the mined transactions of an account, None for other devices'
    before,     \* history: what was mined of the account when the nonce was read
    switched    \* history: the account shown changed under an open page

app  == <<shown, page, hash, switched>>
node == <<pool, mined>>
vars == <<app, send, client, nonce, before, post, node>>

Init ==
    /\ shown \in Account
    /\ page = None
    /\ hash = None
    /\ switched = FALSE
    /\ send = [t \in Send |-> None]
    /\ client = [t \in Send |-> "new"]
    /\ nonce = [t \in Send |-> None]
    /\ before = [t \in Send |-> {}]
    /\ post = [t \in Send |-> "none"]
    /\ pool = {}
    /\ mined = [a \in Account |-> <<>>]

-----------------------------------------------------------------------------
\* The account shown, see WalletRegistry.

\* The user selects a wallet in the list.
SelectWallet(a) ==
    /\ page = None
    /\ shown' = a
    /\ UNCHANGED <<page, hash, switched, send, client, nonce, before, post, node>>

\* A keystore import that was left behind ends.
KeystoreImported(a) ==
    /\ a # shown
    /\ shown' = a
    /\ switched' = (switched \/ page # None)
    /\ UNCHANGED <<page, hash, send, client, nonce, before, post, node>>

-----------------------------------------------------------------------------
\* Pages.

\* The sub account page reads the slot of its account when it opens.
Open(k) ==
    /\ page = None
    /\ page' = [kind |-> k,
                owner |-> None,
                slotOf |-> IF k = "subAccount" THEN shown ELSE None,
                sending |-> None]
    /\ UNCHANGED <<shown, hash, switched, send, client, nonce, before, post, node>>

Leave ==
    /\ page # None
    /\ page' = None
    /\ UNCHANGED <<shown, hash, switched, send, client, nonce, before, post, node>>

\* The passcode is asked for.  walletInfo is read at the first click.  The sub account
\* page derives its account at every click, from the parent of the account shown and
\* the phrase and slot of the one it was opened for: any account when they differ.
\* Where nothing is stored of that account the app stops, see Restart.
Click ==
    /\ page # None
    /\ page.sending = None
    /\ page.owner = None \/ page.slotOf # None
    /\ \E a \in Account :
          /\ page.slotOf \in {None, shown} => a = shown
          /\ page' = [page EXCEPT !.owner = a]
    /\ UNCHANGED <<shown, hash, switched, send, client, nonce, before, post, node>>

\* The passcode was right.  The sub account page signs with the key whose
\* passcode it asked for, the others with the account shown now.
Confirm(t, price) ==
    /\ page # None
    /\ page.owner # None
    /\ page.sending = None
    /\ client[t] = "new"
    /\ price \in Price[page.kind]
    /\ send' = [send EXCEPT ![t] =
                   [owner |-> page.owner, price |-> price,
                    signer |-> IF page.kind = "subAccount" THEN page.owner ELSE shown]]
    /\ client' = [client EXCEPT ![t] = "nonce"]
    /\ page' = [page EXCEPT !.sending = t]
    /\ UNCHANGED <<shown, hash, switched, nonce, before, post, node>>

-----------------------------------------------------------------------------
\* sendUSETransactionWith.

Signer(t) == send[t].signer

\* Mutant: the HUD stays when the send ended without an answer.
HudStays(t, answered) ==
    page' = IF page # None /\ page.sending = t /\ answered
            THEN [page EXCEPT !.sending = None]
            ELSE page

\* The callback hides the HUD of its page, if that is still open; on the KYC page
\* only when there is an answer.
HudHides(t, answered) ==
    page' = IF /\ page # None
               /\ page.sending = t
               /\ answered \/ page.kind # "kyc"
            THEN [page EXCEPT !.sending = None]
            ELSE page

\* Mutant: the transaction is signed by the account shown when the nonce arrives.
SignLater(t, n) ==
    /\ nonce' = [nonce EXCEPT ![t] = n]
    /\ send' = [send EXCEPT ![t].signer = shown]
    /\ client' = [client EXCEPT ![t] = "posted"]
    /\ post' = [post EXCEPT ![t] = "wire"]

SignAndPost(t, n) ==
    /\ nonce' = [nonce EXCEPT ![t] = n]
    /\ client' = [client EXCEPT ![t] = "posted"]
    /\ post' = [post EXCEPT ![t] = "wire"]
    /\ UNCHANGED send

MinedOf(a) == {mined[a][i] : i \in DOMAIN mined[a]} \ {None}

\* Mutant: the count includes pending transactions.
CountPending(a) == Len(mined[a]) + (IF \E t \in pool : Signer(t) = a THEN 1 ELSE 0)

\* Mutant: the next nonce but one.
CountOneMore(a) == Len(mined[a]) + 1

\* eth_getTransactionCount(address, "latest").
Count(a) == Len(mined[a])

NonceArrives(t) ==
    /\ client[t] = "nonce"
    /\ SignAndPost(t, Count(Signer(t)))
    /\ before' = [before EXCEPT ![t] = MinedOf(Signer(t))]
    /\ UNCHANGED <<app, node>>

\* An answer without a result is the nonce 0 (numberHexString of nil).
NonceMissing(t) ==
    /\ client[t] = "nonce"
    /\ SignAndPost(t, 0)
    /\ before' = [before EXCEPT ![t] = MinedOf(Signer(t))]
    /\ UNCHANGED <<app, node>>

NonceFails(t) ==
    /\ client[t] = "nonce"
    /\ client' = [client EXCEPT ![t] = "failed"]
    /\ HudHides(t, FALSE)
    /\ UNCHANGED <<shown, hash, switched, send, nonce, before, post, node>>

\* Mutant: an error is not looked for.
HashAnyway(t) ==
    /\ client[t] = "posted"
    /\ post[t] \in {"accepted", "refused"}
    /\ client' = [client EXCEPT ![t] = "sent"]
    /\ hash' = t
    /\ HudHides(t, TRUE)
    /\ UNCHANGED <<shown, switched, send, nonce, before, post, node>>

Answered(t) ==
    /\ client[t] = "posted"
    /\ \/ /\ post[t] = "accepted"
          /\ client' = [client EXCEPT ![t] = "sent"]
          /\ hash' = t
       \/ /\ post[t] = "refused"
          /\ client' = [client EXCEPT ![t] = "refused"]
          /\ UNCHANGED hash
    /\ HudHides(t, TRUE)
    /\ UNCHANGED <<shown, switched, send, nonce, before, post, node>>

\* The request fails or times out, wherever the transaction is.
PostFails(t) ==
    /\ client[t] = "posted"
    /\ client' = [client EXCEPT ![t] = "failed"]
    /\ HudHides(t, FALSE)
    /\ UNCHANGED <<shown, hash, switched, send, nonce, before, post, node>>

\* The app is killed and started again.
Restart ==
    /\ page' = None
    /\ client' = [t \in Send |->
                     IF client[t] \in {"nonce", "posted"} THEN "failed" ELSE client[t]]
    /\ UNCHANGED <<shown, hash, switched, send, nonce, before, post, node>>

-----------------------------------------------------------------------------
\* The node.

SameSlot(t, u) == Signer(t) = Signer(u) /\ nonce[t] = nonce[u]

Accept(t) ==
    /\ post[t] = "wire"
    /\ nonce[t] >= Len(mined[Signer(t)])
    /\ \A u \in pool : SameSlot(t, u) => send[u].price < send[t].price
    /\ post' = [post EXCEPT ![t] = "accepted"]
    /\ pool' = {u \in pool : ~SameSlot(t, u)} \cup {t}
    /\ UNCHANGED <<app, send, client, nonce, before, mined>>

\* A nonce that was used, a price that does not beat the pending one, no funds.
Refuse(t) ==
    /\ post[t] = "wire"
    /\ post' = [post EXCEPT ![t] = "refused"]
    /\ UNCHANGED <<app, send, client, nonce, before, node>>

Mines(a, t) ==
    /\ Len(mined[a]) < MaxMined
    /\ mined' = [mined EXCEPT ![a] = Append(@, t)]
    /\ pool' = {u \in pool : Signer(u) = a => nonce[u] # Len(mined[a])}
    /\ UNCHANGED <<app, send, client, nonce, before, post>>

MineOwn(t) ==
    /\ t \in pool
    /\ nonce[t] = Len(mined[Signer(t)])
    /\ Mines(Signer(t), t)

MineOther(a) == Mines(a, None)

Next ==
    \/ \E a \in Account : SelectWallet(a) \/ KeystoreImported(a) \/ MineOther(a)
    \/ \E k \in Kind : Open(k)
    \/ Leave
    \/ Click
    \/ \E t \in Send : \E price \in UNION {Price[k] : k \in Kind} : Confirm(t, price)
    \/ \E t \in Send :
          \/ NonceArrives(t) \/ NonceMissing(t) \/ NonceFails(t)
          \/ Answered(t) \/ PostFails(t)
          \/ Accept(t) \/ Refuse(t) \/ MineOwn(t)
    \/ Restart

Spec == Init /\ [][Next]_vars

-----------------------------------------------------------------------------
Page == [kind : Kind, owner : Account \cup {None}, slotOf : Account \cup {None},
         sending : Send \cup {None}]

TypeOK ==
    /\ shown \in Account
    /\ page \in Page \cup {None}
    /\ hash \in Send \cup {None}
    /\ switched \in BOOLEAN
    /\ send \in [Send -> Sent \cup {None}]
    /\ client \in [Send -> {"new", "nonce", "posted", "sent", "refused", "failed"}]
    /\ nonce \in [Send -> Nat \cup {None}]
    /\ before \in [Send -> SUBSET Send]
    /\ post \in [Send -> {"none", "wire", "accepted", "refused"}]
    /\ pool \subseteq Send
    /\ mined \in [Account -> Seq(Send \cup {None})]

\* A send is signed by the account whose passcode was asked for, also when the
\* user has left the page and selected another wallet before the nonce arrives,
\* unless the account shown changed under an open page.
SignedByOwner ==
    ~switched => \A t \in Send : send[t] # None => Signer(t) = send[t].owner

\* No accepted transaction waits for one with a lower nonce: each is the next.
NoNonceGap == \A t \in pool : nonce[t] = Len(mined[Signer(t)])

\* Sending again does not pay twice while the first send is not mined: of two
\* mined sends of an account, one was mined when the other's nonce was read.
NotPaidTwice ==
    \A a \in Account : \A t, u \in MinedOf(a) :
        t # u => t \in before[u] \/ u \in before[t]

\* What the sends are in the terms of Ledger.
Charged == [t \in Send |-> IF send[t] = None THEN None ELSE Signer(t)]
Taken   == {t \in Send : post[t] = "accepted"}
Told    == {t \in Send : client[t] = "sent"}

\* What the user may rely on, whatever pages, requests and timeouts do in between:
\* one payer per send, nothing taken but as the payer's very next payment, a send
\* reported as sent only when the node took it.  See Ledger.
Promise == INSTANCE Ledger WITH
    payer <- Charged, stamp <- nonce, taken <- Taken, open <- pool, paid <- mined,
    told <- Told

KeepsPromise == Promise!Spec

\* The transaction the next pages show is one that the node took.
HashWasAccepted == hash # None => post[hash] = "accepted"

\* A page is covered by its HUD only while its send is under way: every way a send
\* ends, also for a page that was left and opened again, uncovers the page.  Only
\* the KYC page stays covered when there was no answer.
HudWhileSending ==
    page # None /\ page.sending # None =>
        \/ client[page.sending] \in {"nonce", "posted"}
        \/ page.kind = "kyc" /\ client[page.sending] = "failed"
=============================================================================

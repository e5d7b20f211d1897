---------------------------- MODULE SendingProofs ----------------------------
(***************************************************************************)
(* Proofs about Sending, for any accounts, sends and gas prices, and any     *)
(* number of mined transactions.                                            *)
(***************************************************************************)
EXTENDS Sending, TLAPS

\* What was confirmed is known of every send that is not new.
Confirmed == \A t \in Send : client[t] # "new" => send[t] \in Sent

\* A nonce is read once, and the transaction is posted with it.
PostedOnce ==
    \A t \in Send :
        /\ nonce[t] # None <=> post[t] # "none"
        /\ client[t] \in {"new", "nonce"} => post[t] = "none"
        /\ t \in pool => post[t] = "accepted"

TypeInv == TypeOK /\ Confirmed /\ PostedOnce

(***************************************************************************)
(* Types.                                                                   *)
(***************************************************************************)

\* The types hold at first.
LEMMA TypeInit == Init => TypeInv
<1> SUFFICES ASSUME Init PROVE TypeInv
  OBVIOUS
<1>1. mined \in [Account -> Seq(Send \cup {None})]
  BY DEF Init
<1>2. TypeOK
  BY <1>1 DEF Init, TypeOK
<1>3. QED
  BY <1>2 DEF Init, TypeInv, Confirmed, PostedOnce

\* The signer of a send that was confirmed is an account.
LEMMA SignerIsAccount ==
    ASSUME TypeInv, NEW t \in Send, client[t] # "new"
    PROVE  /\ send[t] \in Sent
           /\ Signer(t) \in Account
           /\ mined[Signer(t)] \in Seq(Send \cup {None})
           /\ Count(Signer(t)) \in Nat
<1>1. send[t] \in Sent
  BY DEF TypeInv, Confirmed
<1>2. Signer(t) \in Account
  BY <1>1 DEF Sent, Signer
<1>3. mined[Signer(t)] \in Seq(Send \cup {None})
  BY <1>2 DEF TypeInv, TypeOK
<1>4. QED
  BY <1>1, <1>2, <1>3 DEF Count

\* What was mined of an account is a set of sends.
LEMMA MinedAreSends ==
    ASSUME TypeOK, NEW a \in Account
    PROVE  MinedOf(a) \subseteq Send
<1>1. mined[a] \in Seq(Send \cup {None})
  BY DEF TypeOK
<1>2. \A i \in DOMAIN mined[a] : mined[a][i] \in Send \cup {None}
  BY <1>1
<1>3. QED
  BY <1>2 DEF MinedOf

\* Hiding the HUD keeps the page's type.
LEMMA PageAfterHud ==
    ASSUME TypeOK, NEW t \in Send, NEW answered \in BOOLEAN, HudHides(t, answered)
    PROVE  page' \in Page \cup {None}
  BY DEF TypeOK, HudHides, Page

\* Mining adds one transaction to one account's.
LEMMA MinedAfter ==
    ASSUME TypeOK, NEW a \in Account, NEW x \in Send \cup {None}, Mines(a, x)
    PROVE  /\ mined' \in [Account -> Seq(Send \cup {None})]
           /\ \A b \in Account : b # a => mined'[b] = mined[b]
           /\ Len(mined[a]) \in Nat /\ Len(mined'[a]) = Len(mined[a]) + 1
           /\ \A i \in 1..Len(mined[a]) : mined'[a][i] = mined[a][i]
           /\ mined'[a][Len(mined[a]) + 1] = x
<1> DEFINE S == Send \cup {None}
<1>1. mined \in [Account -> Seq(S)]
  BY DEF TypeOK
<1>2. mined' = [mined EXCEPT ![a] = Append(mined[a], x)]
  BY DEF Mines
<1> HIDE DEF S
<1>3. x \in S
  BY DEF S
<1>4. mined[a] \in Seq(S) /\ Append(mined[a], x) \in Seq(S)
  BY <1>1, <1>3
<1>5. mined'[a] = Append(mined[a], x)
  BY <1>1, <1>2
<1>6. mined' \in [Account -> Seq(S)] /\ \A b \in Account : b # a => mined'[b] = mined[b]
  BY <1>1, <1>2, <1>4
<1>7. QED
  BY <1>4, <1>5, <1>6 DEF S

\* Signing and posting keeps the types, whatever number the nonce is.
LEMMA TypeSignAndPost ==
    ASSUME TypeInv, NEW t \in Send, NEW n \in Nat, client[t] = "nonce",
           SignAndPost(t, n),
           before' = [before EXCEPT ![t] = MinedOf(Signer(t))],
           UNCHANGED <<app, node>>
    PROVE  TypeInv'
<1>1. MinedOf(Signer(t)) \subseteq Send
  BY SignerIsAccount, MinedAreSends DEF TypeInv
<1>2. before' \in [Send -> SUBSET Send]
  BY <1>1 DEF TypeInv, TypeOK
<1>3. nonce' \in [Send -> Nat \cup {None}]
  BY DEF TypeInv, TypeOK, SignAndPost
<1>4. TypeOK'
  BY <1>2, <1>3 DEF TypeInv, TypeOK, SignAndPost, app, node
<1>5. Confirmed'
  BY DEF TypeInv, TypeOK, Confirmed, SignAndPost
<1>7. QED
  BY <1>4, <1>5, SendingAssumption DEF TypeInv, TypeOK, PostedOnce, SignAndPost, node

\* Every action keeps the types, and what was confirmed and posted.
LEMMA TypeStep == TypeInv /\ [Next]_vars => TypeInv'
<1> SUFFICES ASSUME TypeInv, [Next]_vars PROVE TypeInv'
  OBVIOUS
<1>1. ASSUME NEW a \in Account, SelectWallet(a) PROVE TypeInv'
  BY <1>1 DEF TypeInv, TypeOK, Confirmed, PostedOnce, SelectWallet, node
<1>2. ASSUME NEW a \in Account, KeystoreImported(a) PROVE TypeInv'
  BY <1>2 DEF TypeInv, TypeOK, Confirmed, PostedOnce, KeystoreImported, node
<1>3. ASSUME NEW a \in Account, MineOther(a) PROVE TypeInv'
  <2>1. mined' \in [Account -> Seq(Send \cup {None})]
    <3>1. None \in Send \cup {None} /\ Mines(a, None) /\ TypeOK
      BY <1>3 DEF TypeInv, MineOther
    <3>2. QED
      BY <3>1, MinedAfter, Zenon
  <2>2. QED
    BY <1>3, <2>1 DEF TypeInv, TypeOK, Confirmed, PostedOnce, MineOther, Mines, app
<1>4. ASSUME NEW k \in Kind, Open(k) PROVE TypeInv'
  <2>1. page' \in Page
    BY <1>4 DEF TypeInv, TypeOK, Open, Page
  <2>2. QED
    BY <1>4, <2>1 DEF TypeInv, TypeOK, Confirmed, PostedOnce, Open, node
<1>5. CASE Leave
  BY <1>5 DEF TypeInv, TypeOK, Confirmed, PostedOnce, Leave, node
<1>6. CASE Click
  <2>1. page' \in Page
    BY <1>6 DEF TypeInv, TypeOK, Click, Page
  <2>2. QED
    BY <1>6, <2>1 DEF TypeInv, TypeOK, Confirmed, PostedOnce, Click, node
<1>7. ASSUME NEW t \in Send, NEW price \in UNION {Price[k] : k \in Kind}, Confirm(t, price)
      PROVE  TypeInv'
  <2>1. page \in Page /\ page.owner \in Account /\ page.kind \in Kind
    BY <1>7 DEF TypeInv, TypeOK, Confirm, Page
  <2>2. price \in Nat
    BY <1>7, <2>1, SendingAssumption DEF Confirm
  <2>3. page' \in Page
    BY <1>7, <2>1 DEF Confirm, Page
  <2>4. send'[t] \in Sent /\ send' \in [Send -> Sent \cup {None}]
    BY <1>7, <2>1, <2>2 DEF TypeInv, TypeOK, Confirm, Sent
  <2>5. client' \in [Send -> {"new", "nonce", "posted", "sent", "refused", "failed"}]
    BY <1>7 DEF TypeInv, TypeOK, Confirm
  <2>6. TypeOK'
    BY <1>7, <2>3, <2>4, <2>5 DEF TypeInv, TypeOK, Confirm, node
  <2>7. Confirmed'
    BY <1>7, <2>4 DEF TypeInv, TypeOK, Confirmed, Confirm
  <2>8. PostedOnce'
    BY <1>7 DEF TypeInv, TypeOK, PostedOnce, Confirm, node
  <2>9. QED
    BY <2>6, <2>7, <2>8 DEF TypeInv
<1>8. ASSUME NEW t \in Send, NonceArrives(t) PROVE TypeInv'
  BY <1>8, SignerIsAccount, TypeSignAndPost DEF NonceArrives
<1>9. ASSUME NEW t \in Send, NonceMissing(t) PROVE TypeInv'
  BY <1>9, SignerIsAccount, TypeSignAndPost DEF NonceMissing
<1>10. ASSUME NEW t \in Send, NonceFails(t) PROVE TypeInv'
  <2>1. page' \in Page \cup {None}
    BY <1>10, PageAfterHud DEF TypeInv, NonceFails
  <2>2. QED
    BY <1>10, <2>1 DEF TypeInv, TypeOK, Confirmed, PostedOnce, NonceFails, node
<1>11. ASSUME NEW t \in Send, Answered(t) PROVE TypeInv'
  <2>1. page' \in Page \cup {None}
    BY <1>11, PageAfterHud DEF TypeInv, Answered
  <2>2. QED
    BY <1>11, <2>1 DEF TypeInv, TypeOK, Confirmed, PostedOnce, Answered, node
<1>12. ASSUME NEW t \in Send, PostFails(t) PROVE TypeInv'
  <2>1. page' \in Page \cup {None}
    BY <1>12, PageAfterHud DEF TypeInv, PostFails
  <2>2. QED
    BY <1>12, <2>1 DEF TypeInv, TypeOK, Confirmed, PostedOnce, PostFails, node
<1>13. ASSUME NEW t \in Send, Accept(t) PROVE TypeInv'
  BY <1>13 DEF TypeInv, TypeOK, Confirmed, PostedOnce, Accept, app
<1>14. ASSUME NEW t \in Send, Refuse(t) PROVE TypeInv'
  BY <1>14 DEF TypeInv, TypeOK, Confirmed, PostedOnce, Refuse, app, node
<1>15. ASSUME NEW t \in Send, MineOwn(t) PROVE TypeInv'
  <2>1. mined' \in [Account -> Seq(Send \cup {None})]
    <3>1. t \in Send \cup {None} /\ Mines(Signer(t), t) /\ TypeOK
      BY <1>15 DEF TypeInv, MineOwn
    <3>2. client[t] # "new"
      BY <1>15 DEF TypeInv, PostedOnce, MineOwn
    <3>3. Signer(t) \in Account
      BY <3>2, SignerIsAccount
    <3>4. QED
      BY <3>1, <3>3, MinedAfter, Zenon
  <2>2. QED
    BY <1>15, <2>1 DEF TypeInv, TypeOK, Confirmed, PostedOnce, MineOwn, Mines, app
<1>16. CASE Restart
  <2>1. TypeOK'
    BY <1>16 DEF TypeInv, TypeOK, Restart, node
  <2>2. QED
    BY <1>16, <2>1 DEF TypeInv, TypeOK, Confirmed, PostedOnce, Restart, node
<1>17. CASE UNCHANGED vars
  BY <1>17 DEF TypeInv, TypeOK, Confirmed, PostedOnce, vars, app, node
<1>18. QED
  BY <1>1, <1>2, <1>3, <1>4, <1>5, <1>6, <1>7, <1>8, <1>9, <1>10, <1>11, <1>12,
     <1>13, <1>14, <1>15, <1>16, <1>17 DEF Next

\* The types hold, and each send is confirmed and posted once.
LEMMA TypeInvariant == Spec => []TypeInv
  BY TypeInit, TypeStep, PTL DEF Spec

\* Every variable keeps its type: the pages, the sends with their nonces, and the
\* node's transactions are what their declarations say.
THEOREM TypeCorrect == Spec => []TypeOK
<1>1. TypeInv => TypeOK
  BY DEF TypeInv
<1>2. QED
  BY <1>1, TypeInvariant, PTL

(***************************************************************************)
(* Nonces.  A nonce is a count that was right when it was read: everything   *)
(* mined since lies behind it.                                              *)
(***************************************************************************)

\* No nonce is beyond what is mined.
Counted == \A t \in Send : nonce[t] # None => nonce[t] <= Len(mined[Signer(t)])

\* A mined send is one that was posted, at the place its nonce names.
MinedAtNonce ==
    \A a \in Account : \A i \in 1..Len(mined[a]) : \A t \in Send :
        mined[a][i] = t => client[t] # "new" /\ Signer(t) = a /\ nonce[t] = i - 1

\* What is mined up to the place of a nonce was mined when the nonce was read.
SeenBefore ==
    \A t \in Send : nonce[t] # None =>
        \A i \in 1..nonce[t], u \in Send :
            i <= Len(mined[Signer(t)]) /\ mined[Signer(t)][i] = u => u \in before[t]

NonceInv == NoNonceGap /\ Counted /\ MinedAtNonce /\ SeenBefore

\* The invariant holds at first.
LEMMA NonceInit == Init => NonceInv
<1> SUFFICES ASSUME Init PROVE NonceInv
  OBVIOUS
<1>1. \A a \in Account : Len(mined[a]) = 0
  BY DEF Init
<1>2. QED
  BY <1>1 DEF Init, NonceInv, NoNonceGap, Counted, MinedAtNonce, SeenBefore

\* The invariant does not look at the pages, and neither at the sends once they
\* have their nonces.
LEMMA NonceUntouched ==
    ASSUME TypeInv, NonceInv,
           \A t \in Send : client[t] # "new" => client'[t] # "new" /\ Signer(t)' = Signer(t),
           pool' \subseteq pool, UNCHANGED <<nonce, before, mined>>
    PROVE  NonceInv'
<1>1. /\ \A t \in Send : nonce[t] # None => client[t] # "new"
      /\ \A t \in pool : t \in Send /\ client[t] # "new"
  <2>1. pool \subseteq Send
    BY DEF TypeInv, TypeOK
  <2>2. QED
    BY <2>1 DEF TypeInv, PostedOnce
<1>2. NoNonceGap' /\ Counted'
  <2>1. \A t \in Send : client[t] # "new" => Len(mined[Signer(t)])' = Len(mined[Signer(t)])
    BY Zenon
  <2>2. NoNonceGap'
    BY <1>1, <2>1 DEF NonceInv, NoNonceGap
  <2>3. Counted'
    BY <1>1, <2>1 DEF NonceInv, Counted
  <2>4. QED
    BY <2>2, <2>3
<1>3. MinedAtNonce'
  BY DEF NonceInv, MinedAtNonce
<1>4. SeenBefore'
  BY <1>1 DEF NonceInv, SeenBefore
<1>5. QED
  BY <1>2, <1>3, <1>4 DEF NonceInv

\* Signing with the count, or with a nonce below it, keeps the invariant.
LEMMA NonceSignAndPost ==
    ASSUME TypeInv, NonceInv, NEW t \in Send, NEW n \in Nat, client[t] = "nonce",
           n <= Count(Signer(t)),
           SignAndPost(t, n),
           before' = [before EXCEPT ![t] = MinedOf(Signer(t))],
           UNCHANGED <<app, node>>
    PROVE  NonceInv'
<1>1. /\ nonce' = [nonce EXCEPT ![t] = n] /\ nonce'[t] = n
      /\ \A u \in Send : u # t => nonce'[u] = nonce[u] /\ before'[u] = before[u]
      /\ before'[t] = MinedOf(Signer(t))
  BY DEF TypeInv, TypeOK, SignAndPost
<1>2. /\ \A u \in Send : Signer(u)' = Signer(u) /\ (client[u] # "new" => client'[u] # "new")
      /\ mined' = mined /\ pool' = pool
  BY DEF TypeInv, TypeOK, SignAndPost, Signer, node
<1>3. nonce[t] = None /\ t \notin pool
  BY DEF TypeInv, PostedOnce
<1>4. NoNonceGap'
  <2>1. \A u \in pool : u \in Send /\ u # t
    BY <1>3 DEF TypeInv, TypeOK
  <2>2. QED
    BY <1>1, <1>2, <2>1 DEF NonceInv, NoNonceGap
<1>5. Counted'
  BY <1>1, <1>2 DEF NonceInv, Counted, Count
<1>6. MinedAtNonce'
  <2>1. \A a \in Account : \A i \in 1..Len(mined[a]) : mined[a][i] # t
    <3>1. \A a \in Account : \A i \in 1..Len(mined[a]) : i - 1 # None
      BY SendingAssumption DEF TypeInv, TypeOK
    <3>2. QED
      BY <1>3, <3>1 DEF NonceInv, MinedAtNonce
  <2>2. QED
    BY <1>1, <1>2, <2>1 DEF NonceInv, MinedAtNonce
<1>7. SeenBefore'
  <2>1. \A i \in 1..Len(mined[Signer(t)]), u \in Send :
           mined[Signer(t)][i] = u => u \in MinedOf(Signer(t))
    <3>1. mined[Signer(t)] \in Seq(Send \cup {None})
      BY SignerIsAccount
    <3>2. QED
      BY <3>1, SendingAssumption DEF MinedOf
  <2>2. QED
    BY <1>1, <1>2, <2>1 DEF NonceInv, SeenBefore
<1>8. QED
  BY <1>4, <1>5, <1>6, <1>7 DEF NonceInv

\* Mining keeps the invariant, whoever's transaction is next.
LEMMA NonceMines ==
    ASSUME TypeInv, NonceInv, NEW a \in Account, NEW x \in Send \cup {None}, Mines(a, x),
           x \in Send => client[x] # "new" /\ Signer(x) = a /\ nonce[x] = Len(mined[a])
    PROVE  NonceInv'
<1>1. /\ \A b \in Account : b # a => mined'[b] = mined[b]
      /\ Len(mined[a]) \in Nat /\ Len(mined'[a]) = Len(mined[a]) + 1
      /\ \A i \in 1..Len(mined[a]) : mined'[a][i] = mined[a][i]
      /\ mined'[a][Len(mined[a]) + 1] = x
  BY MinedAfter, Zenon DEF TypeInv
<1>2. /\ nonce' = nonce /\ before' = before /\ client' = client
      /\ \A t \in Send : Signer(t)' = Signer(t)
  BY DEF Mines, Signer
<1>3. /\ \A t \in pool' : t \in pool /\ (Signer(t) = a => nonce[t] # Len(mined[a]))
      /\ \A t \in pool : t \in Send /\ client[t] # "new"
  BY DEF TypeInv, TypeOK, PostedOnce, Mines
<1>4. \A t \in Send : client[t] # "new" => Signer(t) \in Account /\ Len(mined[Signer(t)]) \in Nat
  BY SignerIsAccount DEF Count
<1>5. \A t \in Send : nonce[t] # None => client[t] # "new" /\ nonce[t] \in Nat
  BY DEF TypeInv, TypeOK, PostedOnce
<1>6. NoNonceGap'
  <2>1. \A t \in pool' : Signer(t) # a
    BY <1>3 DEF NonceInv, NoNonceGap
  <2>2. \A t \in pool' : Len(mined'[Signer(t)]) = Len(mined[Signer(t)])
    BY <1>1, <1>3, <1>4, <2>1, Zenon
  <2>3. QED
    BY <1>2, <1>3, <2>2 DEF NonceInv, NoNonceGap
<1>7. Counted'
  <2>1. \A b \in Account : Len(mined[b]) \in Nat => Len(mined[b]) <= Len(mined'[b])
    BY <1>1
  <2>2. \A t \in Send : nonce[t] # None => nonce[t] <= Len(mined'[Signer(t)])
    <3> TAKE t \in Send
    <3> HAVE nonce[t] # None
    <3>1. Signer(t) \in Account /\ Len(mined[Signer(t)]) \in Nat /\ nonce[t] \in Nat
      BY <1>4, <1>5
    <3>2. Len(mined[Signer(t)]) <= Len(mined'[Signer(t)]) /\ Len(mined'[Signer(t)]) \in Nat
      BY <1>1, <3>1
    <3>3. nonce[t] <= Len(mined[Signer(t)])
      BY DEF NonceInv, Counted
    <3>4. QED
      BY <3>1, <3>2, <3>3
  <2>3. QED
    BY <1>2, <2>2 DEF Counted
<1>8. MinedAtNonce'
  <2> SUFFICES ASSUME NEW b \in Account, NEW i \in 1..Len(mined'[b]), NEW t \in Send,
                      mined'[b][i] = t
               PROVE  client[t] # "new" /\ Signer(t) = b /\ nonce[t] = i - 1
    BY <1>2 DEF MinedAtNonce
  <2>1. CASE b # a
    BY <1>1, <2>1 DEF NonceInv, MinedAtNonce
  <2>2. CASE b = a /\ i \in 1..Len(mined[a])
    BY <1>1, <2>2 DEF NonceInv, MinedAtNonce
  <2>3. CASE b = a /\ i = Len(mined[a]) + 1
    BY <1>1, <2>3
  <2>4. QED
    BY <1>1, <2>1, <2>2, <2>3
<1>9. SeenBefore'
  <2> SUFFICES ASSUME NEW t \in Send, nonce[t] # None, NEW i \in 1..nonce[t], NEW u \in Send,
                      i <= Len(mined'[Signer(t)]), mined'[Signer(t)][i] = u
               PROVE  u \in before[t]
    BY <1>2 DEF SeenBefore
  <2>1. Signer(t) \in Account /\ Len(mined[Signer(t)]) \in Nat /\ nonce[t] \in Nat
    BY <1>4, <1>5
  <2>2. i <= Len(mined[Signer(t)])
    BY <2>1 DEF NonceInv, Counted
  <2>3. mined'[Signer(t)][i] = mined[Signer(t)][i]
    BY <1>1, <2>1, <2>2
  <2>4. QED
    BY <2>2, <2>3 DEF NonceInv, SeenBefore
<1>10. QED
  BY <1>6, <1>7, <1>8, <1>9 DEF NonceInv

\* The node accepts a nonce that is next: none is beyond what is mined.
LEMMA NonceAccept ==
    ASSUME TypeInv, NonceInv, NEW t \in Send, Accept(t)
    PROVE  NonceInv'
<1>1. nonce[t] \in Nat /\ client[t] # "new"
  BY DEF TypeInv, TypeOK, PostedOnce, Accept
<1>2. Len(mined[Signer(t)]) \in Nat
  BY <1>1, SignerIsAccount DEF Count
<1>3. nonce[t] = Len(mined[Signer(t)])
  <2>1. nonce[t] >= Len(mined[Signer(t)])
    BY DEF Accept
  <2>2. nonce[t] <= Len(mined[Signer(t)])
    BY <1>1, SendingAssumption DEF NonceInv, Counted
  <2>3. QED
    BY <1>1, <1>2, <2>1, <2>2
<1>4. NoNonceGap'
  <2>1. pool' \subseteq pool \cup {t} /\ mined' = mined /\ nonce' = nonce /\ send' = send
    BY DEF Accept
  <2>2. QED
    BY <1>3, <2>1 DEF NonceInv, NoNonceGap, Signer
<1>5. Counted' /\ MinedAtNonce' /\ SeenBefore'
  BY DEF NonceInv, Counted, MinedAtNonce, SeenBefore, Accept, Signer
<1>6. QED
  BY <1>4, <1>5 DEF NonceInv

\* Every action keeps the invariant.
LEMMA NonceStep == TypeInv /\ NonceInv /\ [Next]_vars => NonceInv'
<1> SUFFICES ASSUME TypeInv, NonceInv, [Next]_vars PROVE NonceInv'
  OBVIOUS
<1>1. ASSUME NEW a \in Account, SelectWallet(a) \/ KeystoreImported(a) PROVE NonceInv'
  BY <1>1, NonceUntouched DEF SelectWallet, KeystoreImported, node, Signer
<1>2. ASSUME NEW a \in Account, MineOther(a) PROVE NonceInv'
  BY <1>2, NonceMines, SendingAssumption, Zenon DEF MineOther
<1>3. ASSUME NEW k \in Kind, Open(k) PROVE NonceInv'
  BY <1>3, NonceUntouched DEF Open, node, Signer
<1>4. CASE Leave \/ Click
  BY <1>4, NonceUntouched DEF Leave, Click, node, Signer
<1>5. ASSUME NEW t \in Send, NEW price \in UNION {Price[k] : k \in Kind}, Confirm(t, price)
      PROVE  NonceInv'
  <2>1. \A u \in Send : client[u] # "new" => client'[u] # "new" /\ Signer(u)' = Signer(u)
    BY <1>5 DEF TypeInv, TypeOK, Confirm, Signer
  <2>2. QED
    BY <1>5, <2>1, NonceUntouched DEF Confirm, node
<1>6. ASSUME NEW t \in Send, NonceArrives(t) PROVE NonceInv'
  <2>1. Count(Signer(t)) \in Nat /\ Count(Signer(t)) <= Count(Signer(t))
    BY <1>6, SignerIsAccount DEF NonceArrives
  <2>2. QED
    BY <1>6, <2>1, NonceSignAndPost DEF NonceArrives
<1>7. ASSUME NEW t \in Send, NonceMissing(t) PROVE NonceInv'
  <2>1. 0 <= Count(Signer(t))
    BY <1>7, SignerIsAccount DEF NonceMissing
  <2>2. QED
    BY <1>7, <2>1, NonceSignAndPost DEF NonceMissing
<1>8. ASSUME NEW t \in Send, NonceFails(t) \/ PostFails(t) \/ Answered(t) PROVE NonceInv'
  <2>1. \A u \in Send : client[u] # "new" => client'[u] # "new" /\ Signer(u)' = Signer(u)
    BY <1>8 DEF TypeInv, TypeOK, NonceFails, PostFails, Answered, Signer
  <2>2. QED
    BY <1>8, <2>1, NonceUntouched DEF NonceFails, PostFails, Answered, node
<1>9. ASSUME NEW t \in Send, Accept(t) PROVE NonceInv'
  BY <1>9, NonceAccept
<1>10. ASSUME NEW t \in Send, Refuse(t) PROVE NonceInv'
  BY <1>10, NonceUntouched DEF Refuse, node, Signer
<1>11. ASSUME NEW t \in Send, MineOwn(t) PROVE NonceInv'
  <2>1. client[t] # "new"
    BY <1>11 DEF TypeInv, PostedOnce, MineOwn
  <2>2. Signer(t) \in Account
    BY <2>1, SignerIsAccount
  <2>3. t \in Send \cup {None} /\ nonce[t] = Len(mined[Signer(t)]) /\ Mines(Signer(t), t)
    BY <1>11 DEF MineOwn
  <2>4. QED
    BY <2>1, <2>2, <2>3, NonceMines
<1>12. CASE Restart
  <2>1. \A u \in Send : client[u] # "new" => client'[u] # "new" /\ Signer(u)' = Signer(u)
    BY <1>12 DEF Restart, Signer
  <2>2. QED
    BY <1>12, <2>1, NonceUntouched DEF Restart, node
<1>13. CASE UNCHANGED vars
  BY <1>13, NonceUntouched DEF vars, node, Signer
<1>14. QED
  BY <1>1, <1>2, <1>3, <1>4, <1>5, <1>6, <1>7, <1>8, <1>9, <1>10, <1>11, <1>12, <1>13 DEF Next

\* The nonce invariant holds.
LEMMA NonceInvariant == Spec => [](TypeInv /\ NonceInv)
  BY TypeInit, TypeStep, NonceInit, NonceStep, PTL DEF Spec

\* No accepted transaction waits for a lower nonce: the nonce that was read is never
\* beyond what is mined, and the node takes none behind it.
THEOREM NoGap == Spec => []NoNonceGap
<1>1. NonceInv => NoNonceGap
  BY DEF NonceInv
<1>2. QED
  BY <1>1, NonceInvariant, PTL

\* Sending again, as long as the first send is not mined, pays at most once: of two
\* mined sends of an account one was mined when the nonce of the other was read.
THEOREM PaidOnce == Spec => []NotPaidTwice
<1>1. TypeInv /\ NonceInv => NotPaidTwice
  <2> SUFFICES ASSUME TypeInv, NonceInv, NEW a \in Account,
                      NEW t \in MinedOf(a), NEW u \in MinedOf(a), t # u
               PROVE  t \in before[u] \/ u \in before[t]
    BY DEF NotPaidTwice
  <2>1. mined[a] \in Seq(Send \cup {None}) /\ t \in Send /\ u \in Send
    BY MinedAreSends DEF TypeInv, TypeOK
  <2>2. PICK i \in 1..Len(mined[a]) : mined[a][i] = t
    BY <2>1 DEF MinedOf
  <2>3. PICK j \in 1..Len(mined[a]) : mined[a][j] = u
    BY <2>1 DEF MinedOf
  <2>4. Signer(t) = a /\ nonce[t] = i - 1 /\ Signer(u) = a /\ nonce[u] = j - 1
    BY <2>1, <2>2, <2>3 DEF NonceInv, MinedAtNonce
  <2>5. i - 1 # None /\ j - 1 # None /\ i # j
    BY <2>1, <2>2, <2>3, SendingAssumption
  <2>6. CASE i < j
    BY <2>1, <2>2, <2>3, <2>4, <2>5, <2>6 DEF NonceInv, SeenBefore
  <2>7. CASE j < i
    BY <2>1, <2>2, <2>3, <2>4, <2>5, <2>7 DEF NonceInv, SeenBefore
  <2>8. QED
    BY <2>1, <2>5, <2>6, <2>7
<1>2. QED
  BY <1>1, NonceInvariant, PTL

(***************************************************************************)
(* Pages.                                                                   *)
(***************************************************************************)

\* An open page asks the account shown for its passcode and has that account's slot,
\* unless the account changed under it.
PageOfShown ==
    ~switched => page = None \/ {page.owner, page.slotOf} \subseteq {None, shown}

OwnerInv == PageOfShown /\ SignedByOwner

\* Every action keeps the owner of the page and of the sends.
LEMMA OwnerStep == TypeInv /\ OwnerInv /\ [Next]_vars => OwnerInv'
<1> SUFFICES ASSUME TypeInv, OwnerInv, [Next]_vars PROVE OwnerInv'
  OBVIOUS
<1>1. ASSUME NEW a \in Account, SelectWallet(a) \/ KeystoreImported(a) PROVE OwnerInv'
  BY <1>1 DEF OwnerInv, PageOfShown, SignedByOwner, Signer, SelectWallet, KeystoreImported
<1>2. ASSUME NEW k \in Kind, Open(k) PROVE OwnerInv'
  <2>1. page' \in Page /\ {page'.owner, page'.slotOf} \subseteq {None, shown}
    BY <1>2 DEF TypeInv, TypeOK, Open, Page
  <2>2. QED
    BY <1>2, <2>1 DEF OwnerInv, PageOfShown, SignedByOwner, Signer, Open
<1>3. CASE Leave
  BY <1>3 DEF OwnerInv, PageOfShown, SignedByOwner, Signer, Leave
<1>4. CASE Click
  <2>1. PICK a \in Account :
           /\ page.slotOf \in {None, shown} => a = shown
           /\ page' = [page EXCEPT !.owner = a]
    BY <1>4 DEF Click
  <2>2. page # None /\ page \in Page /\ UNCHANGED <<shown, switched, send>>
    BY <1>4 DEF TypeInv, TypeOK, Click
  <2>3. page'.owner = a /\ page'.slotOf = page.slotOf
    BY <2>1, <2>2 DEF Page
  <2>4. PageOfShown'
    BY <2>1, <2>2, <2>3 DEF OwnerInv, PageOfShown
  <2>5. QED
    BY <2>2, <2>4 DEF OwnerInv, SignedByOwner, Signer
<1>5. ASSUME NEW t \in Send, NEW price \in UNION {Price[k] : k \in Kind}, Confirm(t, price)
      PROVE  OwnerInv'
  <2>1. /\ page \in Page /\ page'.owner = page.owner /\ page'.slotOf = page.slotOf
        /\ UNCHANGED <<shown, switched>>
    BY <1>5 DEF TypeInv, TypeOK, Confirm, Page
  <2>2. PageOfShown'
    BY <1>5, <2>1 DEF OwnerInv, PageOfShown, Confirm
  <2>3. ~switched => page.owner = shown
    BY <1>5 DEF OwnerInv, PageOfShown, Confirm
  <2>4. ~switched => send'[t].signer = send'[t].owner
    BY <1>5, <2>3 DEF TypeInv, TypeOK, Confirm
  <2>5. \A u \in Send : u # t => send'[u] = send[u]
    BY <1>5 DEF TypeInv, TypeOK, Confirm
  <2>6. QED
    BY <2>1, <2>2, <2>4, <2>5 DEF OwnerInv, SignedByOwner, Signer
<1>6. ASSUME NEW t \in Send, NEW answered \in BOOLEAN, HudHides(t, answered), UNCHANGED <<shown, switched>>
      PROVE  PageOfShown'
  BY <1>6 DEF TypeInv, TypeOK, OwnerInv, PageOfShown, HudHides, Page
<1>7. ASSUME NEW t \in Send, NonceFails(t) \/ PostFails(t) \/ Answered(t) PROVE OwnerInv'
  <2>1. UNCHANGED <<shown, switched, send>>
    BY <1>7 DEF NonceFails, PostFails, Answered
  <2>2. HudHides(t, TRUE) \/ HudHides(t, FALSE)
    BY <1>7 DEF NonceFails, PostFails, Answered
  <2>3. PageOfShown'
    BY <1>6, <2>1, <2>2
  <2>4. QED
    BY <2>1, <2>3 DEF OwnerInv, SignedByOwner, Signer
<1>8. ASSUME UNCHANGED <<app, send>> PROVE OwnerInv'
  BY <1>8 DEF OwnerInv, PageOfShown, SignedByOwner, Signer, app
<1>9. ASSUME NEW t \in Send, NonceArrives(t) \/ NonceMissing(t) \/ Accept(t) \/ Refuse(t)
       PROVE  OwnerInv'
  BY <1>8, <1>9 DEF NonceArrives, NonceMissing, SignAndPost, Accept, Refuse
<1>10. ASSUME NEW a \in Account, MineOther(a) PROVE OwnerInv'
  BY <1>8, <1>10 DEF MineOther, Mines
<1>11. ASSUME NEW t \in Send, MineOwn(t) PROVE OwnerInv'
  BY <1>8, <1>11 DEF MineOwn, Mines
<1>12. CASE Restart
  BY <1>12 DEF OwnerInv, PageOfShown, SignedByOwner, Signer, Restart
<1>13. CASE UNCHANGED vars
  BY <1>8, <1>13 DEF vars
<1>14. QED
  BY <1>1, <1>2, <1>3, <1>4, <1>5, <1>7, <1>9, <1>10, <1>11, <1>12, <1>13 DEF Next

\* A send is signed by the account whose passcode was asked for, as long as no
\* keystore import finishes under an open page: what happens to the page or to the
\* account shown after the confirmation does not change the signer.
THEOREM OwnerSigns == Spec => []SignedByOwner
<1>1. Init => OwnerInv
  BY DEF Init, OwnerInv, PageOfShown, SignedByOwner
<1>2. OwnerInv => SignedByOwner
  BY DEF OwnerInv
<1>3. QED
  BY <1>1, <1>2, OwnerStep, TypeInvariant, PTL DEF Spec

\* Every action keeps the hash one that the node took, and the HUD one of a send that
\* is under way.
LEMMA AnswerStep ==
    TypeInv /\ HashWasAccepted /\ HudWhileSending /\ [Next]_vars
        => HashWasAccepted' /\ HudWhileSending'
<1> SUFFICES ASSUME TypeInv, HashWasAccepted, HudWhileSending, [Next]_vars
             PROVE  HashWasAccepted' /\ HudWhileSending'
  OBVIOUS
<1>1. ASSUME UNCHANGED <<hash, post>> PROVE HashWasAccepted'
  BY <1>1 DEF HashWasAccepted
<1>2. ASSUME UNCHANGED <<page, client>> PROVE HudWhileSending'
  BY <1>2 DEF HudWhileSending
<1>3. ASSUME NEW a \in Account, SelectWallet(a) \/ KeystoreImported(a) \/ MineOther(a)
      PROVE  HashWasAccepted' /\ HudWhileSending'
  BY <1>1, <1>2, <1>3 DEF SelectWallet, KeystoreImported, MineOther, Mines, app
<1>4. ASSUME NEW k \in Kind, Open(k) PROVE HashWasAccepted' /\ HudWhileSending'
  BY <1>1, <1>4 DEF HudWhileSending, Open
<1>5. CASE Leave
  BY <1>1, <1>5 DEF HudWhileSending, Leave
<1>6. CASE Click
  <2>1. page \in Page /\ page'.sending = None
    BY <1>6 DEF TypeInv, TypeOK, Click, Page
  <2>2. QED
    BY <1>1, <1>6, <2>1 DEF HudWhileSending, Click
<1>7. ASSUME NEW t \in Send, NEW price \in UNION {Price[k] : k \in Kind}, Confirm(t, price)
      PROVE  HashWasAccepted' /\ HudWhileSending'
  <2>1. page \in Page /\ page'.sending = t /\ client'[t] = "nonce"
    BY <1>7 DEF TypeInv, TypeOK, Confirm, Page
  <2>2. QED
    BY <1>1, <1>7, <2>1 DEF HudWhileSending, Confirm
<1>8. ASSUME NEW t \in Send, NonceArrives(t) \/ NonceMissing(t)
      PROVE  HashWasAccepted' /\ HudWhileSending'
  <2>1. client' = [client EXCEPT ![t] = "posted"] /\ post' = [post EXCEPT ![t] = "wire"]
        /\ UNCHANGED <<page, hash>> /\ post[t] = "none"
    BY <1>8 DEF TypeInv, PostedOnce, NonceArrives, NonceMissing, SignAndPost, app
  <2>2. HashWasAccepted'
    BY <2>1 DEF TypeInv, TypeOK, HashWasAccepted
  <2>3. HudWhileSending'
    BY <1>8, <2>1 DEF TypeInv, TypeOK, HudWhileSending, NonceArrives, NonceMissing
  <2>4. QED
    BY <2>2, <2>3
<1>9. ASSUME NEW t \in Send, NonceFails(t) \/ PostFails(t)
      PROVE  HashWasAccepted' /\ HudWhileSending'
  <2>1. client' = [client EXCEPT ![t] = "failed"] /\ HudHides(t, FALSE) /\ UNCHANGED <<hash, post>>
    BY <1>9 DEF NonceFails, PostFails
  <2>2. CASE page # None /\ page.sending = t /\ page.kind # "kyc"
    <3>1. page'.sending = None
      BY <2>1, <2>2 DEF TypeInv, TypeOK, HudHides, Page
    <3>2. QED
      BY <1>1, <2>1, <3>1 DEF HudWhileSending
  <2>3. CASE ~ (page # None /\ page.sending = t /\ page.kind # "kyc")
    <3>1. page' = page
      BY <2>1, <2>3 DEF HudHides
    <3>2. QED
      BY <1>1, <2>1, <2>3, <3>1 DEF TypeInv, TypeOK, HudWhileSending, Page
  <2>4. QED
    BY <2>2, <2>3
<1>10. ASSUME NEW t \in Send, Answered(t) PROVE HashWasAccepted' /\ HudWhileSending'
  <2>1. HashWasAccepted'
    BY <1>10 DEF HashWasAccepted, Answered
  <2>2. CASE page # None /\ page.sending = t
    <3>1. page'.sending = None
      BY <1>10, <2>2 DEF TypeInv, TypeOK, Answered, HudHides, Page
    <3>2. QED
      BY <2>1, <3>1 DEF HudWhileSending
  <2>3. CASE ~ (page # None /\ page.sending = t)
    <3>1. page' = page /\ \A u \in Send : u # t => client'[u] = client[u]
      BY <1>10, <2>3 DEF TypeInv, TypeOK, Answered, HudHides
    <3>2. QED
      BY <2>1, <2>3, <3>1 DEF TypeInv, TypeOK, HudWhileSending, Page
  <2>4. QED
    BY <2>2, <2>3
<1>11. ASSUME NEW t \in Send, Accept(t) \/ Refuse(t)
       PROVE  HashWasAccepted' /\ HudWhileSending'
  BY <1>2, <1>11 DEF TypeInv, TypeOK, HashWasAccepted, Accept, Refuse, app
<1>12. ASSUME NEW t \in Send, MineOwn(t) PROVE HashWasAccepted' /\ HudWhileSending'
  BY <1>1, <1>2, <1>12 DEF MineOwn, Mines, app
<1>13. CASE Restart
  BY <1>1, <1>13 DEF HudWhileSending, Restart
<1>14. CASE UNCHANGED vars
  BY <1>1, <1>2, <1>14 DEF vars, app
<1>15. QED
  BY <1>3, <1>4, <1>5, <1>6, <1>7, <1>8, <1>9, <1>10, <1>11, <1>12, <1>13, <1>14 DEF Next

\* Hash and HUD are right in every state.
LEMMA AnswerInvariant == Spec => [](HashWasAccepted /\ HudWhileSending)
<1>1. Init => HashWasAccepted /\ HudWhileSending
  BY DEF Init, HashWasAccepted, HudWhileSending
<1>2. QED
  BY <1>1, AnswerStep, TypeInvariant, PTL DEF Spec

\* currentTXHash, which the next pages show, is a transaction that the node took.
THEOREM HashAccepted == Spec => []HashWasAccepted
  BY AnswerInvariant, PTL

\* Every way a send ends uncovers the page that sent it, except on the KYC page when
\* no answer came.
THEOREM HudEnds == Spec => []HudWhileSending
  BY AnswerInvariant, PTL

(***************************************************************************)
(* Sending implements Ledger.                                               *)
(***************************************************************************)

\* Nothing is known of a new send.
Unsent == \A t \in Send : client[t] = "new" => send[t] = None

ImplInv == TypeInv /\ NonceInv /\ Unsent

\* A send is only made from new, and is never new again.
LEMMA UnsentStep == TypeInv /\ Unsent /\ [Next]_vars => Unsent'
<1> SUFFICES ASSUME TypeInv, Unsent, [Next]_vars PROVE Unsent'
  OBVIOUS
<1>1. client \in [Send -> {"new", "nonce", "posted", "sent", "refused", "failed"}]
  BY DEF TypeInv, TypeOK
<1>2. ASSUME NEW a \in Account, SelectWallet(a) \/ KeystoreImported(a) \/ MineOther(a)
      PROVE  Unsent'
  BY <1>2 DEF Unsent, SelectWallet, KeystoreImported, MineOther, Mines
<1>3. ASSUME NEW k \in Kind, Open(k) PROVE Unsent'
  BY <1>3 DEF Unsent, Open
<1>4. CASE Leave \/ Click
  BY <1>4 DEF Unsent, Leave, Click
<1>5. ASSUME NEW t \in Send, NEW price \in UNION {Price[k] : k \in Kind}, Confirm(t, price)
      PROVE  Unsent'
  BY <1>1, <1>5 DEF Unsent, Confirm
<1>6. ASSUME NEW t \in Send, NonceArrives(t) \/ NonceMissing(t) \/ NonceFails(t)
      PROVE  Unsent'
  BY <1>1, <1>6 DEF Unsent, NonceArrives, NonceMissing, NonceFails, SignAndPost
<1>7. ASSUME NEW t \in Send, Answered(t) \/ PostFails(t) PROVE Unsent'
  BY <1>1, <1>7 DEF Unsent, Answered, PostFails
<1>8. ASSUME NEW t \in Send, Accept(t) \/ Refuse(t) \/ MineOwn(t) PROVE Unsent'
  BY <1>8 DEF Unsent, Accept, Refuse, MineOwn, Mines
<1>9. CASE Restart
  BY <1>1, <1>9 DEF Unsent, Restart
<1>10. CASE UNCHANGED vars
  BY <1>10 DEF Unsent, vars
<1>11. QED
  BY <1>2, <1>3, <1>4, <1>5, <1>6, <1>7, <1>8, <1>9, <1>10 DEF Next

\* The invariants the refinement rests on.
LEMMA ImplInvariant == Spec => []ImplInv
<1>1. Init => Unsent
  BY DEF Init, Unsent
<1>2. QED
  BY <1>1, UnsentStep, NonceInvariant, PTL DEF Spec, ImplInv

\* The initial states are initial states of the ledger.
LEMMA PromiseInit == Init => Promise!Init
<1> SUFFICES ASSUME Init PROVE Promise!Init
  OBVIOUS
<1>1. Charged = [t \in Send |-> None]
  BY DEF Init, Charged
<1>2. Taken = {} /\ Told = {}
  BY DEF Init, Taken, Told
<1>3. QED
  BY <1>1, <1>2 DEF Init, Promise!Init

\* A send the node may take or has taken is charged to its signer, an account.
LEMMA ChargedToSigner ==
    ASSUME TypeInv, NEW t \in Send, client[t] # "new"
    PROVE  /\ Charged[t] = Signer(t)
           /\ Charged[t] # None
<1>1. send[t] \in Sent /\ Signer(t) \in Account
  BY SignerIsAccount
<1>2. send[t] # None
  BY <1>1, SendingAssumption
<1>3. QED
  BY <1>1, <1>2, SendingAssumption DEF Charged

\* Every step is a step of the ledger or leaves it alone.
LEMMA PromiseStep == ImplInv /\ [Next]_vars => [Promise!Next]_(Promise!vars)
<1> SUFFICES ASSUME ImplInv, [Next]_vars
             PROVE  Promise!Next \/ UNCHANGED Promise!vars
  OBVIOUS
<1> USE DEF Promise!vars
<1>1. /\ TypeInv /\ NonceInv
      /\ client \in [Send -> {"new", "nonce", "posted", "sent", "refused", "failed"}]
      /\ send \in [Send -> Sent \cup {None}]
      /\ post \in [Send -> {"none", "wire", "accepted", "refused"}]
      /\ nonce \in [Send -> Nat \cup {None}]
      /\ pool \subseteq Send
  BY DEF ImplInv, TypeInv, TypeOK
<1>2. ASSUME UNCHANGED <<send, nonce, post, node, client>> PROVE UNCHANGED Promise!vars
  BY <1>2 DEF Charged, Taken, Told, Signer, node
<1>3. ASSUME NEW a \in Account, SelectWallet(a) \/ KeystoreImported(a)
      PROVE  UNCHANGED Promise!vars
  BY <1>2, <1>3 DEF SelectWallet, KeystoreImported
<1>4. ASSUME NEW k \in Kind, Open(k) PROVE UNCHANGED Promise!vars
  BY <1>2, <1>4 DEF Open
<1>5. CASE Leave \/ Click
  BY <1>2, <1>5 DEF Leave, Click
<1>6. ASSUME NEW t \in Send, NEW price \in UNION {Price[k] : k \in Kind}, Confirm(t, price)
      PROVE  Promise!Next
  <2> DEFINE a == send'[t].signer
  <2>1. send[t] = None /\ client[t] = "new"
    BY <1>6 DEF ImplInv, Unsent, Confirm
  <2>2. client' = [client EXCEPT ![t] = "nonce"] /\ UNCHANGED <<nonce, post, node>>
    BY <1>6 DEF Confirm, node
  <2>3. /\ client'[t] # "new" /\ TypeInv'
        /\ \A u \in Send : u # t => send'[u] = send[u]
    BY <1>1, <1>6, <2>2, TypeStep DEF Confirm
  <2>4. a \in Account /\ send'[t] # None
    BY <2>3, SendingAssumption DEF TypeInv, Confirmed, Sent
  <2>5. Charged' = [Charged EXCEPT ![t] = a]
    BY <2>3, <2>4 DEF Charged, Signer
  <2>6. Told' = Told /\ Taken' = Taken
    BY <1>1, <2>1, <2>2 DEF Told, Taken
  <2>7. Charged[t] = None
    BY <2>1 DEF Charged
  <2>8. Promise!Order(t, a)
    BY <2>2, <2>5, <2>6, <2>7 DEF Promise!Order, node
  <2>9. QED
    BY <2>4, <2>8 DEF Promise!Next
<1>7. ASSUME NEW t \in Send, NonceArrives(t) \/ NonceMissing(t) PROVE Promise!Next
  <2>1. client[t] = "nonce" /\ post[t] = "none" /\ nonce[t] = None
    BY <1>1, <1>7 DEF NonceArrives, NonceMissing, TypeInv, PostedOnce
  <2>2. Charged[t] = Signer(t) /\ Charged[t] # None /\ Count(Signer(t)) \in Nat
    BY <1>1, <2>1, ChargedToSigner, SignerIsAccount
  <2>3. PICK n \in {0, Count(Signer(t))} : SignAndPost(t, n)
    BY <1>7 DEF NonceArrives, NonceMissing
  <2>4. n \in 0..Len(mined[Charged[t]])
    BY <2>2, <2>3 DEF Count
  <2>5. UNCHANGED <<send, pool, mined>>
    BY <1>7, <2>3 DEF NonceArrives, NonceMissing, SignAndPost, node
  <2>6. Charged' = Charged
    BY <2>5 DEF Charged, Signer
  <2>7. Told' = Told /\ Taken' = Taken
    BY <1>1, <2>1, <2>3 DEF Told, Taken, SignAndPost
  <2>8. Promise!Stamp(t)
    BY <2>1, <2>2, <2>3, <2>4, <2>5, <2>6, <2>7 DEF Promise!Stamp, SignAndPost
  <2>9. QED
    BY <2>8 DEF Promise!Next
<1>8. ASSUME NEW t \in Send, NonceFails(t) \/ PostFails(t) PROVE UNCHANGED Promise!vars
  <2>1. client[t] \in {"nonce", "posted"} /\ client' = [client EXCEPT ![t] = "failed"]
        /\ UNCHANGED <<send, nonce, post, pool, mined>>
    BY <1>8 DEF NonceFails, PostFails, node
  <2>2. Told' = Told
    BY <1>1, <2>1 DEF Told
  <2>3. QED
    BY <2>1, <2>2 DEF Charged, Taken, Signer
<1>9. ASSUME NEW t \in Send, Answered(t) PROVE Promise!Next \/ UNCHANGED Promise!vars
  <2>1. UNCHANGED <<Charged, Taken, nonce, pool, mined>> /\ client[t] = "posted"
    BY <1>9 DEF Answered, Charged, Taken, Signer, node
  <2>2. CASE client' = [client EXCEPT ![t] = "sent"] /\ post[t] = "accepted"
    <3>1. Told' = Told \cup {t} /\ t \in Taken
      BY <1>1, <2>2 DEF Told, Taken
    <3>2. Promise!Tell(t)
      BY <2>1, <3>1 DEF Promise!Tell
    <3>3. QED
      BY <3>2 DEF Promise!Next
  <2>3. CASE client' = [client EXCEPT ![t] = "refused"]
    <3>1. Told' = Told
      BY <1>1, <2>1, <2>3 DEF Told
    <3>2. QED
      BY <2>1, <3>1
  <2>4. QED
    BY <1>9, <2>2, <2>3 DEF Answered
<1>10. ASSUME NEW t \in Send, Accept(t) PROVE Promise!Next
  <2>1. /\ post[t] = "wire" /\ nonce[t] \in Nat /\ client[t] # "new"
        /\ UNCHANGED <<send, client, nonce, mined>>
    BY <1>1, <1>10 DEF Accept, TypeInv, PostedOnce
  <2>2. Charged[t] = Signer(t) /\ Charged[t] # None /\ Len(mined[Signer(t)]) \in Nat
    BY <1>1, <2>1, ChargedToSigner, SignerIsAccount DEF Count
  <2>3. nonce[t] = Len(mined[Signer(t)])
    <3>1. nonce[t] >= Len(mined[Signer(t)])
      BY <1>10 DEF Accept
    <3>2. nonce[t] <= Len(mined[Signer(t)])
      BY <1>1, <2>1, SendingAssumption DEF NonceInv, Counted
    <3>3. QED
      BY <2>1, <2>2, <3>1, <3>2
  <2>4. Taken' = Taken \cup {t} /\ t \notin Taken
    BY <1>1, <1>10 DEF Accept, Taken
  <2>5. Charged' = Charged /\ Told' = Told
    BY <2>1 DEF Charged, Told, Signer
  <2>6. \A u \in pool : SameSlot(t, u) <=> Charged[u] = Charged[t]
    <3> TAKE u \in pool
    <3>1. u \in Send /\ client[u] # "new"
      BY <1>1 DEF TypeInv, PostedOnce
    <3>2. Charged[u] = Signer(u)
      BY <1>1, <3>1, ChargedToSigner
    <3>3. nonce[u] = Len(mined[Signer(u)])
      BY <1>1 DEF NonceInv, NoNonceGap
    <3>4. QED
      BY <2>2, <2>3, <3>2, <3>3 DEF SameSlot
  <2>7. pool' = Promise!Without(Charged[t]) \cup {t}
    BY <1>10, <2>6 DEF Accept, Promise!Without
  <2>8. Promise!Take(t)
    BY <1>1, <2>1, <2>2, <2>3, <2>4, <2>5, <2>7, SendingAssumption DEF Promise!Take
  <2>9. QED
    BY <2>8 DEF Promise!Next
<1>11. ASSUME NEW t \in Send, Refuse(t) PROVE UNCHANGED Promise!vars
  <2>1. Taken' = Taken
    BY <1>1, <1>11 DEF Refuse, Taken
  <2>2. QED
    BY <1>11, <2>1 DEF Refuse, Charged, Told, Signer, node
<1>12. ASSUME NEW a \in Account, NEW x, Mines(a, x)
       PROVE  /\ pool' = Promise!Without(a)
              /\ mined' = [mined EXCEPT ![a] = Append(@, x)]
              /\ UNCHANGED <<Charged, nonce, Taken, Told>>
  <2>1. \A u \in pool : (Signer(u) = a => nonce[u] # Len(mined[a])) <=> Charged[u] # a
    <3> TAKE u \in pool
    <3>1. u \in Send /\ client[u] # "new"
      BY <1>1 DEF TypeInv, PostedOnce
    <3>2. Charged[u] = Signer(u)
      BY <1>1, <3>1, ChargedToSigner
    <3>3. nonce[u] = Len(mined[Signer(u)])
      BY <1>1 DEF NonceInv, NoNonceGap
    <3>4. QED
      BY <3>2, <3>3
  <2>2. QED
    BY <1>12, <2>1 DEF Mines, Promise!Without, Charged, Taken, Told, Signer, app
<1>13. ASSUME NEW t \in Send, MineOwn(t) PROVE Promise!Next
  <2>1. t \in pool /\ client[t] # "new"
    BY <1>1, <1>13 DEF MineOwn, TypeInv, PostedOnce
  <2>2. Charged[t] = Signer(t) /\ Signer(t) \in Account
    BY <1>1, <2>1, ChargedToSigner, SignerIsAccount
  <2>3. Promise!Pay(t)
    BY <1>12, <1>13, <2>1, <2>2 DEF MineOwn, Promise!Pay
  <2>4. QED
    BY <2>3 DEF Promise!Next
<1>14. ASSUME NEW a \in Account, MineOther(a) PROVE Promise!Next
  <2>1. Promise!PayElsewhere(a)
    BY <1>12, <1>14 DEF MineOther, Promise!PayElsewhere
  <2>2. QED
    BY <2>1 DEF Promise!Next
<1>15. CASE Restart
  <2>1. \A t \in Send : client'[t] = "sent" <=> client[t] = "sent"
    BY <1>1, <1>15 DEF Restart
  <2>2. Told' = Told
    BY <2>1 DEF Told
  <2>3. QED
    BY <1>15, <2>2 DEF Restart, Charged, Taken, Signer, node
<1>16. CASE UNCHANGED vars
  BY <1>2, <1>16 DEF vars
<1>17. QED
  BY <1>3, <1>4, <1>5, <1>6, <1>7, <1>8, <1>9, <1>10, <1>11, <1>13, <1>14, <1>15, <1>16 DEF Next

\* Sending keeps what the ledger promises: each send has one payer, is taken only as
\* the payer's very next payment, and is reported as sent only when it was taken.
THEOREM PromiseKept == Spec => KeepsPromise
  BY PromiseInit, PromiseStep, ImplInvariant, PTL DEF Spec, KeepsPromise, Promise!Spec
==============================================================================

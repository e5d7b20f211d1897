---------------------------- MODULE TxRecordsProofs ----------------------------
(*******************************************************************************)
(* For pages of any size and any number of transfers: types, and with them how *)
(* far the page counter can fall; and what the list holds.  ListIsPages says so*)
(* between requests, NoTransferSkipped also while the account grows.  The      *)
(* invariant behind both follows the next page that may be missing through a   *)
(* request that is out (NextPage, Requests): the counter alone says nothing then.*)
(*******************************************************************************)
EXTENDS TxRecords, TLAPS

\* A load moved the counter up before it takes it back.
TInv ==
    /\ TypeOK
    /\ asked["load"] # None => turnInPages \in Nat

-----------------------------------------------------------------------------
\* The explorer's pages.

LEMMA Products ==
    ASSUME NEW p \in Nat
    PROVE  /\ p * PageSize \in Nat
           /\ (p + 1) * PageSize = p * PageSize + PageSize
           /\ (p + 1) * PageSize \in Nat
           /\ PageSize \in Nat
           /\ PageSize >= 1
  <1>1. PageSize \in Nat /\ PageSize >= 1
    BY TxRecordsAssumption
  <1>2. p * PageSize \in Nat
    BY <1>1
  <1>3. (p + 1) * PageSize = p * PageSize + PageSize
    BY <1>1
  <1> QED
    BY <1>1, <1>2, <1>3

\* A page holds the transfers behind p * PageSize newer ones, newest first.
LEMMA PageOf ==
    ASSUME NEW a \in Account, total \in [Account -> Nat], NEW p \in Nat
    PROVE  LET m == p * PageSize
               n == Smaller((p + 1) * PageSize, total[a])
           IN  /\ Page(a, p) \in Seq(Record)
               /\ Len(Page(a, p)) = IF m < n THEN n - m ELSE 0
               /\ \A i \in 1..Len(Page(a, p)) :
                     Page(a, p)[i] = [account |-> a, number |-> total[a] + 1 - (m + i)]
  <1> DEFINE m == p * PageSize
             n == Smaller((p + 1) * PageSize, total[a])
             t == total[a]
  <1>1. /\ t \in Nat /\ m \in Nat /\ n \in Nat /\ n <= t
        /\ Page(a, p) = SubSeq(Transfers(a), m + 1, n)
    BY Products DEF Smaller, Page
  <1> HIDE DEF m, n
  <1>2. Transfers(a) \in Seq(Record) /\ Len(Transfers(a)) = t
    <2>1. \A i \in 1..t : t + 1 - i \in Nat
      BY <1>1
    <2>2. \A i \in 1..t : [account |-> a, number |-> t + 1 - i] \in Record
      BY <2>1 DEF Record
    <2> QED
      BY <1>1, <2>2 DEF Transfers
  <1>3. \A i \in 1..t : Transfers(a)[i] = [account |-> a, number |-> t + 1 - i]
    BY <1>1 DEF Transfers
  <1>4. /\ SubSeq(Transfers(a), m + 1, n) \in Seq(Record)
        /\ Len(SubSeq(Transfers(a), m + 1, n)) = IF m < n THEN n - m ELSE 0
        /\ \A i \in 1..Len(SubSeq(Transfers(a), m + 1, n)) :
              SubSeq(Transfers(a), m + 1, n)[i] = Transfers(a)[m + i]
    BY <1>1, <1>2
  <1>5. \A i \in 1..Len(Page(a, p)) :
           Page(a, p)[i] = [account |-> a, number |-> t + 1 - (m + i)]
    <2> SUFFICES ASSUME NEW i \in 1..Len(Page(a, p))
                 PROVE  Page(a, p)[i] = [account |-> a, number |-> t + 1 - (m + i)]
      OBVIOUS
    <2>1. m + i \in 1..t
      BY <1>1, <1>4
    <2> QED
      BY <1>1, <1>3, <1>4, <2>1
  <1> QED
    BY <1>1, <1>4, <1>5 DEF m, n

-----------------------------------------------------------------------------
LEMMA InitTInv == Init => TInv
  <1> SUFFICES ASSUME Init PROVE TInv
    OBVIOUS
  <1>1. total \in [Account -> Nat]
    BY TxRecordsAssumption DEF Init
  <1>2. asked = Nothing /\ \A k \in Kind : asked[k] = None
    BY DEF Init, Nothing
  <1>3. asked \in [Kind -> Request \cup {None}]
    BY <1>2 DEF Nothing
  <1>4. spinning = {} /\ turnInPages = 0 /\ list = <<>>
    BY DEF Init
  <1>5. "load" \in Kind
    BY DEF Kind
  <1>6. TypeOK
    <2>1. open \in BOOLEAN /\ crossed \in BOOLEAN /\ shown \in Account /\ trust \in Trust
      BY DEF Init, Trust
    <2>2. /\ spinning \subseteq Kind /\ list \in Seq(Record)
          /\ turnInPages \in Int /\ turnInPages >= -1
          /\ \A k \in Kind : asked[k] # None <=> k \in spinning
      BY <1>2, <1>4
    <2> QED
      BY <1>1, <1>3, <2>1, <2>2 DEF TypeOK
  <1> QED
    BY <1>2, <1>5, <1>6 DEF TInv

LEMMA StartKeeps ==
    ASSUME TInv, NEW k \in Kind, NEW p \in Nat, Start(k, p)
    PROVE  /\ spinning' \subseteq Kind
           /\ asked' \in [Kind -> Request \cup {None}]
           /\ \A l \in Kind : asked'[l] # None <=> l \in spinning'
           /\ asked'[k] = [account |-> shown, page |-> p]
           /\ \A l \in Kind : l # k => asked'[l] = asked[l]
           /\ turnInPages' = p
  <1> DEFINE r == [account |-> shown, page |-> p]
  <1>1. r \in Request /\ r # None
    <2>1. r \in Request
      BY DEF Request, TInv, TypeOK
    <2> QED
      BY <2>1, TxRecordsAssumption
  <1>2. /\ asked \in [Kind -> Request \cup {None}]
        /\ spinning \subseteq Kind
        /\ \A l \in Kind : asked[l] # None <=> l \in spinning
    BY DEF TInv, TypeOK
  <1>3. /\ asked' = [asked EXCEPT ![k] = r]
        /\ spinning' = spinning \cup {k}
        /\ turnInPages' = p
    BY DEF Start
  <1> QED
    BY <1>1, <1>2, <1>3

LEMMA FinishKeeps ==
    ASSUME TInv, NEW k \in Kind, NEW answered, Finished(k, answered)
    PROVE  /\ spinning' \subseteq Kind
           /\ asked' \in [Kind -> Request \cup {None}]
           /\ \A l \in Kind : asked'[l] # None <=> l \in spinning'
           /\ asked'[k] = None
           /\ \A l \in Kind : l # k => asked'[l] = asked[l]
  <1>1. /\ asked \in [Kind -> Request \cup {None}]
        /\ spinning \subseteq Kind
        /\ \A l \in Kind : asked[l] # None <=> l \in spinning
    BY DEF TInv, TypeOK
  <1>2. asked' = [asked EXCEPT ![k] = None] /\ spinning' = spinning \ {k}
    BY DEF Finished
  <1> QED
    BY <1>1, <1>2

LEMMA StepTInv == TInv /\ [Next]_vars => TInv'
  <1> SUFFICES ASSUME TInv, [Next]_vars PROVE TInv'
    OBVIOUS
  <1> USE DEF Kind
  <1>0. /\ shown \in Account /\ open \in BOOLEAN /\ list \in Seq(Record)
        /\ turnInPages \in Int /\ turnInPages >= -1 /\ spinning \subseteq Kind
        /\ asked \in [Kind -> Request \cup {None}] /\ total \in [Account -> Nat]
        /\ trust \in Trust /\ crossed \in BOOLEAN
        /\ \A k \in Kind : asked[k] # None <=> k \in spinning
        /\ asked["load"] # None => turnInPages \in Nat
    BY DEF TInv, TypeOK
  <1>1. CASE Open
    <2>1. Start("refresh", 0)
      BY <1>1 DEF Open, FirstPage
    <2>2. open' \in BOOLEAN /\ crossed' \in BOOLEAN /\ UNCHANGED <<shown, list, total, trust>>
      BY <1>1 DEF Open
    <2>3. /\ spinning' \subseteq Kind
          /\ asked' \in [Kind -> Request \cup {None}]
          /\ \A l \in Kind : asked'[l] # None <=> l \in spinning'
          /\ turnInPages' = 0
      BY <2>1, StartKeeps
    <2> QED
      BY <1>0, <2>2, <2>3 DEF TInv, TypeOK
  <1>2. CASE Leave
    <2>1. asked' = Nothing /\ spinning' = {} /\ list' = <<>> /\ turnInPages' = 0
      BY <1>2 DEF Leave
    <2>2. /\ asked' \in [Kind -> Request \cup {None}]
          /\ \A k \in Kind : asked'[k] # None <=> k \in spinning'
          /\ spinning' \subseteq Kind /\ list' \in Seq(Record)
      BY <2>1 DEF Nothing
    <2>3. /\ UNCHANGED <<shown, total>>
          /\ open' \in BOOLEAN /\ trust' \in Trust /\ crossed' \in BOOLEAN
      BY <1>2 DEF Leave, Trust
    <2> QED
      BY <1>0, <2>1, <2>2, <2>3 DEF TInv, TypeOK
  <1>3. CASE PullDown
    <2>1. Start("refresh", 0) /\ UNCHANGED <<shown, open, list, total>>
      BY <1>3 DEF PullDown, FirstPage
    <2>2. trust' \in Trust /\ crossed' \in BOOLEAN
      BY <1>0, <1>3 DEF PullDown, Trust
    <2>3. /\ spinning' \subseteq Kind
          /\ asked' \in [Kind -> Request \cup {None}]
          /\ \A l \in Kind : asked'[l] # None <=> l \in spinning'
          /\ turnInPages' = 0
      BY <2>1, StartKeeps
    <2> QED
      BY <1>0, <2>1, <2>2, <2>3 DEF TInv, TypeOK
  <1>4. CASE ReachEnd
    <2>1. /\ turnInPages + 1 \in Nat
          /\ Start("load", turnInPages + 1)
          /\ UNCHANGED <<shown, open, list, total, trust>>
          /\ crossed' \in BOOLEAN
      BY <1>0, <1>4 DEF ReachEnd
    <2>2. /\ spinning' \subseteq Kind
          /\ asked' \in [Kind -> Request \cup {None}]
          /\ \A l \in Kind : asked'[l] # None <=> l \in spinning'
          /\ turnInPages' = turnInPages + 1
      BY <2>1, StartKeeps
    <2> QED
      BY <1>0, <2>1, <2>2 DEF TInv, TypeOK
  <1>5. CASE Refreshed
    <2>1. asked["refresh"].account \in Account /\ asked["refresh"] # None
      BY <1>0, <1>5 DEF Refreshed, Request
    <2>2. list' \in Seq(Record)
      BY <1>0, <1>5, <2>1, PageOf DEF Refreshed, RefreshedList
    <2>3. trust' \in Trust /\ UNCHANGED <<shown, open, turnInPages, total, crossed>>
      BY <1>5 DEF Refreshed, Trust
    <2>4. /\ spinning' \subseteq Kind
          /\ asked' \in [Kind -> Request \cup {None}]
          /\ \A l \in Kind : asked'[l] # None <=> l \in spinning'
          /\ asked'["load"] = asked["load"]
      BY <1>5, FinishKeeps DEF Refreshed
    <2> QED
      BY <1>0, <2>2, <2>3, <2>4 DEF TInv, TypeOK
  <1>6. CASE Loaded
    <2> DEFINE page == Page(asked["load"].account, asked["load"].page)
    <2>1. /\ asked["load"] # None
          /\ asked["load"].account \in Account
          /\ asked["load"].page \in Nat
          /\ turnInPages \in Nat
      BY <1>0, <1>6 DEF Loaded, Request
    <2>2. page \in Seq(Record)
      BY <1>0, <2>1, PageOf
    <2>3. /\ list' = list \/ list' = list \o page
          /\ turnInPages' = turnInPages \/ turnInPages' = turnInPages - 1
      BY <1>6 DEF Loaded, TakeBack
    <2> HIDE DEF page
    <2>4. /\ list' \in Seq(Record)
          /\ turnInPages' \in Int /\ turnInPages' >= -1
      <3>1. list \o page \in Seq(Record)
        BY <1>0, <2>2
      <3>2. list' \in Seq(Record)
        BY <1>0, <2>3, <3>1
      <3>3. turnInPages' \in Int /\ turnInPages' >= -1
        BY <2>1, <2>3
      <3> QED
        BY <3>2, <3>3
    <2>5. UNCHANGED <<shown, open, total, trust, crossed>>
      BY <1>6 DEF Loaded
    <2>6. /\ spinning' \subseteq Kind
          /\ asked' \in [Kind -> Request \cup {None}]
          /\ \A l \in Kind : asked'[l] # None <=> l \in spinning'
          /\ asked'["load"] = None
      BY <1>6, FinishKeeps DEF Loaded
    <2> QED
      BY <1>0, <2>4, <2>5, <2>6 DEF TInv, TypeOK
  <1>7. ASSUME NEW k \in Kind, Failed(k) PROVE TInv'
    <2>1. /\ UNCHANGED <<shown, open, list, turnInPages, total, crossed>>
          /\ trust' \in Trust
      BY <1>0, <1>7 DEF Failed, Trust
    <2>2. /\ spinning' \subseteq Kind
          /\ asked' \in [Kind -> Request \cup {None}]
          /\ \A l \in Kind : asked'[l] # None <=> l \in spinning'
          /\ asked'["load"] \in {None, asked["load"]}
      BY <1>7, FinishKeeps DEF Failed
    <2> QED
      BY <1>0, <2>1, <2>2 DEF TInv, TypeOK
  <1>8. ASSUME NEW a \in Account, SelectWallet(a) \/ KeystoreImported(a) PROVE TInv'
    BY <1>0, <1>8 DEF SelectWallet, KeystoreImported, TInv, TypeOK, Trust
  <1>9. ASSUME NEW a \in Account, NewTransfer(a) PROVE TInv'
    <2>1. total' \in [Account -> Nat]
      BY <1>0, <1>9 DEF NewTransfer
    <2>2. /\ UNCHANGED <<shown, open, list, turnInPages, spinning, asked, crossed>>
          /\ trust' \in Trust
      BY <1>0, <1>9 DEF NewTransfer, Trust
    <2> QED
      BY <1>0, <2>1, <2>2 DEF TInv, TypeOK
  <1>10. CASE UNCHANGED vars
    BY <1>0, <1>10 DEF vars, TInv, TypeOK
  <1> QED
    BY <1>1, <1>2, <1>3, <1>4, <1>5, <1>6, <1>7, <1>8, <1>9, <1>10 DEF Next, Answer

-----------------------------------------------------------------------------
\* The counter of the view model never falls more than one below the first page, and
\* every request asks for a page that may exist (loadPreTurnInDatas).
THEOREM TypeCorrect == Spec => []TypeOK
  <1>1. TInv => TypeOK
    BY DEF TInv
  <1> QED
    BY <1>1, InitTInv, StepTInv, PTL DEF Spec
-----------------------------------------------------------------------------
\* What the list holds.

Pending(k) == asked[k] # None

\* A closed page has no list and no request; a refresh that met nothing else is the
\* shown account's and has reset the counter; a load asks no page above the counter.
Requests ==
    /\ ~open => trust = "nothing" /\ ~Pending("load") /\ ~Pending("refresh")
    /\ Pending("refresh") /\ ~crossed =>
          ~Pending("load") /\ asked["refresh"].account = shown /\ turnInPages = 0
    /\ trust # "nothing" /\ Pending("load") =>
          asked["load"].account = shown /\ turnInPages <= asked["load"].page

\* The first page that may be missing at the end of the list.  The counter shows it,
\* unless it fell below the first page, or a load is out.
NextPage ==
    LET next == IF Pending("load") THEN asked["load"].page ELSE turnInPages + 1
    IN  IF next > 0 THEN next ELSE 1

Has(n) == \E j \in DOMAIN list : list[j] = [account |-> shown, number |-> n]

\* No transfer is missing between the top of the list and any in it, nor between the
\* top and the next page, wherever that has moved.
Gapless ==
    trust # "nothing" /\ list # <<>> =>
        /\ \A i \in DOMAIN list :
              list[i].account = shown /\ list[i].number <= total[shown]
        /\ \A i \in DOMAIN list : \A n \in list[i].number..list[1].number : Has(n)
        /\ \A n \in 1..list[1].number : n > total[shown] - NextPage * PageSize => Has(n)

\* While nothing fails, overlaps or grows the list is all pages before the next one.
Exact ==
    trust = "exact" =>
        /\ ~Pending("refresh")
        /\ turnInPages >= 0
        /\ Pending("load") => turnInPages > 0 /\ asked["load"].page = turnInPages
        /\ Len(list) = Smaller(NextPage * PageSize, total[shown])
        /\ \A i \in DOMAIN list :
              list[i] = [account |-> shown, number |-> total[shown] + 1 - i]
        /\ NextPage > 1 => (NextPage - 1) * PageSize < total[shown]

ListInv == TInv /\ Requests /\ Gapless /\ Exact

LEMMA ProductOrder ==
    ASSUME NEW p \in Nat, NEW q \in Nat, p <= q
    PROVE  p * PageSize <= q * PageSize
  <1>1. PageSize \in Nat /\ q - p \in Nat
    BY TxRecordsAssumption
  <1>2. (q - p) * PageSize \in Nat /\ p * PageSize \in Nat
    BY <1>1
  <1>3. q * PageSize = p * PageSize + (q - p) * PageSize
    BY <1>1
  <1> QED
    BY <1>2, <1>3

TypedFacts ==
    /\ shown \in Account /\ list \in Seq(Record)
    /\ turnInPages \in Int /\ turnInPages >= -1
    /\ total \in [Account -> Nat] /\ total[shown] \in Nat
    /\ asked \in [Kind -> Request \cup {None}]
    /\ \A k \in Kind : Pending(k) <=> k \in spinning
    /\ \A k \in Kind : Pending(k) =>
          asked[k].account \in Account /\ asked[k].page \in Nat
    /\ Pending("load") => turnInPages \in Nat
    /\ "load" \in Kind /\ "refresh" \in Kind
    /\ NextPage \in Nat /\ NextPage >= 1
    /\ NextPage * PageSize \in Nat

LEMMA Typed == TInv => TypedFacts
  <1> SUFFICES ASSUME TInv PROVE TypedFacts
    OBVIOUS
  <1>1. "load" \in Kind /\ "refresh" \in Kind
    BY DEF Kind
  <1>2. /\ shown \in Account /\ list \in Seq(Record)
        /\ turnInPages \in Int /\ turnInPages >= -1
        /\ total \in [Account -> Nat] /\ total[shown] \in Nat
        /\ asked \in [Kind -> Request \cup {None}]
        /\ \A k \in Kind : Pending(k) <=> k \in spinning
        /\ Pending("load") => turnInPages \in Nat
    BY DEF TInv, TypeOK, Pending
  <1>3. \A k \in Kind : Pending(k) =>
           asked[k].account \in Account /\ asked[k].page \in Nat
    BY <1>2 DEF Pending, Request
  <1>4. NextPage \in Nat /\ NextPage >= 1
    BY <1>1, <1>2, <1>3 DEF NextPage
  <1> QED
    BY <1>1, <1>2, <1>3, <1>4, Products DEF TypedFacts

LEMMA TypedNext == TInv' => TypedFacts'
  BY Typed, PTL

\* The list stays, and the next page is none beyond the one before.
LEMMA SameList ==
    ASSUME TInv, TInv', Gapless, list' = list,
           trust' # "nothing" => trust # "nothing" /\ shown' = shown /\ NextPage' <= NextPage,
           total[shown] <= total'[shown]
    PROVE  Gapless'
  <1> SUFFICES ASSUME trust' # "nothing", list # <<>>
               PROVE  /\ \A i \in DOMAIN list :
                            list[i].account = shown /\ list[i].number <= total'[shown]
                      /\ \A i \in DOMAIN list :
                            \A n \in list[i].number..list[1].number : Has(n)
                      /\ \A n \in 1..list[1].number :
                            n > total'[shown] - NextPage' * PageSize => Has(n)
    BY DEF Gapless, Has
  <1>1. /\ total[shown] \in Nat /\ total'[shown] \in Nat
        /\ NextPage \in Nat /\ NextPage' \in Nat /\ NextPage' <= NextPage
    BY Typed, TypedNext DEF TypedFacts
  <1>2. /\ NextPage' * PageSize <= NextPage * PageSize
        /\ NextPage' * PageSize \in Nat /\ NextPage * PageSize \in Nat
    BY <1>1, ProductOrder, Products
  <1>3. list \in Seq(Record) /\ 1 \in DOMAIN list
    BY Typed DEF TypedFacts
  <1>4. \A i \in DOMAIN list : list[i] \in Record
    BY <1>3
  <1>5. \A i \in DOMAIN list : list[i].number \in Nat
    BY <1>4 DEF Record
  <1> QED
    BY <1>1, <1>2, <1>3, <1>5 DEF Gapless

\* All pages before the next one leave no gap.
LEMMA ExactIsGapless == TInv /\ Exact /\ trust = "exact" => Gapless
  <1> SUFFICES ASSUME TInv, Exact, trust = "exact", list # <<>> PROVE Gapless
    BY DEF Gapless
  <1> DEFINE t == total[shown]
             e == NextPage * PageSize
  <1>1. t \in Nat /\ e \in Nat /\ list \in Seq(Record)
    BY Typed DEF TypedFacts
  <1>2. /\ Len(list) = Smaller(e, t)
        /\ \A i \in DOMAIN list : list[i] = [account |-> shown, number |-> t + 1 - i]
    BY DEF Exact
  <1> HIDE DEF e, t
  <1>3. Len(list) <= t /\ (Len(list) = e \/ Len(list) = t) /\ Len(list) \in Nat
    BY <1>1, <1>2 DEF Smaller
  <1>4. 1 \in DOMAIN list /\ DOMAIN list = 1..Len(list)
    BY <1>1
  <1>5. \A i \in DOMAIN list : list[i].account = shown /\ list[i].number = t + 1 - i
    BY <1>2
  <1>6. \A n \in Nat : t + 1 - n \in DOMAIN list => Has(n)
    <2> SUFFICES ASSUME NEW n \in Nat, t + 1 - n \in DOMAIN list PROVE Has(n)
      OBVIOUS
    <2>1. list[t + 1 - n] = [account |-> shown, number |-> t + 1 - (t + 1 - n)]
      BY <1>2
    <2>2. t + 1 - (t + 1 - n) = n
      BY <1>1
    <2> QED
      BY <2>1, <2>2 DEF Has
  <1>7. \A i \in DOMAIN list : list[i].account = shown /\ list[i].number <= t
    BY <1>1, <1>4, <1>5
  <1>8. ASSUME NEW i \in DOMAIN list, NEW n \in list[i].number..list[1].number
        PROVE  Has(n)
    <2>1. list[i].number = t + 1 - i /\ list[1].number = t + 1 - 1
      BY <1>4, <1>5
    <2>2. i \in 1..Len(list) /\ i <= t
      <3>1. i \in 1..Len(list)
        BY <1>4
      <3> QED
        BY <1>1, <1>3, <3>1
    <2>3. n \in Nat /\ t + 1 - n \in 1..Len(list)
      BY <1>1, <1>3, <2>1, <2>2
    <2> QED
      BY <1>4, <1>6, <2>3
  <1>9. ASSUME NEW n \in 1..list[1].number, n > t - e PROVE Has(n)
    <2>1. list[1].number = t + 1 - 1
      BY <1>4, <1>5
    <2>2. n \in Nat /\ t + 1 - n \in 1..Len(list)
      BY <1>1, <1>3, <1>9, <2>1
    <2> QED
      BY <1>4, <1>6, <2>2
  <1> QED
    BY <1>7, <1>8, <1>9 DEF Gapless, t, e

LEMMA ExactIsGaplessNext == (TInv /\ Exact /\ trust = "exact" => Gapless)'
  BY ExactIsGapless, PTL

-----------------------------------------------------------------------------
\* The answers.

LEMMA Ends ==
    ASSUME TInv, NEW k \in Kind, NEW answered, Finished(k, answered)
    PROVE  /\ ~Pending(k)'
           /\ \A l \in Kind : l # k => asked'[l] = asked[l]
  BY FinishKeeps DEF Pending

LEMMA RefreshedKeeps == ASSUME ListInv, TInv', Refreshed PROVE Requests' /\ Gapless' /\ Exact'
  <1>1. TInv /\ Requests /\ TypedFacts /\ Pending("refresh") /\ open
    BY Typed DEF ListInv, Refreshed, Pending, Requests
  <1>2. /\ ~Pending("refresh")'
        /\ asked'["load"] = asked["load"]
        /\ UNCHANGED <<shown, open, turnInPages, total, crossed>>
    BY <1>1, Ends DEF Refreshed, TypedFacts
  <1>3. CASE crossed
    <2>1. trust' = "nothing"
      BY <1>3 DEF Refreshed
    <2> QED
      BY <1>1, <1>2, <2>1 DEF Requests, Gapless, Exact
  <1>4. CASE ~crossed
    <2>1. /\ ~Pending("load")
          /\ asked["refresh"].account = shown
          /\ turnInPages = 0
      BY <1>1, <1>4 DEF Requests
    <2>2. trust' = "exact" /\ ~Pending("load")' /\ list' = Page(shown, 0)
      BY <1>2, <1>4, <2>1 DEF Refreshed, RefreshedList, Pending
    <2>3. NextPage' = 1
      BY <1>2, <2>1, <2>2 DEF NextPage
    <2>4. /\ 0 * PageSize = 0 /\ (0 + 1) * PageSize = PageSize /\ 1 * PageSize = PageSize
          /\ PageSize \in Nat /\ PageSize >= 1
      BY TxRecordsAssumption
    <2>5. total[shown] \in Nat
      BY <1>1 DEF TypedFacts
    <2>6. /\ list' \in Seq(Record)
          /\ Len(list') = Smaller(PageSize, total[shown])
          /\ \A i \in 1..Len(list') :
                list'[i] = [account |-> shown, number |-> total[shown] + 1 - (0 + i)]
      <3>1. LET m == 0 * PageSize
                n == Smaller((0 + 1) * PageSize, total[shown])
            IN  /\ Page(shown, 0) \in Seq(Record)
                /\ Len(Page(shown, 0)) = IF m < n THEN n - m ELSE 0
                /\ \A i \in 1..Len(Page(shown, 0)) :
                      Page(shown, 0)[i] = [account |-> shown, number |-> total[shown] + 1 - (m + i)]
        BY <1>1, PageOf DEF TypedFacts
      <3> QED
        BY <2>2, <2>4, <2>5, <3>1 DEF Smaller
    <2>7. \A i \in DOMAIN list' : list'[i] = [account |-> shown, number |-> total[shown] + 1 - i]
      <3>1. DOMAIN list' = 1..Len(list') /\ \A i \in DOMAIN list' : 0 + i = i
        BY <2>6
      <3> QED
        BY <2>6, <3>1
    <2>8. Exact'
      BY <1>2, <2>1, <2>2, <2>3, <2>4, <2>6, <2>7 DEF Exact
    <2>9. Requests'
      BY <1>1, <1>2, <2>2 DEF Requests
    <2> QED
      BY <2>2, <2>8, <2>9, ExactIsGaplessNext
  <1> QED
    BY <1>3, <1>4

LEMMA EmptySeq == Len(<<>>) = 0 /\ DOMAIN <<>> = 1..0
  OBVIOUS

\* An empty page: the list already goes down to the oldest transfer.
LEMMA NothingLoaded ==
    ASSUME ListInv, TInv', Loaded, Page(asked["load"].account, asked["load"].page) = <<>>
    PROVE  Requests' /\ Gapless' /\ Exact'
  <1>1. TInv /\ Requests /\ Gapless /\ Exact /\ TypedFacts /\ Pending("load") /\ open
    BY Typed DEF ListInv, Loaded, Pending, Requests
  <1>2. /\ ~Pending("load")'
        /\ asked'["refresh"] = asked["refresh"]
        /\ UNCHANGED <<shown, open, list, total, trust, crossed>>
        /\ turnInPages' = turnInPages - 1
    BY <1>1, Ends DEF Loaded, TypedFacts, TakeBack
  <1>3. turnInPages \in Nat /\ asked["load"].page \in Nat
    BY <1>1 DEF TypedFacts
  <1>4. NextPage' = IF turnInPages > 0 THEN turnInPages ELSE 1
    BY <1>2, <1>3 DEF NextPage
  <1>5. Requests'
    BY <1>1, <1>2 DEF Requests, Pending
  <1>6. trust # "nothing" => NextPage' <= NextPage
    <2>1. trust # "nothing" => turnInPages <= asked["load"].page
      BY <1>1 DEF Requests
    <2> QED
      BY <1>1, <1>3, <1>4, <2>1 DEF NextPage
  <1>7. Gapless'
    BY <1>1, <1>2, <1>6, SameList DEF TypedFacts
  <1>8. Exact'
    <2> SUFFICES ASSUME trust = "exact" PROVE Exact'
      BY <1>2 DEF Exact
    <2>1. turnInPages > 0 /\ asked["load"].page = turnInPages
      BY <1>1 DEF Exact
    <2>2. NextPage' = NextPage
      BY <1>1, <1>3, <1>4, <2>1 DEF NextPage
    <2>3. turnInPages' >= 0
      BY <1>2, <1>3, <2>1
    <2> QED
      BY <1>1, <1>2, <2>2, <2>3 DEF Exact, Pending
  <1> QED
    BY <1>5, <1>7, <1>8

\* A page with transfers is put behind the list.
LEMMA PageLoaded ==
    ASSUME ListInv, TInv', Loaded, Page(asked["load"].account, asked["load"].page) # <<>>
    PROVE  Requests' /\ Gapless' /\ Exact'
  <1> DEFINE q == asked["load"].page
             t == total[shown]
             page == Page(shown, q)
             m == q * PageSize
             e == (q + 1) * PageSize
             n == Smaller(e, t)
             k == Len(list)
  <1>1. TInv /\ Requests /\ Gapless /\ Exact /\ TypedFacts /\ Pending("load") /\ open
    BY Typed DEF ListInv, Loaded, Pending, Requests
  <1>2. /\ ~Pending("load")'
        /\ asked'["refresh"] = asked["refresh"]
        /\ UNCHANGED <<shown, open, turnInPages, total, trust, crossed>>
        /\ list' = list \o Page(asked["load"].account, asked["load"].page)
    BY <1>1, Ends DEF Loaded, TypedFacts
  <1>3. Requests'
    BY <1>1, <1>2 DEF Requests, Pending
  <1>4. CASE trust = "nothing"
    BY <1>2, <1>3, <1>4 DEF Gapless, Exact
  <1>5. CASE trust # "nothing"
    <2>1. /\ asked["load"].account = shown
          /\ turnInPages \in Nat /\ q \in Nat /\ turnInPages <= q
          /\ t \in Nat /\ shown \in Account /\ list \in Seq(Record) /\ k \in Nat
      BY <1>1, <1>5 DEF Requests, TypedFacts
    <2>2. /\ m \in Nat /\ e = m + PageSize
          /\ PageSize \in Nat /\ PageSize >= 1
      BY <2>1, Products
    <2>3. /\ page \in Seq(Record)
          /\ Len(page) = IF m < n THEN n - m ELSE 0
          /\ \A i \in 1..Len(page) : page[i] = [account |-> shown, number |-> t + 1 - (m + i)]
      BY <1>1, <2>1, PageOf DEF TypedFacts
    <2>4. list' = list \o page /\ page # <<>>
      BY <1>2, <2>1
    <2>5. m <= NextPage * PageSize /\ NextPage * PageSize \in Nat
      <3>1. q <= NextPage /\ NextPage \in Nat
        BY <1>1, <2>1 DEF NextPage, TypedFacts
      <3> QED
        BY <1>1, <2>1, <3>1, ProductOrder DEF TypedFacts
    <2>6. NextPage' = turnInPages + 1 /\ NextPage' * PageSize <= e
      <3>1. NextPage' = turnInPages + 1
        BY <1>2, <2>1 DEF NextPage
      <3> QED
        BY <2>1, <3>1, ProductOrder
    <2>7. NextPage' * PageSize \in Nat
      BY TypedNext DEF TypedFacts
    <2>8. trust = "exact" => turnInPages = q /\ q > 0 /\ NextPage * PageSize = m
      BY <1>1, <2>1 DEF Exact, NextPage
    <2>9. turnInPages = q => NextPage' * PageSize = e /\ (NextPage' - 1) * PageSize = m
      BY <2>1, <2>6
    <2> HIDE DEF page, m, e, q, t
    <2>10. n \in Nat /\ n <= t /\ n <= e /\ (n = t \/ n = e)
      BY <2>1, <2>2 DEF Smaller
    <2>11. m < n /\ Len(page) = n - m
      BY <2>2, <2>3, <2>4, <2>10
    <2> HIDE DEF n
    <2>12. /\ list' \in Seq(Record)
           /\ Len(list') = k + (n - m)
           /\ \A i \in 1..k : list'[i] = list[i]
           /\ \A i \in 1..(n - m) :
                 list'[k + i] = [account |-> shown, number |-> t + 1 - (m + i)]
      <3>1. n - m \in Nat
        BY <2>2, <2>10, <2>11
      <3>2. list \o page \in Seq(Record) /\ Len(list \o page) = k + Len(page)
        BY <2>1, <2>3
      <3>3. \A i \in 1..k : (list \o page)[i] = list[i]
        BY <2>1, <2>3
      <3>4. \A i \in 1..Len(page) : (list \o page)[k + i] = page[i]
        BY <2>1, <2>3
      <3> QED
        BY <2>3, <2>4, <2>11, <3>1, <3>2, <3>3, <3>4
    <2> HIDE DEF k
    <2>13. /\ DOMAIN list = 1..k /\ DOMAIN list' = 1..(k + (n - m))
           /\ n - m \in Nat /\ n - m >= 1 /\ k \in Nat
      BY <2>1, <2>2, <2>10, <2>11, <2>12 DEF k
    <2>14. \A i \in 1..k : list[i] \in Record /\ list[i].number \in Nat
      <3>1. \A i \in 1..k : list[i] \in Record
        BY <2>1 DEF k
      <3> QED
        BY <3>1 DEF Record
    <2>15. \A x : Has(x) => Has(x)'
      <3> SUFFICES ASSUME NEW x, NEW j \in DOMAIN list,
                          list[j] = [account |-> shown, number |-> x]
                   PROVE  Has(x)'
        BY DEF Has
      <3>1. j \in 1..k
        BY <2>13
      <3>2. j \in DOMAIN list' /\ list'[j] = list[j]
        BY <2>12, <2>13, <3>1
      <3> QED
        BY <1>2, <3>2 DEF Has
    <2>16. ASSUME NEW x \in 1..(t - m), x > t - e PROVE Has(x)'
      <3> DEFINE j == t + 1 - (m + x)
      <3>1. j \in 1..(n - m) /\ t + 1 - (m + j) = x
        BY <2>1, <2>2, <2>10, <2>11, <2>16
      <3>2. k + j \in DOMAIN list'
        BY <2>13, <3>1
      <3> HIDE DEF j
      <3>3. list'[k + j] = [account |-> shown, number |-> x]
        BY <2>12, <3>1
      <3> QED
        BY <1>2, <3>2, <3>3 DEF Has
    <2>17. k > 0 => \A x \in 1..list[1].number : x > t - m => Has(x)'
      <3> SUFFICES ASSUME k > 0, NEW x \in 1..list[1].number, x > t - m PROVE Has(x)'
        OBVIOUS
      <3>1. list # <<>>
        BY <2>13, EmptySeq
      <3>2. list[1].number \in Nat
        BY <2>13, <2>14
      <3>3. x > t - NextPage * PageSize
        BY <2>1, <2>2, <2>5, <3>2
      <3>4. Has(x)
        BY <1>1, <1>5, <3>1, <3>3 DEF Gapless, t
      <3> QED
        BY <2>15, <3>4
    <2>18. IF k > 0 THEN list'[1] = list[1] ELSE list'[1].number = t - m
      <3>1. CASE k > 0
        BY <2>12, <2>13, <3>1
      <3>2. CASE k = 0
        <4>1. list'[0 + 1] = [account |-> shown, number |-> t + 1 - (m + 1)]
          BY <2>12, <2>13, <3>2
        <4>2. 0 + 1 = 1 /\ t + 1 - (m + 1) = t - m
          BY <2>1, <2>2
        <4> QED
          BY <3>2, <4>1, <4>2
      <3> QED
        BY <2>13, <3>1, <3>2
    <2>19. list'[1].number \in Int
      <3>1. CASE k > 0
        <4>1. 1 \in 1..k
          BY <2>13, <3>1
        <4>2. list'[1].number = list[1].number /\ list[1].number \in Nat
          BY <2>14, <2>18, <3>1, <4>1
        <4> QED
          BY <4>2
      <3>2. CASE ~(k > 0)
        BY <2>1, <2>2, <2>18, <3>2
      <3> QED
        BY <3>1, <3>2
    <2>20. ASSUME NEW x \in 1..list'[1].number, x > t - e PROVE Has(x)'
      <3>1. x \in Nat /\ x >= 1 /\ x <= list'[1].number
        BY <2>19
      <3>2. CASE x <= t - m
        BY <2>1, <2>2, <2>16, <2>20, <3>1, <3>2
      <3>3. CASE x > t - m
        <4>1. k > 0
          BY <2>13, <2>18, <3>1, <3>3, <2>1, <2>2
        <4> QED
          BY <2>17, <2>18, <3>3, <4>1
      <3> QED
        BY <2>1, <2>2, <3>1, <3>2, <3>3
    <2>21. ASSUME NEW i \in DOMAIN list', ~(i \in 1..k)
           PROVE  /\ i - k \in 1..(n - m)
                  /\ list'[i].account = shown
                  /\ list'[i].number = t + 1 - (m + (i - k))
      <3>1. i - k \in 1..(n - m) /\ k + (i - k) = i
        BY <2>13, <2>21
      <3>2. list'[k + (i - k)] = [account |-> shown, number |-> t + 1 - (m + (i - k))]
        BY <2>12, <3>1
      <3> QED
        BY <3>1, <3>2
    <2>22. \A i \in DOMAIN list' : list'[i].account = shown /\ list'[i].number <= t
      <3> SUFFICES ASSUME NEW i \in DOMAIN list'
                   PROVE  list'[i].account = shown /\ list'[i].number <= t
        OBVIOUS
      <3>1. CASE i \in 1..k
        <4>1. list'[i] = list[i] /\ i \in DOMAIN list /\ list # <<>>
          BY <2>12, <2>13, <3>1, EmptySeq
        <4> QED
          BY <1>1, <1>5, <4>1 DEF Gapless, t
      <3>2. CASE ~(i \in 1..k)
        <4>1. /\ i - k \in 1..(n - m)
              /\ list'[i].account = shown
              /\ list'[i].number = t + 1 - (m + (i - k))
          BY <2>21, <3>2
        <4> QED
          BY <2>1, <2>2, <2>10, <4>1
      <3> QED
        BY <3>1, <3>2
    <2>23. ASSUME NEW i \in DOMAIN list', NEW x \in list'[i].number..list'[1].number
           PROVE  Has(x)'
      <3>1. CASE i \in 1..k
        <4>1. /\ list'[i] = list[i] /\ i \in DOMAIN list /\ list # <<>>
              /\ list'[1] = list[1]
          BY <2>12, <2>13, <2>18, <3>1, EmptySeq
        <4>2. Has(x)
          BY <1>1, <1>5, <2>23, <4>1 DEF Gapless
        <4> QED
          BY <2>15, <4>2
      <3>2. CASE ~(i \in 1..k)
        <4>1. /\ i - k \in 1..(n - m)
              /\ list'[i].number = t + 1 - (m + (i - k))
          BY <2>21, <3>2
        <4>2. /\ list'[i].number \in Int
              /\ list'[i].number >= 1
              /\ list'[i].number > t - e
          BY <2>1, <2>2, <2>10, <2>13, <4>1
        <4>3. x \in 1..list'[1].number /\ x > t - e
          BY <2>1, <2>2, <2>19, <2>23, <4>2
        <4> QED
          BY <2>20, <4>3
      <3> QED
        BY <3>1, <3>2
    <2>24. ASSUME NEW x \in 1..list'[1].number, x > t - NextPage' * PageSize PROVE Has(x)'
      <3>1. x > t - e
        BY <2>1, <2>2, <2>6, <2>7, <2>19, <2>24
      <3> QED
        BY <2>20, <3>1
    <2>25. Gapless'
      <3>1. t = total'[shown'] /\ shown' = shown
        BY <1>2 DEF t
      <3> QED
        BY <2>22, <2>23, <2>24, <3>1 DEF Gapless
    <2>26. Exact'
      <3> SUFFICES ASSUME trust = "exact" PROVE Exact'
        BY <1>2 DEF Exact
      <3>1. turnInPages = q /\ q > 0 /\ NextPage * PageSize = m /\ ~Pending("refresh")
        BY <1>1, <2>8 DEF Exact
      <3>2. NextPage' * PageSize = e /\ (NextPage' - 1) * PageSize = m
        BY <2>9, <3>1
      <3>3. k = m
        <4>1. k = Smaller(m, t)
          BY <1>1, <3>1 DEF Exact, k, t
        <4> QED
          BY <2>1, <2>2, <2>10, <2>11, <4>1 DEF Smaller
      <3>4. Len(list') = Smaller(e, t)
        <4>1. Len(list') = n
          BY <2>2, <2>10, <2>12, <3>3
        <4> QED
          BY <4>1 DEF n
      <3>5. \A i \in DOMAIN list' : list'[i] = [account |-> shown, number |-> t + 1 - i]
        <4> SUFFICES ASSUME NEW i \in DOMAIN list'
                     PROVE  list'[i] = [account |-> shown, number |-> t + 1 - i]
          OBVIOUS
        <4>1. CASE i \in 1..k
          <5>1. list'[i] = list[i] /\ i \in DOMAIN list
            BY <2>12, <2>13, <4>1
          <5> QED
            BY <1>1, <5>1 DEF Exact, t
        <4>2. CASE ~(i \in 1..k)
          <5>1. i - k \in 1..(n - m) /\ k + (i - k) = i /\ m + (i - k) = i
            BY <2>2, <2>13, <2>21, <3>3, <4>2
          <5>2. list'[k + (i - k)] = [account |-> shown, number |-> t + 1 - (m + (i - k))]
            BY <2>12, <5>1
          <5> QED
            BY <5>1, <5>2
        <4> QED
          BY <4>1, <4>2
      <3>6. m < t
        BY <2>1, <2>2, <2>10, <2>11
      <3>7. ~Pending("refresh")'
        BY <1>2, <3>1 DEF Pending
      <3>8. t = total'[shown'] /\ shown' = shown /\ turnInPages' >= 0
        BY <1>2, <2>1 DEF t
      <3> QED
        BY <1>2, <3>2, <3>4, <3>5, <3>6, <3>7, <3>8 DEF Exact
    <2> QED
      BY <1>3, <2>25, <2>26
  <1> QED
    BY <1>3, <1>4, <1>5

LEMMA LoadedKeeps == ASSUME ListInv, TInv', Loaded PROVE Requests' /\ Gapless' /\ Exact'
  <1>1. CASE Page(asked["load"].account, asked["load"].page) = <<>>
    BY <1>1, NothingLoaded
  <1>2. CASE Page(asked["load"].account, asked["load"].page) # <<>>
    BY <1>2, PageLoaded
  <1> QED
    BY <1>1, <1>2

LEMMA FailedKeeps ==
    ASSUME ListInv, TInv', NEW k \in Kind, Failed(k)
    PROVE  Requests' /\ Gapless' /\ Exact'
  <1>1. /\ TInv /\ Requests /\ Gapless /\ Exact /\ TypedFacts /\ Pending(k) /\ open
        /\ k \in {"refresh", "load"}
    BY Typed DEF ListInv, Failed, Pending, Requests, Kind
  <1>2. /\ ~Pending(k)'
        /\ \A l \in Kind : l # k => asked'[l] = asked[l]
        /\ UNCHANGED <<shown, open, list, turnInPages, total, crossed>>
    BY Ends, <1>1 DEF Failed
  <1>3. CASE k = "load"
    <2>1. trust' = "nothing" /\ ~Pending("load")' /\ asked'["refresh"] = asked["refresh"]
      BY <1>1, <1>2, <1>3 DEF Failed, TypedFacts
    <2> QED
      BY <1>1, <1>2, <2>1 DEF Requests, Gapless, Exact, Pending
  <1>4. CASE k = "refresh"
    <2>1. trust' = trust /\ ~Pending("refresh")' /\ asked'["load"] = asked["load"]
      BY <1>1, <1>2, <1>4 DEF Failed, TypedFacts
    <2>2. NextPage' = NextPage
      BY <1>2, <2>1 DEF NextPage, Pending
    <2>3. Gapless'
      BY <1>1, <1>2, <2>1, <2>2, SameList DEF TypedFacts
    <2>4. Requests'
      BY <1>1, <1>2, <2>1 DEF Requests, Pending
    <2>5. Exact'
      BY <1>1, <1>4, <2>1 DEF Exact
    <2> QED
      BY <2>3, <2>4, <2>5
  <1> QED
    BY <1>1, <1>3, <1>4

-----------------------------------------------------------------------------
\* The other steps leave the list alone, or empty it.

LEMMA Starts ==
    ASSUME TInv, NEW k \in Kind, NEW p \in Nat, Start(k, p)
    PROVE  /\ asked'[k] = [account |-> shown, page |-> p]
           /\ asked'[k].account = shown /\ asked'[k].page = p
           /\ Pending(k)'
           /\ \A l \in Kind : l # k => asked'[l] = asked[l]
           /\ turnInPages' = p
  <1>1. /\ asked'[k] = [account |-> shown, page |-> p]
        /\ \A l \in Kind : l # k => asked'[l] = asked[l]
        /\ turnInPages' = p
    BY StartKeeps
  <1>2. [account |-> shown, page |-> p] \in Request
    BY Typed DEF TypedFacts, Request
  <1>3. Pending(k)'
    BY <1>1, <1>2, TxRecordsAssumption DEF Pending
  <1> QED
    BY <1>1, <1>3

LEMMA PullDownKeeps == ASSUME ListInv, TInv', PullDown PROVE Requests' /\ Gapless' /\ Exact'
  <1>1. /\ TInv /\ Requests /\ Gapless /\ Exact /\ TypedFacts /\ open
        /\ ~Pending("refresh")
    BY Typed DEF ListInv, PullDown, TypedFacts
  <1>2. /\ asked'["refresh"].account = shown
        /\ asked'["load"] = asked["load"]
        /\ turnInPages' = 0
    BY <1>1, Starts DEF PullDown, FirstPage, TypedFacts
  <1>3. /\ UNCHANGED <<shown, open, list, total>>
        /\ ~crossed' => ~Pending("load")
        /\ trust' # "exact"
        /\ trust' # "nothing" => trust # "nothing"
    <2>1. crossed' = ("load" \in spinning) /\ ("load" \in spinning <=> Pending("load"))
      BY <1>1 DEF PullDown, TypedFacts
    <2>2. trust' = IF trust = "exact" THEN "gapless" ELSE trust
      BY DEF PullDown
    <2>3. trust' # "exact" /\ (trust' # "nothing" => trust # "nothing")
      BY <2>2
    <2>4. UNCHANGED <<shown, open, list, total>>
      BY DEF PullDown
    <2> QED
      BY <2>1, <2>3, <2>4
  <1>4. NextPage' <= NextPage
    BY <1>1, <1>2 DEF NextPage, Pending, TypedFacts
  <1>5. Gapless'
    BY <1>1, <1>3, <1>4, SameList DEF TypedFacts
  <1>6. Requests'
    <2>1. Pending("load")' <=> Pending("load")
      BY <1>2 DEF Pending
    <2> QED
      BY <1>1, <1>2, <1>3, <2>1 DEF Requests, TypedFacts
  <1> QED
    BY <1>3, <1>5, <1>6 DEF Exact

LEMMA ReachEndKeeps == ASSUME ListInv, TInv', ReachEnd PROVE Requests' /\ Gapless' /\ Exact'
  <1>1. /\ TInv /\ Requests /\ Gapless /\ Exact /\ TypedFacts /\ open
        /\ ~Pending("load")
    BY Typed DEF ListInv, ReachEnd, TypedFacts
  <1>2. turnInPages + 1 \in Nat
    BY <1>1 DEF TypedFacts
  <1>3. /\ asked'["load"].account = shown
        /\ asked'["load"].page = turnInPages + 1
        /\ Pending("load")'
        /\ asked'["refresh"] = asked["refresh"]
        /\ turnInPages' = turnInPages + 1
    BY <1>1, <1>2, Starts DEF ReachEnd, TypedFacts
  <1>4. /\ UNCHANGED <<shown, open, list, total, trust>>
        /\ ~crossed' => ~Pending("refresh")
    <2>1. crossed' = (crossed \/ "refresh" \in spinning) /\ ("refresh" \in spinning <=> Pending("refresh"))
      BY <1>1 DEF ReachEnd, TypedFacts
    <2>2. UNCHANGED <<shown, open, list, total, trust>>
      BY DEF ReachEnd
    <2> QED
      BY <2>1, <2>2
  <1>5. NextPage' = NextPage
    BY <1>1, <1>3 DEF NextPage
  <1>6. Gapless'
    BY <1>1, <1>4, <1>5, SameList DEF TypedFacts
  <1>7. Pending("refresh")' <=> Pending("refresh")
    BY <1>3 DEF Pending
  <1>8. Requests'
    BY <1>1, <1>2, <1>3, <1>4, <1>7 DEF Requests
  <1>9. Exact'
    <2> SUFFICES ASSUME trust = "exact" PROVE Exact'
      BY <1>4 DEF Exact
    <2>1. turnInPages >= 0 /\ turnInPages \in Int
      BY <1>1 DEF Exact, TypedFacts
    <2>2. turnInPages' > 0
      BY <1>3, <2>1
    <2> QED
      BY <1>1, <1>3, <1>4, <1>5, <1>7, <2>2, <2>1 DEF Exact
  <1> QED
    BY <1>6, <1>8, <1>9
LEMMA OpenKeeps == ASSUME ListInv, TInv', Open PROVE Requests' /\ Gapless' /\ Exact'
  <1>1. TInv /\ TypedFacts /\ trust = "nothing" /\ ~Pending("load") /\ 0 \in Nat
    BY Typed DEF ListInv, Open, Requests
  <1>2. /\ asked'["refresh"].account = shown
        /\ asked'["load"] = asked["load"]
        /\ turnInPages' = 0
    BY <1>1, Starts DEF Open, FirstPage, TypedFacts
  <1>3. open' /\ shown' = shown /\ trust' = "nothing" /\ ~Pending("load")'
    BY <1>1, <1>2 DEF Open, Pending
  <1> QED
    BY <1>2, <1>3 DEF Requests, Gapless, Exact

LEMMA LeaveKeeps == ASSUME ListInv, TInv', Leave PROVE Requests' /\ Gapless' /\ Exact'
  <1>1. trust' = "nothing"
    BY DEF Leave
  <1>2. ~Pending("load")' /\ ~Pending("refresh")'
    BY DEF Leave, Nothing, Pending, Kind
  <1> QED
    BY <1>1, <1>2 DEF Requests, Gapless, Exact

LEMMA AccountKeeps ==
    ASSUME ListInv, TInv', NEW a \in Account, SelectWallet(a) \/ KeystoreImported(a)
    PROVE  Requests' /\ Gapless' /\ Exact'
  <1>1. Requests /\ (~open => trust = "nothing" /\ ~Pending("load") /\ ~Pending("refresh"))
    BY DEF ListInv, Requests
  <1>2. asked' = asked /\ open' = open /\ trust' = "nothing"
    BY <1>1 DEF SelectWallet, KeystoreImported
  <1>3. Pending("refresh") => crossed'
    BY <1>1 DEF SelectWallet, KeystoreImported
  <1> QED
    BY <1>1, <1>2, <1>3 DEF Requests, Gapless, Exact, Pending

LEMMA NewTransferKeeps ==
    ASSUME ListInv, TInv', NEW a \in Account, NewTransfer(a)
    PROVE  Requests' /\ Gapless' /\ Exact'
  <1>1. TInv /\ Requests /\ Gapless /\ TypedFacts
    BY Typed DEF ListInv
  <1>2. UNCHANGED <<shown, open, list, turnInPages, asked, crossed>>
    BY DEF NewTransfer
  <1>3. trust' # "exact" /\ (trust' # "nothing" <=> trust # "nothing")
    <2>1. trust' = IF trust = "exact" THEN "gapless" ELSE trust
      BY DEF NewTransfer
    <2> QED
      BY <2>1
  <1>4. total[shown] <= total'[shown]
    BY <1>1 DEF NewTransfer, TypedFacts
  <1>5. NextPage' = NextPage
    BY <1>2 DEF NextPage, Pending
  <1>6. NextPage' <= NextPage
    BY <1>1, <1>5 DEF TypedFacts
  <1>7. Gapless'
    BY <1>1, <1>2, <1>3, <1>4, <1>6, SameList
  <1> QED
    BY <1>1, <1>2, <1>3, <1>7 DEF Requests, Exact, Pending

LEMMA InitListInv == Init => ListInv
  <1> SUFFICES ASSUME Init PROVE ListInv
    OBVIOUS
  <1>1. trust = "nothing" /\ asked = Nothing
    BY DEF Init
  <1>2. ~Pending("load") /\ ~Pending("refresh")
    BY <1>1 DEF Nothing, Pending, Kind
  <1> QED
    BY <1>1, <1>2, InitTInv DEF ListInv, Requests, Gapless, Exact

LEMMA StepListInv == ListInv /\ [Next]_vars => ListInv'
  <1> SUFFICES ASSUME ListInv, [Next]_vars PROVE ListInv'
    OBVIOUS
  <1>1. TInv'
    BY StepTInv DEF ListInv
  <1>2. CASE Open
    BY <1>1, <1>2, OpenKeeps DEF ListInv
  <1>3. CASE Leave
    BY <1>1, <1>3, LeaveKeeps DEF ListInv
  <1>4. CASE PullDown
    BY <1>1, <1>4, PullDownKeeps DEF ListInv
  <1>5. CASE ReachEnd
    BY <1>1, <1>5, ReachEndKeeps DEF ListInv
  <1>6. ASSUME NEW a \in Account, SelectWallet(a) \/ KeystoreImported(a) PROVE ListInv'
    BY <1>1, <1>6, AccountKeeps DEF ListInv
  <1>7. ASSUME NEW a \in Account, NewTransfer(a) PROVE ListInv'
    BY <1>1, <1>7, NewTransferKeeps DEF ListInv
  <1>8. ASSUME NEW k \in Kind, Answer(k) PROVE ListInv'
    <2>1. Refreshed \/ Loaded
      BY <1>8 DEF Answer
    <2> QED
      BY <1>1, <2>1, RefreshedKeeps, LoadedKeeps DEF ListInv
  <1>9. ASSUME NEW k \in Kind, Failed(k) PROVE ListInv'
    BY <1>1, <1>9, FailedKeeps DEF ListInv
  <1>10. CASE UNCHANGED vars
    BY <1>10, <1>1 DEF vars, ListInv, Requests, Gapless, Exact, NextPage, Has, Pending
  <1> QED
    BY <1>2, <1>3, <1>4, <1>5, <1>6, <1>7, <1>8, <1>9, <1>10 DEF Next

-----------------------------------------------------------------------------
\* What is shown.

LEMMA ListInvSkips == ListInv => NoTransferSkipped
  <1> SUFFICES ASSUME ListInv, trust # "nothing", list # <<>>,
                      NEW i \in DOMAIN list, NEW n \in list[i].number..list[1].number
               PROVE  \E j \in DOMAIN list :
                          list[j] = [account |-> list[1].account, number |-> n]
    BY DEF NoTransferSkipped
  <1>1. Gapless /\ TypedFacts
    BY Typed DEF ListInv
  <1>2. 1 \in DOMAIN list
    BY <1>1 DEF TypedFacts
  <1>3. list[1].account = shown /\ Has(n)
    BY <1>1, <1>2 DEF Gapless
  <1> QED
    BY <1>3 DEF Has

\* Between the top of the list and the oldest transfer in it none is missing, unless a
\* load failed, a refresh and a load overlapped, or the account shown changed
\* (loadTurnInDatas and loadPreTurnInDatas of the view model).
THEOREM NothingSkipped == Spec => []NoTransferSkipped
  BY InitListInv, StepListInv, ListInvSkips, PTL DEF Spec

LEMMA ListInvPages == ListInv => ListIsPages
  <1> SUFFICES ASSUME ListInv, trust = "exact", "load" \notin spinning
               PROVE  /\ list = SubSeq(Transfers(shown), 1,
                                       Smaller((turnInPages + 1) * PageSize, total[shown]))
                      /\ turnInPages > 0 => Page(shown, turnInPages) # <<>>
    BY DEF ListIsPages
  <1> DEFINE t == total[shown]
             e == (turnInPages + 1) * PageSize
             n == Smaller(e, t)
             all == Transfers(shown)
  <1>1. Exact /\ TypedFacts /\ ~Pending("load")
    BY Typed DEF ListInv, TypedFacts
  <1>2. turnInPages \in Nat /\ turnInPages + 1 > 0 /\ t \in Nat /\ shown \in Account
    BY <1>1 DEF Exact, TypedFacts
  <1>3. NextPage = turnInPages + 1
    BY <1>1, <1>2 DEF NextPage
  <1>4. e \in Nat
    BY <1>2, Products
  <1>5. n \in Nat /\ n <= t /\ list \in Seq(Record) /\ Len(list) = n
    BY <1>1, <1>2, <1>3, <1>4 DEF Smaller, Exact, TypedFacts
  <1>6. \A i \in 1..n : list[i] = [account |-> shown, number |-> t + 1 - i]
    BY <1>1, <1>5 DEF Exact
  <1>7. all \in Seq(Record) /\ Len(all) = t
    <2>1. \A i \in 1..t : [account |-> shown, number |-> t + 1 - i] \in Record
      BY <1>2 DEF Record
    <2> QED
      BY <1>2, <2>1 DEF Transfers
  <1>8. \A i \in 1..t : all[i] = [account |-> shown, number |-> t + 1 - i]
    BY DEF Transfers
  <1> HIDE DEF t, e, n, all
  <1>9. /\ SubSeq(all, 1, n) \in Seq(Record)
        /\ Len(SubSeq(all, 1, n)) = n
        /\ \A i \in 1..n : SubSeq(all, 1, n)[i] = all[i]
    BY <1>2, <1>5, <1>7
  <1>10. list = SubSeq(all, 1, n)
    <2>1. \A i \in 1..n : list[i] = SubSeq(all, 1, n)[i]
      BY <1>2, <1>5, <1>6, <1>8, <1>9
    <2> QED
      BY <1>5, <1>9, <2>1
  <1>11. ASSUME turnInPages > 0 PROVE Page(shown, turnInPages) # <<>>
    <2>1. turnInPages * PageSize < t
      <3>1. NextPage > 1 /\ NextPage - 1 = turnInPages
        BY <1>2, <1>3, <1>11
      <3> QED
        BY <1>1, <3>1 DEF Exact, t
    <2>2. turnInPages * PageSize \in Nat /\ turnInPages * PageSize < e
      <3>1. e = turnInPages * PageSize + PageSize /\ PageSize \in Nat /\ PageSize >= 1
        BY <1>2, TxRecordsAssumption DEF e
      <3>2. turnInPages * PageSize \in Nat
        BY <1>2, Products
      <3> QED
        BY <3>1, <3>2
    <2>3. LET m == turnInPages * PageSize
              k == Smaller((turnInPages + 1) * PageSize, total[shown])
          IN  Len(Page(shown, turnInPages)) = IF m < k THEN k - m ELSE 0
      BY <1>1, <1>2, PageOf DEF TypedFacts
    <2>4. turnInPages * PageSize < n
      BY <1>2, <1>4, <2>1, <2>2 DEF n, Smaller
    <2>5. Len(Page(shown, turnInPages)) = n - turnInPages * PageSize
      BY <2>3, <2>4 DEF n, e, t
    <2> QED
      BY <1>5, <2>2, <2>4, <2>5, EmptySeq
  <1> QED
    BY <1>10, <1>11 DEF all, n, e, t

\* While nothing fails, overlaps or grows the list is the account's pages up to the
\* counter, each once, however often the end was reached.
THEOREM PagesListed == Spec => []ListIsPages
  BY InitListInv, StepListInv, ListInvPages, PTL DEF Spec
=============================================================================

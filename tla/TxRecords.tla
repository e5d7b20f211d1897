------------------------------ MODULE TxRecords ------------------------------
(***************************************************************************)
(* The list of an account's transfers (USECoinDetailVC and its view model     *)
(* USETxRecordViewModel), page by page from the explorer.  Pulling down asks  *)
(* for the first page, reaching the end for the next; MJRefresh allows one    *)
(* request of each kind, so a refresh and a load may overlap, and either may   *)
(* fail.  Both work on one counter, moved before the answer is known.         *)
(*                                                                          *)
(* The explorer is external: it numbers an account's transfers by age and     *)
(* hands them out newest first, so a new transfer moves all the others down.  *)
(* Its "count" is taken as the view model takes it: the length of the page.   *)
(***************************************************************************)
EXTENDS Integers, Sequences

CONSTANTS
    Account,    \* accounts
    PageSize,   \* transfers per page (20)
    MaxTotal,   \* transfers of an account (a bound for TLC)
    MaxPage,    \* the highest page asked for (a bound for TLC)
    MaxList,    \* a list this long is not extended (a bound for TLC)
    None        \* nil

Request == [account : Account, page : Nat]

ASSUME TxRecordsAssumption ==
    /\ PageSize \in Nat \ {0}
    /\ MaxTotal \in [Account -> Nat]
    /\ MaxPage \in Nat
    /\ MaxList \in Nat
    /\ None \notin Account \cup Request

Kind == {"refresh", "load"}

VARIABLES
    shown,          \* the account shown (USECurrentAccountInfo)
    open,           \* the page is open
    list,           \* useTxRecordPullRequestList
    turnInPages,    \* the page asked for last
    spinning,       \* the header or the footer is refreshing (MJRefresh)
    asked,          \* the request of a header or footer: its account and page
    total,          \* the explorer's transfers of an account
    trust,          \* history: what the list is good for, see Trust
    crossed         \* history: the last refresh met a load or another account

vars == <<shown, open, list, turnInPages, spinning, asked, total, trust, crossed>>

\* What may be said of the list: nothing; that no transfer is missing in between;
\* that it is the explorer's pages up to the counter.
Trust == {"nothing", "gapless", "exact"}

Record == [account : Account, number : Nat]

Smaller(i, j) == IF i < j THEN i ELSE j

\* The transfers at the explorer, newest first, and one page of them.
Transfers(a) == [i \in 1..total[a] |-> [account |-> a, number |-> total[a] + 1 - i]]

Page(a, p) == SubSeq(Transfers(a), p * PageSize + 1, Smaller((p + 1) * PageSize, total[a]))

Nothing == [k \in Kind |-> None]

Init ==
    /\ shown \in Account
    /\ open = FALSE
    /\ list = <<>>
    /\ turnInPages = 0
    /\ spinning = {}
    /\ asked = Nothing
    /\ total \in {t \in [Account -> UNION {0..MaxTotal[a] : a \in Account}] :
                     \A a \in Account : t[a] <= MaxTotal[a]}
    /\ trust = "nothing"
    /\ crossed = FALSE

-----------------------------------------------------------------------------
\* The page.

Start(k, p) ==
    /\ spinning' = spinning \cup {k}
    /\ turnInPages' = p
    /\ asked' = [asked EXCEPT ![k] = [account |-> shown, page |-> p]]

\* Mutant: a refresh goes on counting where the last load was.
CountOn == turnInPages

FirstPage == 0

\* The page opens with a refresh.
Open ==
    /\ ~open
    /\ open' = TRUE
    /\ Start("refresh", FirstPage)
    /\ crossed' = FALSE
    /\ UNCHANGED <<shown, list, total, trust>>

\* The back button; what is still answered reaches a page nobody sees.
Leave ==
    /\ open
    /\ open' = FALSE
    /\ list' = <<>>
    /\ turnInPages' = 0
    /\ spinning' = {}
    /\ asked' = Nothing
    /\ trust' = "nothing"
    /\ crossed' = FALSE
    /\ UNCHANGED <<shown, total>>

\* The user selects a wallet in the list, see WalletRegistry.
SelectWallet(a) ==
    /\ ~open
    /\ shown' = a
    /\ UNCHANGED <<open, list, turnInPages, spinning, asked, total, trust, crossed>>

\* A keystore import that was left behind ends: the list is another account's.
KeystoreImported(a) ==
    /\ a # shown
    /\ shown' = a
    /\ trust' = "nothing"
    /\ crossed' = TRUE
    /\ UNCHANGED <<open, list, turnInPages, spinning, asked, total>>

\* loadTurnInDatas.  From here to its answer the counter is not the list's.
PullDown ==
    /\ open
    /\ "refresh" \notin spinning
    /\ Start("refresh", FirstPage)
    /\ trust' = IF trust = "exact" THEN "gapless" ELSE trust
    /\ crossed' = ("load" \in spinning)
    /\ UNCHANGED <<shown, open, list, total>>

\* loadPreTurnInDatas.
ReachEnd ==
    /\ open
    /\ "load" \notin spinning
    /\ turnInPages < MaxPage
    /\ Len(list) < MaxList
    /\ Start("load", turnInPages + 1)
    /\ crossed' = (crossed \/ "refresh" \in spinning)
    /\ UNCHANGED <<shown, open, list, total, trust>>

-----------------------------------------------------------------------------
\* The answers.

\* Mutant: the header goes on turning when there is no list to show.
EndsWithList(k, answered) ==
    /\ spinning' = IF answered THEN spinning \ {k} ELSE spinning
    /\ asked' = [asked EXCEPT ![k] = None]

\* finished(...): the page takes the list over and the header or footer ends.
Finished(k, answered) ==
    /\ spinning' = spinning \ {k}
    /\ asked' = [asked EXCEPT ![k] = None]

RefreshedList(page) == page

Refreshed ==
    /\ asked["refresh"] # None
    /\ list' = RefreshedList(Page(asked["refresh"].account, 0))
    /\ trust' = IF crossed THEN "nothing" ELSE "exact"
    /\ Finished("refresh", TRUE)
    /\ UNCHANGED <<shown, open, turnInPages, total, crossed>>

\* Mutant: an empty page counts.
KeepCounter == turnInPages

\* Mutant: an empty page takes back the one before, too.
TakeTwoBack == turnInPages - 2

\* turnInPages -= 1, whatever the counter is by now.
TakeBack == turnInPages - 1

Loaded ==
    LET request == asked["load"] IN
    /\ request # None
    /\ \/ /\ Page(request.account, request.page) = <<>>
          /\ turnInPages' = TakeBack
          /\ UNCHANGED list
       \/ /\ Page(request.account, request.page) # <<>>
          /\ list' = list \o Page(request.account, request.page)
          /\ UNCHANGED turnInPages
    /\ Finished("load", TRUE)
    /\ UNCHANGED <<shown, open, total, trust, crossed>>

\* No result, or one with an error: list and counter stay as they are.  A refresh
\* leaves the old pages and starts counting again, a load leaves a page out.
Failed(k) ==
    /\ asked[k] # None
    /\ trust' = IF k = "load" THEN "nothing" ELSE trust
    /\ Finished(k, FALSE)
    /\ UNCHANGED <<shown, open, list, turnInPages, total, crossed>>

-----------------------------------------------------------------------------
\* The explorer.

\* A transfer of the account is mined; the ones before move down by one.
NewTransfer(a) ==
    /\ total[a] < MaxTotal[a]
    /\ total' = [total EXCEPT ![a] = @ + 1]
    /\ trust' = IF trust = "exact" THEN "gapless" ELSE trust
    /\ UNCHANGED <<shown, open, list, turnInPages, spinning, asked, crossed>>

Answer(k) == IF k = "refresh" THEN Refreshed ELSE Loaded

Next ==
    \/ Open \/ Leave \/ PullDown \/ ReachEnd
    \/ \E a \in Account : SelectWallet(a) \/ KeystoreImported(a) \/ NewTransfer(a)
    \/ \E k \in Kind : Answer(k) \/ Failed(k)

Spec == Init /\ [][Next]_vars

\* A request ends: it is answered, fails, or runs into its timeout.
FairSpec == Spec /\ \A k \in Kind : WF_vars(Answer(k) \/ Failed(k))

-----------------------------------------------------------------------------
\* The counter may fall one below the first page (a refresh overlapped by a load
\* that finds nothing) and then has to be moved back up by the next load.
TypeOK ==
    /\ shown \in Account
    /\ open \in BOOLEAN
    /\ list \in Seq(Record)
    /\ turnInPages \in Int /\ turnInPages >= -1
    /\ spinning \subseteq Kind
    /\ asked \in [Kind -> Request \cup {None}]
    /\ total \in [Account -> Nat]
    /\ trust \in Trust
    /\ crossed \in BOOLEAN
    /\ \A k \in Kind : asked[k] # None <=> k \in spinning

\* Between the transfer on top of the list and the oldest one in it none is missing,
\* however the account grows and however often a refresh fails, unless a load
\* failed, a refresh overlapped a load, or the account shown changed; the next
\* refresh makes up for it.
NoTransferSkipped ==
    trust # "nothing" /\ list # <<>> =>
        \A i \in DOMAIN list : \A n \in list[i].number..list[1].number :
            \E j \in DOMAIN list : list[j] = [account |-> list[1].account, number |-> n]

\* While nothing fails, overlaps or grows, the list is the account's pages up to the
\* counter, each once, and the counter is that of a page with something on it: the
\* next load asks for the page that follows, however often the end was reached.
ListIsPages ==
    trust = "exact" /\ "load" \notin spinning =>
        /\ list = SubSeq(Transfers(shown), 1, Smaller((turnInPages + 1) * PageSize, total[shown]))
        /\ turnInPages > 0 => Page(shown, turnInPages) # <<>>

\* A refresh or a load always ends, so that there can be another.
SpinnersEnd == \A k \in Kind : k \in spinning ~> k \notin spinning
=============================================================================

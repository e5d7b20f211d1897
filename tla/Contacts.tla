------------------------------- MODULE Contacts -------------------------------
(***************************************************************************)
(* The details of a transaction (USETransferCompletedVC), the rating opened   *)
(* from them (USEEvaluateTransactionVC) and the address book                  *)
(* (USEMineAddressBookVC, USEMineNewContactorVC): pages of one navigation     *)
(* controller that hand values to each other through UserDefaults.            *)
(*                                                                          *)
(* A details page asks the node for its transaction when it is loaded.  The   *)
(* answer may come when the page is covered or gone: it stores the details    *)
(* that the next rating is about and resets the row that the next save of a   *)
(* contact replaces, whatever page is open by then.                           *)
(*                                                                          *)
(* An entry of the book is its address; names and descriptions are left out.  *)
(* What is asked for a rating and how it is sent is in Sending.               *)
(***************************************************************************)
EXTENDS Integers, Sequences, FiniteSets, SequencesExt

CONSTANTS
    Address,    \* addresses
    Tx,         \* transactions
    Rating,     \* the transactions that a rating is sent as
    Party,      \* storeAddress of a transaction: the address it proposes
    Request,    \* requests for details in flight or shown (a bound for TLC)
    MaxBook,    \* entries of the book (a bound for TLC)
    MaxDepth,   \* pages on top of each other (a bound for TLC)
    Add,        \* 10000: no row is to be replaced
    None        \* nil, or ""

ASSUME ContactsAssumption ==
    /\ Party \in [Tx -> Address]
    /\ Rating \subseteq Tx
    /\ MaxBook \in Nat /\ MaxDepth \in Nat
    /\ Add \notin 1..MaxBook
    /\ None \notin Address \cup Tx \cup Request \cup {Add}

VARIABLES
    book,       \* totalAddressBookInfo
    index,      \* wannaChangeIndex
    carried,    \* toAddressFromTransaction
    detail,     \* kCurrentTXDetail
    asked,      \* what a request asked for
    pages,      \* the pages pushed on the records list or on a tab
    storedBy    \* history: the request whose answer stored detail

stored == <<book, index, carried, detail>>
vars   == <<stored, asked, pages, storedBy>>

DetailsPage(t, q) ==
    [kind |-> "details", tx |-> t, request |-> q, showing |-> FALSE, prompt |-> None]

\* target is the transaction of the alert that asks for the passcode.
RatingPage(t) == [kind |-> "rating", tx |-> t, target |-> None, sending |-> FALSE]

BookPage(list) == [kind |-> "book", list |-> list]

\* own and reset are history: the entry that was tapped, and whether index was reset
\* since.
EditorPage(own) ==
    [kind |-> "editor", laidOut |-> FALSE, proposed |-> None, own |-> own, reset |-> FALSE]

Top == Last(pages)
OnTop(kind) == pages # <<>> /\ Top.kind = kind
Covering(page) == Append(Front(pages), page)

Known(a) == a \in ToSet(book)

Init ==
    /\ book = <<>>
    /\ index = None
    /\ carried = None
    /\ detail = None
    /\ asked = [q \in Request |-> None]
    /\ pages = <<>>
    /\ storedBy = None

-----------------------------------------------------------------------------
\* The details of a transaction.

\* loadView: the request goes out.
PushDetails(below, t, q) ==
    /\ Len(below) < MaxDepth
    /\ asked[q] = None
    /\ \A i \in DOMAIN pages : pages[i].kind = "details" => pages[i].request # q
    /\ asked' = [asked EXCEPT ![q] = t]
    /\ pages' = Append(below, DetailsPage(t, q))
    /\ UNCHANGED <<stored, storedBy>>

\* A row of the records list, or the end of a send.
OpenDetails(t, q) ==
    /\ pages = <<>>
    /\ PushDetails(pages, t, q)

\* Only an address that is not in the book is proposed.
Proposes(a) == ~Known(a)

\* The page of the request shows the transaction, and the alert when nothing covers
\* it; an editor on top has its index reset.
PagesShow(q, t) ==
    [i \in DOMAIN pages |->
        IF pages[i].kind = "details" /\ pages[i].request = q
        THEN [pages[i] EXCEPT
                !.showing = TRUE,
                !.prompt = IF Proposes(Party[t]) /\ i = Len(pages) THEN Party[t] ELSE None]
        ELSE IF pages[i].kind = "editor" /\ Proposes(Party[t])
        THEN [pages[i] EXCEPT !.reset = @ \/ index # Add]
        ELSE pages[i]]

\* Mutant: the details are stored with the question whether to add the address.
StoreWithProposal(t) == detail' = IF Proposes(Party[t]) THEN t ELSE detail

Store(t) == detail' = t

DetailsArrive(q) ==
    LET t == asked[q] IN
    /\ t # None
    /\ Store(t)
    /\ storedBy' = q
    /\ index' = IF Proposes(Party[t]) THEN Add ELSE index
    /\ pages' = PagesShow(q, t)
    /\ asked' = [asked EXCEPT ![q] = None]
    /\ UNCHANGED <<book, carried>>

\* No answer, an error, no result, or a contract creation: nothing is stored.
NoDetails(q) ==
    /\ asked[q] # None
    /\ asked' = [asked EXCEPT ![q] = None]
    /\ UNCHANGED <<stored, pages, storedBy>>

\* The alert is confirmed: the address is handed to a new editor.
AddProposed ==
    /\ OnTop("details")
    /\ Top.prompt # None
    /\ Len(pages) < MaxDepth
    /\ carried' = Top.prompt
    /\ pages' = Append(Covering([Top EXCEPT !.prompt = None]), EditorPage(None))
    /\ UNCHANGED <<book, index, detail, asked, storedBy>>

CancelProposed ==
    /\ OnTop("details")
    /\ Top.prompt # None
    /\ pages' = Covering([Top EXCEPT !.prompt = None])
    /\ UNCHANGED <<stored, asked, storedBy>>

-----------------------------------------------------------------------------
\* The rating of a transaction.

OpenRating ==
    /\ OnTop("details")
    /\ Top.prompt = None
    /\ Len(pages) < MaxDepth
    /\ pages' = Append(pages, RatingPage(Top.tx))
    /\ UNCHANGED <<stored, asked, storedBy>>

\* What is rated is read when the button is tapped.  Without stored details the app
\* crashes: Restart.
TapRating ==
    /\ OnTop("rating")
    /\ Top.target = None
    /\ detail # None
    /\ pages' = Covering([Top EXCEPT !.target = detail])
    /\ UNCHANGED <<stored, asked, storedBy>>

\* The passcode was right.
SendRating ==
    /\ OnTop("rating")
    /\ Top.target # None
    /\ ~Top.sending
    /\ pages' = Covering([Top EXCEPT !.sending = TRUE])
    /\ UNCHANGED <<stored, asked, storedBy>>

\* The alert is cancelled, the passcode wrong, or the send failed.
NoRating ==
    /\ OnTop("rating")
    /\ Top.target # None
    /\ pages' = Covering([Top EXCEPT !.target = None, !.sending = FALSE])
    /\ UNCHANGED <<stored, asked, storedBy>>

\* The rating was sent: its own details are shown.
RatingSent(t, q) ==
    /\ OnTop("rating")
    /\ Top.sending
    /\ t \in Rating
    /\ PushDetails(Covering([Top EXCEPT !.target = None, !.sending = FALSE]), t, q)

-----------------------------------------------------------------------------
\* The address book.

\* Mutant: the list is read once, when the page is loaded.
ShownOnce(below) == below

\* viewWillAppear of the book: its list is read again.
Shown(below) ==
    IF below # <<>> /\ Last(below).kind = "book"
    THEN Append(Front(below), BookPage(book'))
    ELSE below

\* Mutant: the row is only set when none was ever named.
IndexSetOnce(below) == IF index = None THEN Add ELSE index

\* viewWillAppear of the book: no row is to be replaced.
IndexShown(below) ==
    IF below # <<>> /\ Last(below).kind = "book" THEN Add ELSE index

OpenBook ==
    /\ pages = <<>>
    /\ UNCHANGED <<book, carried, detail, asked, storedBy>>
    /\ pages' = <<BookPage(book)>>
    /\ index' = IndexShown(pages')

\* The button to add a contact.
NewContact ==
    /\ OnTop("book")
    /\ pages' = Append(pages, EditorPage(None))
    /\ UNCHANGED <<stored, asked, storedBy>>

EditContact(i) ==
    /\ OnTop("book")
    /\ i \in DOMAIN Top.list
    /\ index' = i
    /\ pages' = Append(pages, EditorPage(Top.list[i]))
    /\ UNCHANGED <<book, carried, detail, asked, storedBy>>

\* The page stores its own list.
DeleteContact(i) ==
    /\ OnTop("book")
    /\ i \in DOMAIN Top.list
    /\ book' = RemoveAt(Top.list, i)
    /\ pages' = Covering(BookPage(book'))
    /\ UNCHANGED <<index, carried, detail, asked, storedBy>>

\* The cell of the address is laid out: it shows the address handed over, and the
\* address is no longer handed over.
LayOut ==
    /\ OnTop("editor")
    /\ ~Top.laidOut
    /\ pages' = Covering([Top EXCEPT !.laidOut = TRUE, !.proposed = carried])
    /\ carried' = None
    /\ UNCHANGED <<book, index, detail, asked, storedBy>>

Refused(a) == Known(a)

\* The address is stored, in a new row or in the one index names.  A kill before index is
\* reset leaves a row in it, as one with the editor open does.
Save(a) ==
    /\ OnTop("editor")
    /\ Top.laidOut
    /\ ~Refused(a)
    /\ \/ /\ index = Add
          /\ Len(book) < MaxBook
          /\ book' = Append(book, a)
       \/ /\ index # Add
          /\ book' = ReplaceAt(book, index, a)
    /\ index' = Add
    /\ pages' = Shown(Front(pages))
    /\ UNCHANGED <<carried, detail, asked, storedBy>>

-----------------------------------------------------------------------------
\* Pages.

\* No alert covers the navigation bar.
NoAlert ==
    CASE Top.kind = "details" -> Top.prompt = None
      [] Top.kind = "rating"  -> Top.target = None \/ Top.sending
      [] OTHER                -> TRUE

Back ==
    /\ pages # <<>>
    /\ NoAlert
    /\ UNCHANGED <<book, carried, detail, asked, storedBy>>
    /\ pages' = Shown(Front(pages))
    /\ index' = IndexShown(Front(pages))

\* A swipe back from the editor to the book that is not finished: the book was about
\* to appear.
SwipeCancelled ==
    /\ OnTop("editor")
    /\ Len(pages) > 1
    /\ pages[Len(pages) - 1].kind = "book"
    /\ UNCHANGED <<book, carried, detail, asked, storedBy>>
    /\ index' = IndexShown(Front(pages))
    /\ pages' = Append(Shown(Front(pages)), [Top EXCEPT !.reset = @ \/ index' # index])

\* The app is killed, or crashes, and is started again.
Restart ==
    /\ pages' = <<>>
    /\ asked' = [q \in Request |-> None]
    /\ storedBy' = None
    /\ UNCHANGED stored

Next ==
    \/ \E q \in Request :
          \/ DetailsArrive(q) \/ NoDetails(q)
          \/ \E t \in Tx : OpenDetails(t, q) \/ RatingSent(t, q)
    \/ AddProposed \/ CancelProposed
    \/ OpenRating \/ TapRating \/ SendRating \/ NoRating
    \/ OpenBook \/ NewContact \/ LayOut
    \/ \E i \in 1..MaxBook : EditContact(i) \/ DeleteContact(i)
    \/ \E a \in Address : Save(a)
    \/ Back \/ SwipeCancelled \/ Restart

Spec == Init /\ [][Next]_vars

-----------------------------------------------------------------------------
\* An editor can show what it is opened for, from the book or for a transaction, also
\* after the app was killed with another editor open: it unwraps the index and the entry
\* there; and what it proposes can be saved, although the address may have been handed
\* over in an earlier session and for another editor.
EditorFits ==
    OnTop("editor") =>
        /\ index \in DOMAIN book \cup {Add}
        /\ Top.proposed # None => ~Known(Top.proposed)

Gone == ToSet(book) \ ToSet(book')

\* The book stays a list of different addresses, and an entry leaves it only alone and
\* by the user: deleted, or replaced in the editor that was opened for it.  A new contact
\* never takes the place of another, a deletion does not undo what an editor saved, and
\* the editor of an entry does replace it, unless an answer for a transaction or a swipe
\* that was not finished reset the row under it.
BookKept ==
    [][/\ IsInjective(book')
       /\ \/ Gone = {}
          \/ OnTop("book") /\ Cardinality(Gone) = 1
          \/ OnTop("editor") /\ Gone = {Top.own}
       /\ OnTop("editor") /\ book' # book /\ Top.own # None /\ ~Top.reset =>
              Gone = {Top.own} /\ Len(book') = Len(book)]_vars

\* What is rated is the transaction of the details page below, once that shows it and
\* no other page's answer came later.
RatesShown ==
    [][\A i \in 2..Len(pages) :
          /\ pages[i].kind = "rating"
          /\ pages[i].target = None
          /\ i \in DOMAIN pages'
          /\ pages'[i].target # None
          /\ pages[i - 1].showing
          /\ storedBy = pages[i - 1].request
          => pages'[i].target = pages[i - 1].tx]_vars
=============================================================================

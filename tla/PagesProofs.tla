---------------------------- MODULE PagesProofs ----------------------------
(***************************************************************************)
(* Proofs about two modules of pages, which share no variable: Contacts, for  *)
(* any book, transactions and depth of pages, and MnemonicConfirm, for any    *)
(* phrase of any length.  No proof about one cites anything of the other.     *)
(***************************************************************************)
EXTENDS Contacts, MnemonicConfirm, FiniteSetTheorems, FunctionTheorems, TLAPS

(***************************************************************************)
(* Contacts.  The inductive invariant: what the variables hold, which page   *)
(* may lie on which, and how a page agrees with what is stored.              *)
(***************************************************************************)

\* Pages, and what the variables hold.
Details == [kind : {"details"}, tx : Tx, request : Request, showing : BOOLEAN,
            prompt : Address \cup {None}]

RatingOf == [kind : {"rating"}, tx : Tx, target : Tx \cup {None}, sending : BOOLEAN]

BookOf == [kind : {"book"}, list : Seq(Address)]

Editor == [kind : {"editor"}, laidOut : BOOLEAN, proposed : Address \cup {None},
           own : Address \cup {None}, reset : BOOLEAN]

Page == Details \cup RatingOf \cup BookOf \cup Editor

Typed ==
    /\ book \in Seq(Address)
    /\ index \in 1..MaxBook \cup {Add, None}
    /\ carried \in Address \cup {None}
    /\ detail \in Tx \cup {None}
    /\ asked \in [Request -> Tx \cup {None}]
    /\ pages \in Seq(Page)
    /\ storedBy \in Request \cup {None}

\* The book has different addresses, and what is handed over is not one of them.
BookFits ==
    /\ Len(book) <= MaxBook
    /\ \A i, j \in 1..Len(book) : book[i] = book[j] => i = j
    /\ carried # None => ~Known(carried)

\* A book is the first page, a rating is on the details it is about, details are on
\* nothing or on a rating, and an editor is on top.
Order ==
    \A i \in 1..Len(pages) :
        /\ pages[i].kind = "book" => i = 1
        /\ pages[i].kind = "rating" => i > 1 /\ pages[i - 1].kind = "details"
        /\ pages[i].kind = "details" /\ i > 1 => pages[i - 1].kind = "rating"
        /\ pages[i].kind = "editor" => i = Len(pages)

\* The list of a book is the book; a request for details asks for its page's
\* transaction, and what its answer stored is that.
Agrees(p) ==
    /\ p.kind = "book" => p.list = book
    /\ p.kind = "details" =>
           /\ p.showing /\ storedBy = p.request => detail = p.tx
           /\ asked[p.request] # None => asked[p.request] = p.tx

PagesAgree == \A i \in 1..Len(pages) : Agrees(pages[i])

\* Only the page on top asks whether to add an address.
Prompts ==
    \A i \in 1..Len(pages) :
        pages[i].kind = "details" /\ pages[i].prompt # None =>
            i = Len(pages) /\ index = Add /\ ~Known(pages[i].prompt)

\* The row that is named is the one of the entry the editor was opened for.
RowOf(p) == index \in 1..Len(book) /\ book[index] = p.own

EditorOf(p) ==
    /\ index = Add \/ RowOf(p)
    /\ p.own # None /\ ~p.reset => RowOf(p)
    /\ p.proposed # None => ~Known(p.proposed)
    /\ p.laidOut => carried = None

Rows ==
    \A i \in 1..Len(pages) :
        /\ pages[i].kind = "editor" => EditorOf(pages[i])
        /\ pages[i].kind = "book" /\ i = Len(pages) => index = Add

Inv == BookFits /\ Order /\ PagesAgree /\ Prompts /\ Rows

IInv == Typed /\ Inv

-----------------------------------------------------------------------------
\* The stack of pages.

\* Front drops the last element.
LEMMA FrontIs ==
    ASSUME NEW S, NEW s \in Seq(S), s # <<>>
    PROVE  /\ Front(s) \in Seq(S)
           /\ Len(Front(s)) = Len(s) - 1
           /\ \A i \in 1..(Len(s) - 1) : Front(s)[i] = s[i]
  <1>1. Len(s) \in Nat /\ Len(s) # 0
    OBVIOUS
  <1> DEFINE m == Len(s) - 1
  <1>2. m \in Nat /\ m <= Len(s)
    BY <1>1
  <1> HIDE DEF m
  <1>3. SubSeq(s, 1, m) \in Seq(S) /\ Len(SubSeq(s, 1, m)) = m /\ \A i \in 1..m : SubSeq(s, 1, m)[i] = s[i]
    BY <1>2
  <1> QED
    BY <1>3 DEF Front, m

\* The page on top.
LEMMA TopIs ==
    ASSUME Typed, pages # <<>>
    PROVE  /\ Top = pages[Len(pages)]
           /\ Top \in Page
           /\ Len(pages) \in Nat \ {0}
  <1>1. pages \in Seq(Page)
    BY DEF Typed
  <1>2. Len(pages) \in Nat \ {0}
    BY <1>1
  <1> QED
    BY <1>1, <1>2 DEF Top, Last

\* Covering changes the page on top.
LEMMA CoveringIs ==
    ASSUME Typed, pages # <<>>, NEW p \in Page
    PROVE  /\ Covering(p) \in Seq(Page)
           /\ Len(Covering(p)) = Len(pages)
           /\ Covering(p)[Len(pages)] = p
           /\ \A i \in 1..(Len(pages) - 1) : Covering(p)[i] = pages[i]
  <1>1. pages \in Seq(Page) /\ Len(pages) \in Nat \ {0}
    BY TopIs DEF Typed
  <1> DEFINE f == Front(pages)
  <1>2. f \in Seq(Page) /\ Len(f) = Len(pages) - 1 /\ \A i \in 1..(Len(pages) - 1) : f[i] = pages[i]
    BY <1>1, FrontIs
  <1> HIDE DEF f
  <1>3. /\ Append(f, p) \in Seq(Page) /\ Len(Append(f, p)) = Len(pages)
        /\ Append(f, p)[Len(pages)] = p
        /\ \A i \in 1..(Len(pages) - 1) : Append(f, p)[i] = f[i]
    BY <1>1, <1>2
  <1> QED
    BY <1>2, <1>3 DEF Covering, f

\* Append, for any set.
LEMMA AppendIs ==
    ASSUME NEW S, NEW s \in Seq(S), NEW e \in S
    PROVE  /\ Append(s, e) \in Seq(S)
           /\ Len(s) \in Nat
           /\ Len(Append(s, e)) = Len(s) + 1
           /\ Append(s, e)[Len(s) + 1] = e
           /\ \A i \in 1..Len(s) : Append(s, e)[i] = s[i]
  OBVIOUS

\* Which page a page is shows in its kind.
LEMMA PageKinds ==
    ASSUME NEW p \in Page
    PROVE  /\ p.kind \in {"details", "rating", "book", "editor"}
           /\ p.kind = "details" => p \in Details
           /\ p.kind = "rating" => p \in RatingOf
           /\ p.kind = "book" => p \in BookOf
           /\ p.kind = "editor" => p \in Editor
  BY DEF Page, Details, RatingOf, BookOf, Editor

\* Known looks at every row.
LEMMA KnownIs == Typed => \A a : Known(a) <=> \E i \in 1..Len(book) : book[i] = a
  BY DEF Typed, Known, ToSet

\* Nothing is open or stored at first.
LEMMA InitIInv == Init => IInv
  <1> SUFFICES ASSUME Init PROVE IInv
    OBVIOUS
  <1>1. <<>> \in Seq(Address) /\ <<>> \in Seq(Page) /\ Len(<<>>) = 0
    OBVIOUS
  <1>2. Typed
    BY <1>1, ContactsAssumption DEF Init, Typed
  <1>3. BookFits
    BY <1>1, ContactsAssumption DEF Init, BookFits
  <1>4. Order /\ PagesAgree /\ Prompts /\ Rows
    BY <1>1 DEF Init, Order, PagesAgree, Prompts, Rows
  <1> QED
    BY <1>2, <1>3, <1>4 DEF IInv, Inv

\* A page on top is changed, and nothing else.
LEMMA CoverKeeps ==
    ASSUME IInv, pages # <<>>, NEW p \in Page, pages' = Covering(p),
           UNCHANGED <<stored, asked, storedBy>>,
           p.kind = Top.kind, p.kind \in {"details", "rating"},
           p.kind = "details" =>
               /\ p.tx = Top.tx /\ p.request = Top.request /\ p.showing = Top.showing
               /\ p.prompt = None
    PROVE  IInv'
  <1> DEFINE n == Len(pages)
  <1>1. /\ Typed /\ Inv /\ n \in Nat \ {0} /\ Top = pages[n]
        /\ book' = book /\ index' = index /\ carried' = carried /\ detail' = detail
        /\ asked' = asked /\ storedBy' = storedBy
    BY TopIs DEF IInv, stored
  <1>2. /\ pages' \in Seq(Page) /\ Len(pages') = n /\ pages'[n] = p
        /\ \A i \in 1..(n - 1) : pages'[i] = pages[i]
    BY <1>1, CoveringIs
  <1> HIDE DEF n
  <1>3. \A i \in 1..n : (i # n => i \in 1..(n - 1)) /\ (i > 1 => i - 1 \in 1..(n - 1)) /\ n \in 1..n
    BY <1>1
  <1>4. Typed'
    BY <1>1, <1>2 DEF Typed
  <1>5. BookFits'
    BY <1>1 DEF Inv, BookFits, Known
  <1>6. \A i \in 1..n : pages'[i].kind = pages[i].kind
    BY <1>1, <1>2, <1>3
  <1>7. Order'
    BY <1>1, <1>2, <1>3, <1>6 DEF Inv, Order, n
  <1>8. PagesAgree'
    <2>1. ASSUME NEW i \in 1..n PROVE Agrees(pages[i])
      BY <1>1 DEF Inv, PagesAgree, n
    <2>2. ASSUME NEW i \in 1..n PROVE Agrees(pages[i])'
      <3>1. CASE i = n
        BY <1>1, <1>2, <2>1, <3>1 DEF Agrees
      <3>2. CASE i # n
        BY <1>1, <1>2, <1>3, <2>1, <3>2 DEF Agrees
      <3> QED
        BY <3>1, <3>2
    <2> QED
      BY <1>2, <2>2 DEF PagesAgree
  <1>9. Prompts'
    BY <1>1, <1>2, <1>3 DEF Inv, Prompts, Known, n
  <1>10. Rows'
    BY <1>1, <1>2, <1>3 DEF Inv, Rows, Order, EditorOf, RowOf, Known, n
  <1> QED
    BY <1>4, <1>5, <1>7, <1>8, <1>9, <1>10 DEF IInv, Inv

\* A page is pushed on pages that lose their alert.
LEMMA PushKeeps ==
    ASSUME IInv, Typed', BookFits',
           NEW below \in Seq(Page), NEW p \in Page, pages' = Append(below, p),
           UNCHANGED <<book, detail, storedBy>>,
           Len(below) = Len(pages),
           \A i \in 1..Len(pages) :
               /\ below[i].kind = pages[i].kind
               /\ below[i].kind # "editor"
               /\ below[i].kind = "book" => below[i].list = pages[i].list
               /\ below[i].kind = "details" =>
                      /\ below[i].tx = pages[i].tx /\ below[i].request = pages[i].request
                      /\ below[i].showing = pages[i].showing
                      /\ below[i].prompt = None
                      /\ asked'[pages[i].request] = asked[pages[i].request],
           p.kind \in {"details", "rating", "editor"},
           p.kind = "rating" => Len(below) > 0 /\ below[Len(below)].kind = "details",
           p.kind = "details" =>
               /\ Len(below) > 0 => below[Len(below)].kind = "rating"
               /\ ~p.showing /\ p.prompt = None /\ asked'[p.request] = p.tx,
           p.kind = "editor" => EditorOf(p)'
    PROVE  IInv'
  <1> DEFINE n == Len(pages)
  <1>1. n \in Nat
    BY DEF IInv, Typed
  <1>2. /\ pages' \in Seq(Page) /\ Len(pages') = n + 1 /\ pages'[n + 1] = p
        /\ \A i \in 1..n : pages'[i] = below[i]
    BY AppendIs
  <1> HIDE DEF n
  <1>3. \A i \in 1..(n + 1) : (i # n + 1 => i \in 1..n) /\ (i > 1 => i - 1 \in 1..n)
    BY <1>1
  <1>4. n + 1 # 1 => n \in 1..n /\ n > 0
    BY <1>1
  <1>5. Order'
    <2>1. ASSUME NEW i \in 1..(n + 1)
          PROVE  /\ pages'[i].kind = "book" => i = 1
                 /\ pages'[i].kind = "rating" => i > 1 /\ pages'[i - 1].kind = "details"
                 /\ pages'[i].kind = "details" /\ i > 1 => pages'[i - 1].kind = "rating"
                 /\ pages'[i].kind = "editor" => i = n + 1
      <3>1. CASE i = n + 1
        BY <1>1, <1>2, <1>4, <3>1 DEF n
      <3>2. CASE i # n + 1
        BY <1>2, <1>3, <3>2 DEF IInv, Inv, Order, n
      <3> QED
        BY <3>1, <3>2
    <2> QED
      BY <1>2, <2>1 DEF Order
  <1>6. PagesAgree'
    <2>1. ASSUME NEW i \in 1..n PROVE Agrees(pages[i])
      BY DEF IInv, Inv, PagesAgree, n
    <2>2. ASSUME NEW i \in 1..(n + 1) PROVE Agrees(pages[i])'
      <3>1. CASE i = n + 1
        BY <1>2, <3>1 DEF Agrees
      <3>2. CASE i # n + 1
        <4>1. i \in 1..n
          BY <1>3, <3>2
        <4> QED
          BY <1>2, <2>1, <4>1 DEF Agrees, n
      <3> QED
        BY <3>1, <3>2
    <2> QED
      BY <1>2, <2>2 DEF PagesAgree
  <1>7. Prompts'
    BY <1>1, <1>2, <1>3 DEF Prompts, n
  <1>8. Rows'
    <2>1. ASSUME NEW i \in 1..(n + 1)
          PROVE  /\ pages'[i].kind = "editor" => EditorOf(pages[i])'
                 /\ pages'[i].kind = "book" => i # n + 1
      <3>1. CASE i = n + 1
        BY <1>2, <3>1 DEF EditorOf, RowOf, Known
      <3>2. CASE i # n + 1
        BY <1>2, <1>3, <3>2 DEF n
      <3> QED
        BY <3>1, <3>2
    <2> QED
      BY <1>2, <2>1 DEF Rows
  <1> QED
    BY <1>5, <1>6, <1>7, <1>8 DEF IInv, Inv

\* New details, on nothing or on a rating that was sent.
LEMMA PushDetailsKeeps ==
    ASSUME IInv, NEW t \in Tx, NEW q \in Request, NEW below \in Seq(Page), PushDetails(below, t, q),
           Len(below) = Len(pages),
           \A i \in 1..Len(pages) :
               /\ below[i].kind = pages[i].kind
               /\ below[i].kind # "editor"
               /\ below[i].kind \in {"details", "book"} => below[i] = pages[i]
               /\ below[i].kind = "details" => pages[i].prompt = None,
           Len(below) > 0 => below[Len(below)].kind = "rating"
    PROVE  IInv'
  <1> DEFINE p == DetailsPage(t, q)
  <1>1. p \in Page /\ p.kind = "details" /\ p.tx = t /\ p.request = q /\ p.showing = FALSE /\ p.prompt = None
    BY DEF DetailsPage, Page, Details
  <1>2. /\ asked \in [Request -> Tx \cup {None}] /\ asked' = [asked EXCEPT ![q] = t]
        /\ book' = book /\ index' = index /\ carried' = carried /\ detail' = detail /\ storedBy' = storedBy
        /\ pages' = Append(below, p) /\ pages \in Seq(Page)
        /\ \A i \in DOMAIN pages : pages[i].kind = "details" => pages[i].request # q
    BY DEF PushDetails, stored, IInv, Typed
  <1> HIDE DEF p
  <1>3. pages' \in Seq(Page)
    BY <1>1, <1>2
  <1>4. Typed'
    BY <1>2, <1>3 DEF IInv, Typed
  <1>5. BookFits'
    BY <1>2 DEF IInv, Inv, BookFits, Known
  <1>6. ASSUME NEW i \in 1..Len(pages), pages[i].kind = "details"
        PROVE  asked'[pages[i].request] = asked[pages[i].request]
    <2>1. pages[i] \in Page /\ i \in DOMAIN pages
      BY <1>2
    <2>2. pages[i].request \in Request /\ pages[i].request # q
      BY <1>2, <1>6, <2>1, PageKinds DEF Details
    <2> QED
      BY <1>2, <2>2
  <1>7. asked'[p.request] = p.tx
    BY <1>1, <1>2
  <1> QED
    BY <1>1, <1>2, <1>4, <1>5, <1>6, <1>7, PushKeeps

\* Every action keeps the invariant: details.
LEMMA OpenDetailsKeeps ==
    ASSUME IInv, NEW t \in Tx, NEW q \in Request, OpenDetails(t, q) PROVE IInv'
  <1>1. pages = <<>> /\ pages \in Seq(Page) /\ PushDetails(pages, t, q) /\ Len(pages) = 0
    BY DEF OpenDetails, IInv, Typed
  <1>2. ~(Len(pages) > 0) /\ 1..Len(pages) = {}
    BY <1>1
  <1>3. \A i \in 1..Len(pages) :
            /\ pages[i].kind # "editor"
            /\ pages[i].kind = "details" => pages[i].prompt = None
    BY <1>2
  <1> QED
    BY <1>1, <1>2, <1>3, PushDetailsKeeps

\* A rating that was sent: no alert is left on it.
LEMMA RatingSentKeeps ==
    ASSUME IInv, NEW t \in Tx, NEW q \in Request, RatingSent(t, q) PROVE IInv'
  <1> DEFINE p == [Top EXCEPT !.target = None, !.sending = FALSE]
             n == Len(pages)
  <1>1. pages # <<>> /\ Top.kind = "rating" /\ PushDetails(Covering(p), t, q)
    BY DEF RatingSent, OnTop
  <1>2. Top \in RatingOf /\ Top = pages[n] /\ n \in Nat \ {0} /\ Typed
    BY <1>1, TopIs, PageKinds DEF IInv
  <1>3. p \in RatingOf /\ p.kind = "rating"
    BY <1>2 DEF RatingOf
  <1>4. p \in Page
    BY <1>3 DEF Page
  <1> HIDE DEF p, n
  <1> DEFINE below == Covering(p)
  <1>5. /\ below \in Seq(Page) /\ Len(below) = n /\ below[n] = p
        /\ \A i \in 1..(n - 1) : below[i] = pages[i]
    BY <1>1, <1>2, <1>4, CoveringIs DEF n
  <1> HIDE DEF below
  <1>6. \A i \in 1..n : i # n => i \in 1..(n - 1)
    BY <1>2
  <1>7. ASSUME NEW i \in 1..n
        PROVE  /\ below[i].kind = pages[i].kind
               /\ below[i].kind # "editor"
               /\ below[i].kind \in {"details", "book"} => below[i] = pages[i]
               /\ below[i].kind = "details" => pages[i].prompt = None
    <2>1. CASE i = n
      BY <1>1, <1>2, <1>3, <1>5, <2>1
    <2>2. CASE i # n
      BY <1>5, <1>6, <2>2 DEF IInv, Inv, Order, Prompts, n
    <2> QED
      BY <2>1, <2>2
  <1> QED
    BY <1>1, <1>3, <1>5, <1>7, PushDetailsKeeps DEF n, below

\* A rating is opened from details without an alert.
LEMMA OpenRatingKeeps == ASSUME IInv, OpenRating PROVE IInv'
  <1> DEFINE p == RatingPage(Top.tx)
             n == Len(pages)
  <1>1. /\ pages # <<>> /\ Top.kind = "details" /\ Top.prompt = None /\ pages' = Append(pages, p)
        /\ book' = book /\ index' = index /\ carried' = carried /\ detail' = detail
        /\ asked' = asked /\ storedBy' = storedBy
    BY DEF OpenRating, OnTop, stored
  <1>2. Top \in Details /\ Top = pages[n] /\ n \in Nat \ {0} /\ Typed /\ pages \in Seq(Page)
    BY <1>1, TopIs, PageKinds DEF IInv, Typed
  <1>3. p \in Page /\ p.kind = "rating"
    BY <1>2 DEF RatingPage, Details, RatingOf, Page
  <1> HIDE DEF p
  <1>4. Typed'
    <2>1. pages' \in Seq(Page)
      BY <1>1, <1>2, <1>3
    <2> QED
      BY <1>1, <1>2, <2>1 DEF Typed
  <1>5. BookFits'
    BY <1>1 DEF IInv, Inv, BookFits, Known
  <1>6. ASSUME NEW i \in 1..Len(pages)
        PROVE  pages[i].kind # "editor" /\ (pages[i].kind = "details" => pages[i].prompt = None)
    BY <1>1, <1>2 DEF IInv, Inv, Order, Prompts
  <1> QED
    BY <1>1, <1>2, <1>3, <1>4, <1>5, <1>6, PushKeeps

\* What is handed over was proposed, so it is not in the book.
LEMMA AddProposedKeeps == ASSUME IInv, AddProposed PROVE IInv'
  <1> DEFINE c == [Top EXCEPT !.prompt = None]
             p == EditorPage(None)
             n == Len(pages)
  <1>1. /\ pages # <<>> /\ Top.kind = "details" /\ Top.prompt # None /\ pages' = Append(Covering(c), p)
        /\ book' = book /\ index' = index /\ carried' = Top.prompt /\ detail' = detail
        /\ asked' = asked /\ storedBy' = storedBy
    BY DEF AddProposed, OnTop
  <1>2. Top \in Details /\ Top = pages[n] /\ n \in Nat \ {0} /\ Typed /\ pages \in Seq(Page)
    BY <1>1, TopIs, PageKinds DEF IInv, Typed
  <1>3. /\ c \in Details /\ c.kind = "details" /\ c.tx = Top.tx /\ c.request = Top.request
        /\ c.showing = Top.showing /\ c.prompt = None
    BY <1>2 DEF Details
  <1>4. p \in Page /\ p.kind = "editor" /\ p.own = None /\ p.proposed = None /\ ~p.laidOut
    BY DEF EditorPage, Editor, Page
  <1>5. c \in Page
    BY <1>3 DEF Page
  <1> HIDE DEF c, p, n
  <1> DEFINE below == Covering(c)
  <1>6. /\ below \in Seq(Page) /\ Len(below) = n /\ below[n] = c
        /\ \A i \in 1..(n - 1) : below[i] = pages[i]
    BY <1>1, <1>2, <1>5, CoveringIs DEF n
  <1>7. pages' = Append(below, p)
    BY <1>1
  <1> HIDE DEF below
  <1>8. n \in 1..n /\ \A i \in 1..n : i # n => i \in 1..(n - 1)
    BY <1>2
  <1>9. index = Add /\ ~Known(Top.prompt)
    BY <1>1, <1>2, <1>8 DEF IInv, Inv, Prompts, n
  <1>10. Typed'
    <2>1. pages' \in Seq(Page)
      BY <1>4, <1>6, <1>7
    <2>2. carried' \in Address \cup {None}
      BY <1>1, <1>2 DEF Details
    <2> QED
      BY <1>1, <1>2, <2>1, <2>2 DEF Typed
  <1>11. BookFits'
    BY <1>1, <1>9 DEF IInv, Inv, BookFits, Known
  <1>12. EditorOf(p)'
    BY <1>1, <1>4, <1>9 DEF EditorOf
  <1>13. ASSUME NEW i \in 1..n
         PROVE  /\ below[i].kind = pages[i].kind
                /\ below[i].kind # "editor"
                /\ below[i].kind = "book" => below[i].list = pages[i].list
                /\ below[i].kind = "details" =>
                       /\ below[i].tx = pages[i].tx /\ below[i].request = pages[i].request
                       /\ below[i].showing = pages[i].showing
                       /\ below[i].prompt = None
    <2>1. CASE i = n
      BY <1>1, <1>2, <1>3, <1>6, <2>1
    <2>2. CASE i # n
      BY <1>6, <1>8, <2>2 DEF IInv, Inv, Order, Prompts, n
    <2> QED
      BY <2>1, <2>2
  <1> QED
    BY <1>1, <1>4, <1>6, <1>7, <1>10, <1>11, <1>12, <1>13, PushKeeps DEF n

\* Actions on a rating or an alert.
LEMMA CoverActionsKeep ==
    ASSUME IInv, CancelProposed \/ TapRating \/ SendRating \/ NoRating
    PROVE  IInv'
  <1>1. pages # <<>> /\ UNCHANGED <<stored, asked, storedBy>> /\ Typed
    BY DEF CancelProposed, TapRating, SendRating, NoRating, OnTop, IInv
  <1>2. CASE CancelProposed
    <2> DEFINE p == [Top EXCEPT !.prompt = None]
    <2>1. Top \in Details /\ pages' = Covering(p)
      BY <1>1, <1>2, TopIs, PageKinds DEF CancelProposed, OnTop
    <2>2. /\ p \in Details /\ p.kind = "details" /\ Top.kind = "details" /\ p.tx = Top.tx
          /\ p.request = Top.request /\ p.showing = Top.showing /\ p.prompt = None
      BY <2>1 DEF Details
    <2>3. p \in Page
      BY <2>2 DEF Page
    <2> HIDE DEF p
    <2> QED
      BY <1>1, <2>1, <2>2, <2>3, CoverKeeps
  <1>3. CASE TapRating
    <2> DEFINE p == [Top EXCEPT !.target = detail]
    <2>1. Top \in RatingOf /\ pages' = Covering(p) /\ detail \in Tx \cup {None}
      BY <1>1, <1>3, TopIs, PageKinds DEF TapRating, OnTop, Typed
    <2>2. p \in RatingOf /\ p.kind = "rating" /\ Top.kind = "rating"
      BY <2>1 DEF RatingOf
    <2>3. p \in Page
      BY <2>2 DEF Page
    <2> HIDE DEF p
    <2> QED
      BY <1>1, <2>1, <2>2, <2>3, CoverKeeps
  <1>4. CASE SendRating
    <2> DEFINE p == [Top EXCEPT !.sending = TRUE]
    <2>1. Top \in RatingOf /\ pages' = Covering(p)
      BY <1>1, <1>4, TopIs, PageKinds DEF SendRating, OnTop
    <2>2. p \in RatingOf /\ p.kind = "rating" /\ Top.kind = "rating"
      BY <2>1 DEF RatingOf
    <2>3. p \in Page
      BY <2>2 DEF Page
    <2> HIDE DEF p
    <2> QED
      BY <1>1, <2>1, <2>2, <2>3, CoverKeeps
  <1>5. CASE NoRating
    <2> DEFINE p == [Top EXCEPT !.target = None, !.sending = FALSE]
    <2>1. Top \in RatingOf /\ pages' = Covering(p)
      BY <1>1, <1>5, TopIs, PageKinds DEF NoRating, OnTop
    <2>2. p \in RatingOf /\ p.kind = "rating" /\ Top.kind = "rating"
      BY <2>1 DEF RatingOf
    <2>3. p \in Page
      BY <2>2 DEF Page
    <2> HIDE DEF p
    <2> QED
      BY <1>1, <2>1, <2>2, <2>3, CoverKeeps
  <1> QED
    BY <1>2, <1>3, <1>4, <1>5

\* No answer: the page shows what it showed.
LEMMA NoDetailsKeeps ==
    ASSUME IInv, NEW q \in Request, NoDetails(q) PROVE IInv'
  <1>1. /\ book' = book /\ index' = index /\ carried' = carried /\ detail' = detail
        /\ pages' = pages /\ storedBy' = storedBy /\ asked' = [asked EXCEPT ![q] = None]
        /\ asked \in [Request -> Tx \cup {None}] /\ pages \in Seq(Page)
    BY DEF NoDetails, stored, IInv, Typed
  <1>2. Typed'
    BY <1>1 DEF IInv, Typed
  <1>3. BookFits' /\ Order' /\ Prompts' /\ Rows'
    BY <1>1 DEF IInv, Inv, BookFits, Order, Prompts, Rows, EditorOf, RowOf, Known
  <1>4. PagesAgree'
    <2>1. ASSUME NEW i \in 1..Len(pages) PROVE Agrees(pages[i])'
      <3>1. Agrees(pages[i]) /\ pages[i] \in Page
        BY <1>1 DEF IInv, Inv, PagesAgree
      <3>2. pages[i].kind = "details" => pages[i].request \in Request
        BY <3>1, PageKinds DEF Details
      <3>3. pages[i].kind = "details" => asked'[pages[i].request] \in {asked[pages[i].request], None}
        BY <1>1, <3>2
      <3> QED
        BY <1>1, <3>1, <3>3 DEF Agrees
    <2> QED
      BY <1>1, <2>1 DEF PagesAgree
  <1> QED
    BY <1>2, <1>3, <1>4 DEF IInv, Inv

\* What an answer does to each page.
LEMMA PagesShowIs ==
    ASSUME Typed, NEW q \in Request, NEW t \in Tx
    PROVE  /\ PagesShow(q, t) \in Seq(Page)
           /\ Len(PagesShow(q, t)) = Len(pages)
           /\ \A i \in 1..Len(pages) :
                  LET old == pages[i]
                      new == PagesShow(q, t)[i]
                  IN  /\ new.kind = old.kind
                      /\ new.kind \in {"book", "rating"} => new = old
                      /\ new.kind = "details" /\ old.request # q => new = old
                      /\ new.kind = "details" /\ old.request = q =>
                             /\ new.tx = old.tx /\ new.request = q
                             /\ new.prompt # None =>
                                    Proposes(Party[t]) /\ i = Len(pages) /\ new.prompt = Party[t]
                      /\ new.kind = "editor" =>
                             /\ new.laidOut = old.laidOut /\ new.proposed = old.proposed
                             /\ new.own = old.own
                             /\ new.reset <=> old.reset \/ (Proposes(Party[t]) /\ index # Add)
  <1>1. pages \in Seq(Page) /\ Len(pages) \in Nat /\ DOMAIN pages = 1..Len(pages)
    BY DEF Typed
  <1>2. Party[t] \in Address
    BY ContactsAssumption
  <1> DEFINE New(i) ==
        IF pages[i].kind = "details" /\ pages[i].request = q
        THEN [pages[i] EXCEPT
                !.showing = TRUE,
                !.prompt = IF Proposes(Party[t]) /\ i = Len(pages) THEN Party[t] ELSE None]
        ELSE IF pages[i].kind = "editor" /\ Proposes(Party[t])
        THEN [pages[i] EXCEPT !.reset = @ \/ index # Add]
        ELSE pages[i]
  <1>3. PagesShow(q, t) = [i \in 1..Len(pages) |-> New(i)]
    BY <1>1 DEF PagesShow
  <1>4. ASSUME NEW i \in 1..Len(pages)
        PROVE  /\ New(i) \in Page
               /\ New(i).kind = pages[i].kind
               /\ New(i).kind \in {"book", "rating"} => New(i) = pages[i]
               /\ New(i).kind = "details" /\ pages[i].request # q => New(i) = pages[i]
               /\ New(i).kind = "details" /\ pages[i].request = q =>
                      /\ New(i).tx = pages[i].tx /\ New(i).request = q
                      /\ New(i).prompt # None =>
                             Proposes(Party[t]) /\ i = Len(pages) /\ New(i).prompt = Party[t]
               /\ New(i).kind = "editor" =>
                      /\ New(i).laidOut = pages[i].laidOut /\ New(i).proposed = pages[i].proposed
                      /\ New(i).own = pages[i].own
                      /\ New(i).reset <=> pages[i].reset \/ (Proposes(Party[t]) /\ index # Add)
    <2>1. pages[i] \in Page
      BY <1>1
    <2>2. CASE pages[i].kind = "details" /\ pages[i].request = q
      <3> DEFINE a == IF Proposes(Party[t]) /\ i = Len(pages) THEN Party[t] ELSE None
      <3>1. New(i) = [pages[i] EXCEPT !.showing = TRUE, !.prompt = a] /\ pages[i] \in Details
        BY <2>1, <2>2, PageKinds
      <3>2. a \in Address \cup {None} /\ (a # None => Proposes(Party[t]) /\ i = Len(pages) /\ a = Party[t])
        BY <1>2
      <3> HIDE DEF New, a
      <3>3. /\ New(i) \in Details /\ New(i).kind = "details" /\ New(i).tx = pages[i].tx
            /\ New(i).request = pages[i].request /\ New(i).prompt = a
        BY <3>1, <3>2 DEF Details
      <3>4. New(i) \in Page
        BY <3>3 DEF Page
      <3> QED
        BY <2>2, <3>2, <3>3, <3>4
    <2>3. CASE pages[i].kind = "editor" /\ Proposes(Party[t])
      <3> DEFINE r == pages[i].reset \/ index # Add
      <3>1. New(i) = [pages[i] EXCEPT !.reset = r] /\ pages[i] \in Editor
        BY <2>1, <2>3, PageKinds
      <3>2. r \in BOOLEAN
        OBVIOUS
      <3> HIDE DEF New, r
      <3>3. /\ New(i) \in Editor /\ New(i).kind = "editor" /\ New(i).laidOut = pages[i].laidOut
            /\ New(i).proposed = pages[i].proposed /\ New(i).own = pages[i].own
            /\ New(i).reset = r
        BY <3>1, <3>2 DEF Editor
      <3>4. New(i) \in Page
        BY <3>3 DEF Page
      <3>5. New(i).reset <=> pages[i].reset \/ (Proposes(Party[t]) /\ index # Add)
        BY <2>3, <3>3 DEF r
      <3>6. /\ New(i).kind = pages[i].kind
            /\ New(i).kind \notin {"book", "rating"} /\ New(i).kind # "details"
            /\ New(i).laidOut = pages[i].laidOut /\ New(i).proposed = pages[i].proposed
            /\ New(i).own = pages[i].own
        BY <2>3, <3>3
      <3> HIDE DEF r
      <3> QED
        BY <3>4, <3>5, <3>6, Zenon
    <2>4. CASE /\ ~(pages[i].kind = "details" /\ pages[i].request = q)
               /\ ~(pages[i].kind = "editor" /\ Proposes(Party[t]))
      <3>1. New(i) = pages[i]
        BY <2>4
      <3> HIDE DEF New
      <3> QED
        BY <2>1, <2>4, <3>1
    <2> QED
      BY <2>2, <2>3, <2>4
  <1> HIDE DEF New
  <1>5. PagesShow(q, t) \in Seq(Page) /\ Len(PagesShow(q, t)) = Len(pages)
    <2>1. \A i \in 1..Len(pages) : New(i) \in Page
      BY <1>4, Zenon
    <2> QED
      BY <1>1, <1>3, <2>1
  <1>6. \A i \in 1..Len(pages) : PagesShow(q, t)[i] = New(i)
    BY <1>3
  <1> QED
    BY <1>4, <1>5, <1>6

\* An answer is about its own page, on top or not; a row is reset under an editor.
LEMMA DetailsArriveKeeps ==
    ASSUME IInv, NEW q \in Request, DetailsArrive(q) PROVE IInv'
  <1> DEFINE t == asked[q]
             n == Len(pages)
             proposes == Proposes(Party[t])
  <1>1. /\ t \in Tx /\ t # None /\ detail' = t /\ storedBy' = q
        /\ index' = IF proposes THEN Add ELSE index
        /\ pages' = PagesShow(q, t) /\ asked' = [asked EXCEPT ![q] = None]
        /\ book' = book /\ carried' = carried
        /\ Typed /\ Inv /\ n \in Nat /\ asked \in [Request -> Tx \cup {None}] /\ pages \in Seq(Page)
    BY DEF DetailsArrive, Store, IInv, Typed
  <1>2. asked[q] = t
    OBVIOUS
  <1> HIDE DEF t, n, proposes
  <1>3. /\ pages' \in Seq(Page) /\ Len(pages') = n
        /\ \A i \in 1..n :
               /\ pages'[i].kind = pages[i].kind
               /\ pages'[i].kind \in {"book", "rating"} => pages'[i] = pages[i]
               /\ pages'[i].kind = "details" /\ pages[i].request # q => pages'[i] = pages[i]
               /\ pages'[i].kind = "details" /\ pages[i].request = q =>
                      /\ pages'[i].tx = pages[i].tx /\ pages'[i].request = q
                      /\ pages'[i].prompt # None => proposes /\ i = n /\ pages'[i].prompt = Party[t]
               /\ pages'[i].kind = "editor" =>
                      /\ pages'[i].laidOut = pages[i].laidOut /\ pages'[i].proposed = pages[i].proposed
                      /\ pages'[i].own = pages[i].own
                      /\ pages'[i].reset <=> pages[i].reset \/ (proposes /\ index # Add)
    BY <1>1, PagesShowIs DEF n, proposes
  <1>4. Typed'
    BY <1>1, <1>3 DEF Typed
  <1>5. BookFits'
    BY <1>1 DEF Inv, BookFits, Known
  <1>6. Order'
    <2>1. \A i \in 1..n : i > 1 => i - 1 \in 1..n
      BY <1>1
    <2> QED
      BY <1>1, <1>3, <2>1 DEF Inv, Order, n
  <1>7. PagesAgree'
    <2>1. ASSUME NEW i \in 1..n PROVE Agrees(pages[i])'
      <3>1. Agrees(pages[i]) /\ pages[i] \in Page
        BY <1>1 DEF Inv, PagesAgree, n
      <3>2. CASE pages[i].kind = "details" /\ pages[i].request = q
        <4>1. pages[i].tx = t
          BY <1>1, <1>2, <3>1, <3>2 DEF Agrees
        <4>2. pages'[i].kind = "details" /\ pages'[i].tx = t /\ pages'[i].request = q
          BY <1>3, <3>2, <4>1
        <4>3. asked'[q] = None
          BY <1>1
        <4> QED
          BY <1>1, <4>2, <4>3 DEF Agrees
      <3>3. CASE pages[i].kind = "details" /\ pages[i].request # q
        <4>1. pages[i].request \in Request /\ pages'[i] = pages[i]
          BY <1>3, <3>1, <3>3, PageKinds DEF Details
        <4>2. asked'[pages[i].request] = asked[pages[i].request]
          BY <1>1, <3>3, <4>1
        <4> QED
          BY <1>1, <3>1, <3>3, <4>1, <4>2 DEF Agrees
      <3>4. CASE pages[i].kind # "details"
        <4>1. pages'[i].kind = pages[i].kind /\ (pages[i].kind = "book" => pages'[i] = pages[i])
          BY <1>3
        <4> QED
          BY <1>1, <3>1, <3>4, <4>1 DEF Agrees
      <3> QED
        BY <3>2, <3>3, <3>4
    <2> QED
      BY <1>3, <2>1 DEF PagesAgree
  <1>8. Prompts'
    <2>1. ASSUME NEW i \in 1..n, pages'[i].kind = "details", pages'[i].prompt # None
          PROVE  i = n /\ index' = Add /\ ~Known(pages[i].prompt)'
      <3>1. CASE pages[i].request = q
        <4>1. proposes /\ i = n /\ pages'[i].prompt = Party[t]
          BY <1>3, <2>1, <3>1
        <4>2. ~Known(Party[t])
          BY <4>1 DEF proposes, Proposes
        <4> QED
          BY <1>1, <4>1, <4>2 DEF Known
      <3>2. CASE pages[i].request # q
        <4>1. pages'[i] = pages[i]
          BY <1>3, <2>1, <3>2
        <4>2. i = n /\ index = Add /\ ~Known(pages[i].prompt)
          BY <1>1, <2>1, <4>1 DEF Inv, Prompts, n
        <4> QED
          BY <1>1, <4>1, <4>2 DEF Known
      <3> QED
        BY <3>1, <3>2
    <2> QED
      BY <1>3, <2>1 DEF Prompts
  <1>9. Rows'
    <2>1. ASSUME NEW i \in 1..n, pages'[i].kind = "editor" PROVE EditorOf(pages[i])'
      <3>1. EditorOf(pages[i]) /\ pages[i].kind = "editor"
        BY <1>1, <1>3, <2>1 DEF Inv, Rows, n
      <3>2. /\ pages'[i].laidOut = pages[i].laidOut /\ pages'[i].proposed = pages[i].proposed
            /\ pages'[i].own = pages[i].own
            /\ pages'[i].reset <=> pages[i].reset \/ (proposes /\ index # Add)
        BY <1>3, <2>1
      <3>3. index \in 1..Len(book) => index # Add
        BY <1>1, ContactsAssumption DEF Inv, BookFits, Typed
      <3>4. CASE proposes
        <4>1. index' = Add /\ (~pages'[i].reset => index = Add)
          BY <1>1, <3>2, <3>4
        <4>2. ~(pages'[i].own # None /\ ~pages'[i].reset)
          BY <3>1, <3>2, <3>3, <4>1 DEF EditorOf, RowOf
        <4> QED
          BY <1>1, <3>1, <3>2, <4>1, <4>2 DEF EditorOf, Known
      <3>5. CASE ~proposes
        BY <1>1, <3>1, <3>2, <3>5 DEF EditorOf, RowOf, Known
      <3> QED
        BY <3>4, <3>5
    <2>2. ASSUME NEW i \in 1..n, pages'[i].kind = "book", i = n PROVE index' = Add
      BY <1>1, <1>3, <2>2 DEF Inv, Rows, n
    <2> QED
      BY <1>3, <2>1, <2>2 DEF Rows
  <1> QED
    BY <1>4, <1>5, <1>6, <1>7, <1>8, <1>9 DEF IInv, Inv

\* The editor takes what is handed over.
LEMMA LayOutKeeps == ASSUME IInv, LayOut PROVE IInv'
  <1> DEFINE p == [Top EXCEPT !.laidOut = TRUE, !.proposed = carried]
             n == Len(pages)
  <1>1. /\ pages # <<>> /\ Top.kind = "editor" /\ pages' = Covering(p) /\ carried' = None
        /\ book' = book /\ index' = index /\ detail' = detail
        /\ asked' = asked /\ storedBy' = storedBy
    BY DEF LayOut, OnTop
  <1>2. Top \in Editor /\ Top = pages[n] /\ n \in Nat \ {0} /\ Typed /\ carried \in Address \cup {None}
    BY <1>1, TopIs, PageKinds DEF IInv, Typed
  <1>3. p \in Editor /\ p.kind = "editor" /\ p.own = Top.own /\ p.reset = Top.reset /\ p.proposed = carried
    BY <1>2 DEF Editor
  <1>4. p \in Page
    BY <1>3 DEF Page
  <1> HIDE DEF p, n
  <1>5. /\ pages' \in Seq(Page) /\ Len(pages') = n /\ pages'[n] = p
        /\ \A i \in 1..(n - 1) : pages'[i] = pages[i]
    BY <1>1, <1>2, <1>4, CoveringIs DEF n
  <1>6. n \in 1..n /\ \A i \in 1..n : (i # n => i \in 1..(n - 1)) /\ (i > 1 => i - 1 \in 1..(n - 1))
    BY <1>2
  <1>7. Typed'
    BY <1>1, <1>2, <1>5 DEF Typed
  <1>8. BookFits'
    BY <1>1 DEF IInv, Inv, BookFits
  <1>9. \A i \in 1..n : pages'[i].kind = pages[i].kind
    BY <1>1, <1>2, <1>3, <1>5, <1>6
  <1>10. Order'
    BY <1>5, <1>6, <1>9 DEF IInv, Inv, Order, n
  <1>11. PagesAgree'
    <2>1. ASSUME NEW i \in 1..n PROVE Agrees(pages[i])'
      <3>1. Agrees(pages[i])
        BY DEF IInv, Inv, PagesAgree, n
      <3>2. CASE i = n
        BY <1>3, <1>5, <3>2 DEF Agrees
      <3>3. CASE i # n
        BY <1>1, <1>5, <1>6, <3>1, <3>3 DEF Agrees
      <3> QED
        BY <3>2, <3>3
    <2> QED
      BY <1>5, <2>1 DEF PagesAgree
  <1>12. Prompts'
    <2>1. ASSUME NEW i \in 1..n, pages'[i].kind = "details"
          PROVE  pages'[i] = pages[i]
      BY <1>3, <1>5, <1>6, <2>1
    <2> QED
      BY <1>1, <1>5, <1>9, <2>1 DEF IInv, Inv, Prompts, Known, n
  <1>13. Rows'
    <2>1. EditorOf(pages[n])
      BY <1>1, <1>2, <1>6 DEF IInv, Inv, Rows, n
    <2>2. p.proposed # None => ~Known(p.proposed)
      BY <1>3 DEF IInv, Inv, BookFits
    <2>3. ASSUME NEW i \in 1..n, pages'[i].kind = "editor" PROVE i = n
      BY <1>9, <2>3 DEF IInv, Inv, Order, n
    <2>4. p.own = pages[n].own /\ p.reset = pages[n].reset
      BY <1>2, <1>3
    <2>5. ASSUME NEW i \in 1..n, pages'[i].kind = "editor" PROVE EditorOf(pages[i])'
      <3>1. pages'[i] = p
        BY <1>5, <2>3, <2>5
      <3> QED
        BY <1>1, <2>1, <2>2, <2>4, <3>1 DEF EditorOf, RowOf, Known
    <2>6. ASSUME NEW i \in 1..n, pages'[i].kind = "book" PROVE i # n
      BY <1>3, <1>5, <2>6
    <2> QED
      BY <1>5, <2>5, <2>6 DEF Rows
  <1> QED
    BY <1>7, <1>8, <1>10, <1>11, <1>12, <1>13 DEF IInv, Inv

\* The pages below, when they are shown again.
LEMMA ShownIs ==
    ASSUME NEW below \in Seq(Page), book' \in Seq(Address)
    PROVE  /\ Shown(below) \in Seq(Page)
           /\ Len(Shown(below)) = Len(below)
           /\ \A i \in 1..Len(below) :
                  /\ Shown(below)[i].kind = below[i].kind
                  /\ below[i].kind # "book" => Shown(below)[i] = below[i]
                  /\ i = Len(below) /\ below[i].kind = "book" => Shown(below)[i].list = book'
                  /\ i # Len(below) => Shown(below)[i] = below[i]
  <1> DEFINE m == Len(below)
             b == BookPage(book')
  <1>1. m \in Nat
    OBVIOUS
  <1>2. b \in Page /\ b.kind = "book" /\ b.list = book'
    BY DEF BookPage, BookOf, Page
  <1>3. CASE below # <<>> /\ Last(below).kind = "book"
    <2> DEFINE f == Front(below)
    <2>1. f \in Seq(Page) /\ Len(f) = m - 1 /\ \A i \in 1..(m - 1) : f[i] = below[i]
      BY <1>3, FrontIs
    <2>2. below[m].kind = "book" /\ m # 0
      BY <1>3 DEF Last
    <2> HIDE DEF b, f, m
    <2>3. Shown(below) = Append(f, b)
      BY <1>3 DEF Shown, f, b
    <2>4. /\ Append(f, b) \in Seq(Page) /\ Len(Append(f, b)) = m /\ Append(f, b)[m] = b
          /\ \A i \in 1..(m - 1) : Append(f, b)[i] = below[i]
      BY <1>1, <1>2, <2>1, <2>2
    <2>5. \A i \in 1..m : i # m => i \in 1..(m - 1)
      BY <1>1
    <2>6. ASSUME NEW i \in 1..m
          PROVE  /\ Shown(below)[i].kind = below[i].kind
                 /\ below[i].kind # "book" => Shown(below)[i] = below[i]
                 /\ i = m /\ below[i].kind = "book" => Shown(below)[i].list = book'
                 /\ i # m => Shown(below)[i] = below[i]
      <3>1. CASE i = m
        BY <1>2, <2>2, <2>3, <2>4, <3>1
      <3>2. CASE i # m
        BY <2>3, <2>4, <2>5, <3>2
      <3> QED
        BY <3>1, <3>2
    <2> QED
      BY <2>3, <2>4, <2>6 DEF m
  <1>4. CASE ~(below # <<>> /\ Last(below).kind = "book")
    <2>1. Shown(below) = below
      BY <1>4 DEF Shown
    <2>2. ASSUME NEW i \in 1..m, i = m PROVE below[i].kind # "book"
      <3>1. below # <<>>
        BY <1>1, <2>2
      <3> QED
        BY <1>4, <2>2, <3>1 DEF Last
    <2> QED
      BY <2>1, <2>2
  <1> QED
    BY <1>3, <1>4

\* A book is covered by an editor alone.
LEMMA BookBelow ==
    ASSUME IInv, NEW i \in 1..Len(pages), i # Len(pages), pages[i].kind = "book"
    PROVE  i = 1 /\ Len(pages) = 2
  <1>1. pages \in Seq(Page) /\ Len(pages) \in Nat
    BY DEF IInv, Typed
  <1>2. i = 1
    BY DEF IInv, Inv, Order
  <1>3. 2 \in 1..Len(pages) /\ 2 - 1 = 1
    <2> DEFINE n == Len(pages)
    <2>1. n \in Nat /\ 1 \in 1..n /\ 1 # n
      BY <1>1, <1>2
    <2> HIDE DEF n
    <2>2. 2 \in 1..n
      BY <2>1
    <2> QED
      BY <2>2 DEF n
  <1>4. pages[2] \in Page
    BY <1>1, <1>3
  <1>5. pages[2].kind \notin {"book", "rating", "details"}
    BY <1>2, <1>3 DEF IInv, Inv, Order
  <1>6. pages[2].kind = "editor"
    BY <1>4, <1>5, PageKinds
  <1> QED
    BY <1>2, <1>3, <1>6 DEF IInv, Inv, Order

\* The page on top is left; what is below is shown again.
LEMMA PopKeeps ==
    ASSUME IInv, Typed', BookFits', pages # <<>>, pages' = Shown(Front(pages)),
           UNCHANGED <<detail, asked, storedBy>>,
           \/ book' = book /\ index' = IndexShown(Front(pages))
           \/ Top.kind = "editor" /\ index' = Add
    PROVE  IInv'
  <1> DEFINE n == Len(pages)
             below == Front(pages)
  <1>1. Typed /\ n \in Nat \ {0} /\ pages \in Seq(Page) /\ Top = pages[n] /\ book' \in Seq(Address)
    BY TopIs DEF IInv, Typed
  <1>2. below \in Seq(Page) /\ Len(below) = n - 1 /\ \A i \in 1..(n - 1) : below[i] = pages[i]
    BY <1>1, FrontIs
  <1> HIDE DEF n, below
  <1>3. /\ pages' \in Seq(Page) /\ Len(pages') = n - 1
        /\ \A i \in 1..(n - 1) :
               /\ pages'[i].kind = pages[i].kind
               /\ pages[i].kind # "book" => pages'[i] = pages[i]
               /\ i = n - 1 /\ pages[i].kind = "book" => pages'[i].list = book'
    <2>1. pages' = Shown(below)
      BY DEF below
    <2>2. /\ Shown(below) \in Seq(Page) /\ Len(Shown(below)) = Len(below)
          /\ \A i \in 1..Len(below) :
                 /\ Shown(below)[i].kind = below[i].kind
                 /\ below[i].kind # "book" => Shown(below)[i] = below[i]
                 /\ i = Len(below) /\ below[i].kind = "book" => Shown(below)[i].list = book'
      BY <1>1, <1>2, ShownIs
    <2> QED
      BY <1>2, <2>1, <2>2
  <1>4. \A i \in 1..(n - 1) : i \in 1..n /\ i # n /\ (i > 1 => i - 1 \in 1..(n - 1))
    BY <1>1
  <1>5. ASSUME NEW i \in 1..(n - 1), pages[i].kind = "book" PROVE i = n - 1
    <2>1. i = 1 /\ n = 2
      BY <1>4, <1>5, BookBelow DEF n
    <2> QED
      BY <2>1
  <1>6. ASSUME NEW i \in 1..(n - 1)
        PROVE  /\ pages[i].kind # "editor"
               /\ pages[i].kind = "details" => pages[i].prompt = None
    BY <1>4 DEF IInv, Inv, Order, Prompts, n
  <1>7. Order'
    <2>1. ASSUME NEW i \in 1..(n - 1)
          PROVE  /\ pages'[i].kind = "book" => i = 1
                 /\ pages'[i].kind = "rating" => i > 1 /\ pages'[i - 1].kind = "details"
                 /\ pages'[i].kind = "details" /\ i > 1 => pages'[i - 1].kind = "rating"
                 /\ pages'[i].kind # "editor"
      <3>1. /\ pages[i].kind = "book" => i = 1
            /\ pages[i].kind = "rating" => i > 1 /\ pages[i - 1].kind = "details"
            /\ pages[i].kind = "details" /\ i > 1 => pages[i - 1].kind = "rating"
        BY <1>4 DEF IInv, Inv, Order, n
      <3>2. pages'[i].kind = pages[i].kind /\ (i > 1 => pages'[i - 1].kind = pages[i - 1].kind)
        BY <1>3, <1>4
      <3> QED
        BY <1>6, <3>1, <3>2
    <2> QED
      BY <1>3, <2>1 DEF Order
  <1>8. PagesAgree'
    <2>1. ASSUME NEW i \in 1..(n - 1) PROVE Agrees(pages[i])'
      <3>1. Agrees(pages[i])
        BY <1>4 DEF IInv, Inv, PagesAgree, n
      <3>2. CASE pages[i].kind = "book"
        BY <1>3, <1>5, <3>2 DEF Agrees
      <3>3. CASE pages[i].kind # "book"
        BY <1>3, <3>1, <3>3 DEF Agrees
      <3> QED
        BY <3>2, <3>3
    <2> QED
      BY <1>3, <2>1 DEF PagesAgree
  <1>9. Prompts'
    <2>1. ASSUME NEW i \in 1..(n - 1), pages'[i].kind = "details" PROVE pages'[i].prompt = None
      BY <1>3, <1>6, <2>1
    <2> QED
      BY <1>3, <2>1 DEF Prompts
  <1>10. Rows'
    <2>1. ASSUME NEW i \in 1..(n - 1) PROVE pages'[i].kind # "editor"
      BY <1>3, <1>6
    <2>2. ASSUME NEW i \in 1..(n - 1), pages'[i].kind = "book", i = n - 1 PROVE index' = Add
      <3>1. below # <<>> /\ Last(below).kind = "book"
        BY <1>1, <1>2, <1>3, <2>2 DEF Last
      <3> QED
        BY <3>1 DEF IndexShown, below
    <2> QED
      BY <1>3, <2>1, <2>2 DEF Rows
  <1> QED
    BY <1>7, <1>8, <1>9, <1>10 DEF IInv, Inv

\* Back, to the page below.
LEMMA BackKeeps == ASSUME IInv, Back PROVE IInv'
  <1>1. /\ pages # <<>> /\ book' = book /\ carried' = carried /\ detail' = detail /\ asked' = asked
        /\ storedBy' = storedBy /\ pages' = Shown(Front(pages)) /\ index' = IndexShown(Front(pages))
        /\ pages \in Seq(Page) /\ Typed /\ book' \in Seq(Address)
    BY DEF Back, IInv, Typed
  <1>2. index' \in {Add, index}
    BY <1>1 DEF IndexShown
  <1>3. pages' \in Seq(Page)
    <2>1. Front(pages) \in Seq(Page)
      BY <1>1, FrontIs
    <2> QED
      BY <1>1, <2>1, ShownIs
  <1>4. Typed'
    BY <1>1, <1>2, <1>3 DEF Typed
  <1>5. BookFits'
    BY <1>1 DEF IInv, Inv, BookFits, Known
  <1> QED
    BY <1>1, <1>4, <1>5, PopKeeps

\* A new address is added, or takes the row of the entry that is edited.
LEMMA SaveKeeps ==
    ASSUME IInv, NEW a \in Address, Save(a) PROVE IInv'
  <1> DEFINE n == Len(pages)
             m == Len(book)
  <1>1. /\ pages # <<>> /\ Top.kind = "editor" /\ Top.laidOut /\ ~Known(a)
        /\ carried' = carried /\ detail' = detail /\ asked' = asked
        /\ storedBy' = storedBy /\ pages' = Shown(Front(pages)) /\ index' = Add
        /\ pages \in Seq(Page) /\ Typed /\ book \in Seq(Address)
    BY DEF Save, Refused, OnTop, IInv, Typed
  <1>2. Top = pages[n] /\ n \in 1..n
    BY <1>1, TopIs
  <1>3. EditorOf(Top)
    BY <1>1, <1>2 DEF IInv, Inv, Rows
  <1>4. carried = None
    BY <1>1, <1>3 DEF EditorOf
  <1>5. m \in Nat /\ m <= MaxBook /\ \A i, j \in 1..m : book[i] = book[j] => i = j
    BY <1>1 DEF IInv, Inv, BookFits
  <1>6. \A i \in 1..m : book[i] # a
    BY <1>1, KnownIs
  <1> HIDE DEF m
  <1>7. /\ book' \in Seq(Address) /\ Len(book') <= MaxBook
        /\ \A i, j \in 1..Len(book') : book'[i] = book'[j] => i = j
    <2>1. CASE index = Add /\ Len(book) < MaxBook /\ book' = Append(book, a)
      <3>1. /\ book' \in Seq(Address) /\ Len(book') = m + 1 /\ book'[m + 1] = a
            /\ \A i \in 1..m : book'[i] = book[i]
        BY <1>1, <2>1 DEF m
      <3>2. m + 1 <= MaxBook
        BY <1>5, <2>1, ContactsAssumption DEF m
      <3>3. \A i \in 1..(m + 1) : i # m + 1 => i \in 1..m
        BY <1>5
      <3>4. ASSUME NEW i \in 1..(m + 1), NEW j \in 1..(m + 1), book'[i] = book'[j] PROVE i = j
        BY <1>5, <1>6, <3>1, <3>3, <3>4
      <3> QED
        BY <3>1, <3>2, <3>4
    <2>2. CASE index # Add /\ book' = ReplaceAt(book, index, a)
      <3>1. index \in 1..m
        BY <1>3, <2>2 DEF EditorOf, RowOf, m
      <3>2. /\ book' \in Seq(Address) /\ Len(book') = m
            /\ \A i \in 1..m : book'[i] = IF i = index THEN a ELSE book[i]
        BY <1>1, <2>2, <3>1 DEF ReplaceAt, m
      <3>3. ASSUME NEW i \in 1..m, NEW j \in 1..m, book'[i] = book'[j] PROVE i = j
        BY <1>5, <1>6, <3>2, <3>3
      <3> QED
        BY <1>5, <3>2, <3>3
    <2> QED
      BY <2>1, <2>2 DEF Save
  <1>8. pages' \in Seq(Page)
    <2>1. Front(pages) \in Seq(Page)
      BY <1>1, FrontIs
    <2> QED
      BY <1>1, <1>7, <2>1, ShownIs
  <1>9. Typed'
    BY <1>1, <1>7, <1>8 DEF Typed
  <1>10. BookFits'
    BY <1>1, <1>4, <1>7 DEF BookFits
  <1> QED
    BY <1>1, <1>9, <1>10, PopKeeps

\* The book appeared below the editor and reset the row.
LEMMA SwipeCancelledKeeps == ASSUME IInv, SwipeCancelled PROVE IInv'
  <1> DEFINE n == Len(pages)
             below == Shown(Front(pages))
             p == [Top EXCEPT !.reset = @ \/ index' # index]
  <1>1. /\ pages # <<>> /\ Top.kind = "editor" /\ n > 1 /\ pages[n - 1].kind = "book"
        /\ book' = book /\ carried' = carried /\ detail' = detail /\ asked' = asked
        /\ storedBy' = storedBy /\ index' = IndexShown(Front(pages)) /\ pages' = Append(below, p)
        /\ pages \in Seq(Page) /\ Typed /\ book' \in Seq(Address)
    BY DEF SwipeCancelled, OnTop, IInv, Typed
  <1>2. Top = pages[n] /\ n \in Nat /\ Top \in Editor
    BY <1>1, TopIs, PageKinds
  <1>3. n - 1 \in 1..n /\ n - 1 # n
    BY <1>1, <1>2
  <1>4. n = 2 /\ n - 1 = 1
    <2>1. n = 2
      BY <1>1, <1>3, BookBelow
    <2> QED
      BY <2>1
  <1>5. /\ p \in Editor /\ p.kind = "editor" /\ p.own = Top.own /\ p.laidOut = Top.laidOut
        /\ p.proposed = Top.proposed
    <2> DEFINE r == Top.reset \/ index' # index
    <2>1. p = [Top EXCEPT !.reset = r] /\ r \in BOOLEAN
      BY <1>2 DEF Editor
    <2> HIDE DEF p, r
    <2> QED
      BY <1>1, <1>2, <2>1 DEF Editor
  <1>6. p.reset <=> Top.reset \/ index' # index
    <2> DEFINE r == Top.reset \/ index' # index
    <2>1. p = [Top EXCEPT !.reset = r] /\ r \in BOOLEAN
      BY <1>2 DEF Editor
    <2> HIDE DEF p, r
    <2>2. p.reset = r
      BY <1>2, <2>1 DEF Editor
    <2> QED
      BY <2>2 DEF r
  <1> HIDE DEF n, p
  <1> DEFINE f == Front(pages)
  <1>7. f \in Seq(Page) /\ Len(f) = 1 /\ f[1] = pages[1]
    <2>1. 1 \in 1..(n - 1)
      BY <1>4
    <2> QED
      BY <1>1, <1>4, <2>1, FrontIs DEF n
  <1>8. index' = Add
    <2>1. f # <<>> /\ Last(f).kind = "book"
      <3>1. f[1].kind = "book"
        BY <1>1, <1>4, <1>7
      <3> HIDE DEF f
      <3>2. f # <<>>
        <4> DEFINE len == Len(f)
        <4>1. len = 1
          BY <1>7, Zenon
        <4>2. Len(<<>>) = 0
          OBVIOUS
        <4>3. f = <<>> => len = 0
          BY <4>2, Zenon
        <4> HIDE DEF len
        <4> QED
          BY <4>1, <4>3
      <3>3. Last(f) = f[1]
        BY <1>7 DEF Last
      <3> QED
        BY <3>1, <3>2, <3>3
    <2> QED
      BY <1>1, <2>1 DEF IndexShown
  <1> HIDE DEF f
  <1>9. below \in Seq(Page) /\ Len(below) = 1 /\ below[1].kind = "book" /\ below[1].list = book
    <2>1. Shown(f) \in Seq(Page) /\ Len(Shown(f)) = Len(f)
      BY <1>1, <1>7, ShownIs
    <2>2. 1 \in 1..Len(f)
      BY <1>7
    <2>3. Shown(f)[1].kind = f[1].kind /\ (f[1].kind = "book" => Shown(f)[1].list = book')
      BY <1>1, <1>7, <2>2, ShownIs
    <2> QED
      BY <1>1, <1>4, <1>7, <2>1, <2>3 DEF f
  <1> HIDE DEF below
  <1>10. p \in Page /\ below \in Seq(Page)
    BY <1>5, <1>9, Zenon DEF Page
  <1>11. /\ pages' \in Seq(Page) /\ Len(pages') = 2 /\ pages'[2] = p /\ pages'[1] = below[1]
    <2>1. pages' = Append(below, p)
      BY <1>1 DEF below
    <2>2. /\ Append(below, p) \in Seq(Page) /\ Len(Append(below, p)) = Len(below) + 1
          /\ Append(below, p)[Len(below) + 1] = p
          /\ \A i \in 1..Len(below) : Append(below, p)[i] = below[i]
      BY <1>10, AppendIs
    <2>3. Len(below) + 1 = 2 /\ 1 \in 1..Len(below)
      BY <1>9
    <2> QED
      BY <2>1, <2>2, <2>3
  <1>12. \A i \in 1..2 : i = 1 \/ i = 2
    OBVIOUS
  <1>13. Typed'
    BY <1>1, <1>8, <1>11 DEF Typed
  <1>14. BookFits'
    BY <1>1 DEF IInv, Inv, BookFits, Known
  <1>15. Order'
    BY <1>5, <1>9, <1>11, <1>12 DEF Order
  <1>16. PagesAgree'
    <2>1. ASSUME NEW i \in 1..2 PROVE Agrees(pages[i])'
      BY <1>1, <1>5, <1>9, <1>11, <1>12 DEF Agrees
    <2> QED
      BY <1>11, <2>1 DEF PagesAgree
  <1>17. Prompts'
    BY <1>5, <1>9, <1>11, <1>12 DEF Prompts
  <1>18. Rows'
    <2>1. EditorOf(Top)
      <3>1. n \in 1..n
        BY <1>4
      <3> QED
        BY <1>1, <1>2, <3>1 DEF IInv, Inv, Rows, n
    <2>2. index \in 1..Len(book) => index # Add
      BY ContactsAssumption DEF IInv, Inv, BookFits, Typed
    <2>3. ~(p.own # None /\ ~p.reset)
      BY <1>5, <1>6, <1>8, <2>1, <2>2 DEF EditorOf, RowOf
    <2>4. /\ p.proposed # None => ~Known(p.proposed)
          /\ p.laidOut => carried = None
      BY <1>5, <2>1 DEF EditorOf
    <2>5. ASSUME NEW i \in 1..2, pages'[i].kind = "editor" PROVE EditorOf(pages[i])'
      <3>1. pages'[i] = p
        BY <1>9, <1>11, <1>12, <2>5
      <3> QED
        BY <1>1, <1>8, <2>3, <2>4, <3>1 DEF EditorOf, Known
    <2> QED
      BY <1>8, <1>11, <2>5 DEF Rows
  <1> QED
    BY <1>13, <1>14, <1>15, <1>16, <1>17, <1>18 DEF IInv, Inv

\* The book is opened.
LEMMA OpenBookKeeps == ASSUME IInv, OpenBook PROVE IInv'
  <1> DEFINE p == BookPage(book)
  <1>1. /\ pages' = <<p>> /\ book' = book /\ carried' = carried /\ detail' = detail /\ asked' = asked
        /\ storedBy' = storedBy /\ index' = IndexShown(pages') /\ Typed /\ book \in Seq(Address)
    BY DEF OpenBook, IInv, Typed
  <1>2. p \in Page /\ p.kind = "book" /\ p.list = book
    BY <1>1 DEF BookPage, BookOf, Page
  <1> HIDE DEF p
  <1>3. pages' \in Seq(Page) /\ Len(pages') = 1 /\ pages'[1] = p /\ pages' # <<>>
    BY <1>1, <1>2
  <1>4. index' = Add
    BY <1>1, <1>2, <1>3 DEF IndexShown, Last
  <1>5. Typed'
    BY <1>1, <1>3, <1>4 DEF Typed
  <1>6. BookFits'
    BY <1>1 DEF IInv, Inv, BookFits, Known
  <1>7. Order' /\ Prompts' /\ Rows'
    BY <1>2, <1>3, <1>4 DEF Order, Prompts, Rows
  <1>8. PagesAgree'
    BY <1>1, <1>2, <1>3 DEF PagesAgree, Agrees
  <1> QED
    BY <1>5, <1>6, <1>7, <1>8 DEF IInv, Inv

\* The book on top: it shows the book, and no row is named.
LEMMA BookOnTop ==
    ASSUME IInv, OnTop("book")
    PROVE  /\ Top = pages[Len(pages)] /\ Len(pages) = 1 /\ pages # <<>> /\ pages \in Seq(Page)
           /\ Top.kind = "book" /\ Top.list = book /\ index = Add /\ book \in Seq(Address)
  <1>1. pages # <<>> /\ Top.kind = "book" /\ Typed /\ pages \in Seq(Page) /\ book \in Seq(Address)
    BY DEF OnTop, IInv, Typed
  <1> DEFINE n == Len(pages)
  <1>2. Top = pages[n] /\ n \in Nat \ {0}
    BY <1>1, TopIs
  <1> HIDE DEF n
  <1>3. n \in 1..n
    BY <1>2
  <1>4. n = 1 /\ Top.list = book /\ index = Add
    BY <1>1, <1>2, <1>3 DEF IInv, Inv, Order, PagesAgree, Agrees, Rows, n
  <1> QED
    BY <1>1, <1>2, <1>4 DEF n

\* An editor for a new contact, with no row named.
LEMMA NewContactKeeps == ASSUME IInv, NewContact PROVE IInv'
  <1> DEFINE p == EditorPage(None)
  <1>1. /\ pages' = Append(pages, p)
        /\ book' = book /\ index' = index /\ carried' = carried /\ detail' = detail
        /\ asked' = asked /\ storedBy' = storedBy /\ OnTop("book") /\ Typed
    BY DEF NewContact, stored, IInv
  <1>2. pages \in Seq(Page) /\ Len(pages) = 1 /\ pages[1].kind = "book" /\ index = Add
    BY <1>1, BookOnTop
  <1>3. p \in Page /\ p.kind = "editor" /\ p.own = None /\ p.proposed = None /\ ~p.laidOut
    BY DEF EditorPage, Editor, Page
  <1> HIDE DEF p
  <1>4. Typed'
    <2>1. pages' \in Seq(Page)
      BY <1>1, <1>2, <1>3
    <2> QED
      BY <1>1, <2>1 DEF Typed
  <1>5. BookFits'
    BY <1>1 DEF IInv, Inv, BookFits, Known
  <1>6. EditorOf(p)'
    BY <1>1, <1>2, <1>3 DEF EditorOf, p, EditorPage
  <1>7. \A i \in 1..Len(pages) : pages[i].kind = "book"
    BY <1>2
  <1> QED
    BY <1>1, <1>2, <1>3, <1>4, <1>5, <1>6, <1>7, PushKeeps

\* An editor for an entry, with its row named.
LEMMA EditContactKeeps ==
    ASSUME IInv, NEW i \in 1..MaxBook, EditContact(i) PROVE IInv'
  <1>1. /\ book' = book /\ index' = i /\ carried' = carried /\ detail' = detail
        /\ asked' = asked /\ storedBy' = storedBy /\ OnTop("book") /\ Typed
        /\ i \in DOMAIN Top.list /\ pages' = Append(pages, EditorPage(Top.list[i]))
    BY DEF EditContact, IInv
  <1>2. /\ pages \in Seq(Page) /\ Len(pages) = 1 /\ pages[1].kind = "book"
        /\ Top.list = book /\ book \in Seq(Address)
    BY <1>1, BookOnTop
  <1>3. PICK own \in Address : own = book[i]
    BY <1>1, <1>2
  <1> DEFINE p == EditorPage(own)
  <1>4. pages' = Append(pages, p) /\ i \in 1..Len(book)
    BY <1>1, <1>2, <1>3
  <1>5. p \in Page /\ p.kind = "editor" /\ p.own = own /\ p.proposed = None /\ ~p.laidOut
    BY DEF EditorPage, Editor, Page
  <1> HIDE DEF p
  <1>6. Typed'
    <2>1. pages' \in Seq(Page)
      BY <1>2, <1>4, <1>5
    <2> QED
      BY <1>1, <2>1 DEF Typed
  <1>7. BookFits'
    BY <1>1 DEF IInv, Inv, BookFits, Known
  <1>8. EditorOf(p)'
    BY <1>1, <1>3, <1>4 DEF EditorOf, RowOf, p, EditorPage
  <1>9. \A j \in 1..Len(pages) : pages[j].kind = "book"
    BY <1>2
  <1> QED
    BY <1>1, <1>2, <1>4, <1>5, <1>6, <1>7, <1>8, <1>9, PushKeeps

\* One entry less.
LEMMA RemoveIs ==
    ASSUME NEW S, NEW s \in Seq(S), NEW k \in 1..Len(s)
    PROVE  /\ RemoveAt(s, k) \in Seq(S)
           /\ Len(s) \in Nat \ {0}
           /\ Len(RemoveAt(s, k)) = Len(s) - 1
           /\ \A i \in 1..(Len(s) - 1) : RemoveAt(s, k)[i] = IF i < k THEN s[i] ELSE s[i + 1]
  <1> DEFINE n == Len(s)
             a == SubSeq(s, 1, k - 1)
             b == SubSeq(s, k + 1, n)
  <1>1. n \in Nat \ {0} /\ k \in 1..n
    OBVIOUS
  <1>2. a \in Seq(S) /\ Len(a) = k - 1 /\ \A i \in 1..(k - 1) : a[i] = s[i]
    BY <1>1
  <1>3. b \in Seq(S) /\ Len(b) = n - k /\ \A i \in 1..(n - k) : b[i] = s[k + i]
    BY <1>1
  <1> HIDE DEF n, a, b
  <1>4. /\ a \o b \in Seq(S) /\ Len(a \o b) = n - 1
    <2>1. a \in Seq(S) /\ b \in Seq(S)
      BY <1>2, <1>3
    <2>2. a \o b \in Seq(S) /\ Len(a \o b) = Len(a) + Len(b)
      BY <2>1
    <2> HIDE DEF a, b
    <2>3. (k - 1) + (n - k) = n - 1
      BY <1>1
    <2> QED
      BY <1>2, <1>3, <2>2, <2>3
  <1>5. ASSUME NEW i \in 1..(n - 1) PROVE (a \o b)[i] = IF i < k THEN s[i] ELSE s[i + 1]
    <2>1. CASE i < k
      <3>1. i \in 1..(k - 1)
        BY <1>1, <2>1
      <3>2. (a \o b)[i] = a[i]
        BY <1>1, <1>2, <1>3, <3>1
      <3> QED
        BY <1>2, <2>1, <3>1, <3>2
    <2>2. CASE ~(i < k)
      <3>1. i - (k - 1) \in 1..(n - k) /\ k + (i - (k - 1)) = i + 1
        BY <1>1, <2>2
      <3>2. (a \o b)[i] = b[i - (k - 1)]
        BY <1>1, <1>2, <1>3, <2>2
      <3> QED
        BY <1>3, <2>2, <3>1, <3>2
    <2> QED
      BY <2>1, <2>2
  <1>6. RemoveAt(s, k) = a \o b
    BY DEF RemoveAt, a, b, n
  <1> QED
    BY <1>1, <1>4, <1>5, <1>6 DEF n

\* The book page stores its list without an entry.
LEMMA DeleteContactKeeps ==
    ASSUME IInv, NEW k \in 1..MaxBook, DeleteContact(k) PROVE IInv'
  <1> DEFINE m == Len(book)
             p == BookPage(book')
  <1>1. /\ k \in DOMAIN Top.list /\ book' = RemoveAt(Top.list, k) /\ pages' = Covering(p)
        /\ index' = index /\ carried' = carried /\ detail' = detail /\ asked' = asked
        /\ storedBy' = storedBy /\ OnTop("book") /\ Typed
    BY DEF DeleteContact, IInv
  <1>2. /\ pages \in Seq(Page) /\ pages # <<>> /\ Len(pages) = 1
        /\ Top.list = book /\ book \in Seq(Address) /\ index = Add
    BY <1>1, BookOnTop
  <1>3. k \in 1..m /\ book' = RemoveAt(book, k)
    BY <1>1, <1>2
  <1>4. /\ book' \in Seq(Address) /\ m \in Nat \ {0} /\ Len(book') = m - 1
        /\ \A i \in 1..(m - 1) : book'[i] = IF i < k THEN book[i] ELSE book[i + 1]
    BY <1>2, <1>3, RemoveIs
  <1> HIDE DEF m
  <1>5. \A i \in 1..(m - 1) : i \in 1..m /\ i + 1 \in 1..m
    BY <1>4
  <1>6. /\ m <= MaxBook /\ \A i, j \in 1..m : book[i] = book[j] => i = j
        /\ carried # None => ~Known(carried)
    BY DEF IInv, Inv, BookFits, m
  <1>7. Len(book') <= MaxBook
    BY <1>4, <1>6, ContactsAssumption
  <1>8. ASSUME NEW i \in 1..(m - 1), NEW j \in 1..(m - 1), book'[i] = book'[j] PROVE i = j
    <2>1. (IF i < k THEN book[i] ELSE book[i + 1]) = (IF j < k THEN book[j] ELSE book[j + 1])
      BY <1>4, <1>8
    <2>2. (IF i < k THEN i ELSE i + 1) = (IF j < k THEN j ELSE j + 1)
      BY <1>5, <1>6, <2>1
    <2> QED
      BY <1>3, <2>2
  <1>9. p \in Page /\ p.kind = "book" /\ p.list = book'
    BY <1>4 DEF BookPage, BookOf, Page
  <1> HIDE DEF p
  <1>10. pages' \in Seq(Page) /\ Len(pages') = 1 /\ pages'[1] = p
    BY <1>1, <1>2, <1>9, CoveringIs
  <1>11. Typed'
    BY <1>1, <1>4, <1>10 DEF Typed
  <1>12. BookFits'
    <2>1. ASSUME carried # None PROVE ~Known(carried)'
      <3>1. \A i \in 1..m : book[i] # carried
        BY <1>1, <1>6, <2>1, KnownIs DEF m
      <3>2. \A i \in 1..(m - 1) : book'[i] # carried
        BY <1>4, <1>5, <3>1
      <3>3. DOMAIN book' = 1..(m - 1)
        BY <1>4
      <3> QED
        BY <1>1, <3>2, <3>3 DEF Known, ToSet
    <2> QED
      BY <1>1, <1>4, <1>7, <1>8, <2>1 DEF BookFits
  <1>13. Order' /\ Prompts' /\ Rows'
    BY <1>1, <1>2, <1>9, <1>10 DEF Order, Prompts, Rows
  <1>14. PagesAgree'
    BY <1>9, <1>10 DEF PagesAgree, Agrees
  <1> QED
    BY <1>11, <1>12, <1>13, <1>14 DEF IInv, Inv

\* What was stored stays, and no page is open.
LEMMA RestartKeeps == ASSUME IInv, Restart PROVE IInv'
  <1>1. /\ book' = book /\ index' = index /\ carried' = carried /\ detail' = detail
        /\ pages' = <<>> /\ asked' = [q \in Request |-> None] /\ storedBy' = None
    BY DEF Restart, stored
  <1>2. <<>> \in Seq(Page) /\ Len(<<>>) = 0
    OBVIOUS
  <1>3. Typed'
    BY <1>1, <1>2 DEF IInv, Typed
  <1>4. BookFits'
    BY <1>1 DEF IInv, Inv, BookFits, Known
  <1>5. Order' /\ PagesAgree' /\ Prompts' /\ Rows'
    BY <1>1, <1>2 DEF Order, PagesAgree, Prompts, Rows
  <1> QED
    BY <1>3, <1>4, <1>5 DEF IInv, Inv

\* Nothing changes.
LEMMA StutterKeeps == ASSUME IInv, UNCHANGED vars PROVE IInv'
  BY DEF vars, stored, IInv, Typed, Inv, BookFits, Order, PagesAgree, Agrees, Prompts, Rows,
         EditorOf, RowOf, Known

\* Every step keeps the invariant.
LEMMA StepIInv == IInv /\ [Next]_vars => IInv'
  <1> SUFFICES ASSUME IInv, [Next]_vars PROVE IInv'
    OBVIOUS
  <1>1. CASE \E q \in Request : DetailsArrive(q) \/ NoDetails(q)
    BY <1>1, DetailsArriveKeeps, NoDetailsKeeps
  <1>2. CASE \E q \in Request, t \in Tx : OpenDetails(t, q) \/ RatingSent(t, q)
    BY <1>2, OpenDetailsKeeps, RatingSentKeeps
  <1>3. CASE AddProposed
    BY <1>3, AddProposedKeeps
  <1>4. CASE CancelProposed \/ TapRating \/ SendRating \/ NoRating
    BY <1>4, CoverActionsKeep
  <1>5. CASE OpenRating
    BY <1>5, OpenRatingKeeps
  <1>6. CASE OpenBook
    BY <1>6, OpenBookKeeps
  <1>7. CASE NewContact
    BY <1>7, NewContactKeeps
  <1>8. CASE LayOut
    BY <1>8, LayOutKeeps
  <1>9. CASE \E i \in 1..MaxBook : EditContact(i) \/ DeleteContact(i)
    BY <1>9, EditContactKeeps, DeleteContactKeeps
  <1>10. CASE \E a \in Address : Save(a)
    BY <1>10, SaveKeeps
  <1>11. CASE Back
    BY <1>11, BackKeeps
  <1>12. CASE SwipeCancelled
    BY <1>12, SwipeCancelledKeeps
  <1>13. CASE Restart
    BY <1>13, RestartKeeps
  <1>14. CASE UNCHANGED vars
    BY <1>14, StutterKeeps
  <1> QED
    BY <1>1, <1>2, <1>3, <1>4, <1>5, <1>6, <1>7, <1>8, <1>9, <1>10, <1>11, <1>12, <1>13, <1>14 DEF Next

\* The invariant holds.
LEMMA Invariant == Spec => []IInv
  BY InitIInv, StepIInv, PTL DEF Spec

\* What Rows says of an editor on top.
LEMMA FitsEditor == IInv => EditorFits
  <1> SUFFICES ASSUME IInv, OnTop("editor")
               PROVE  /\ index \in DOMAIN book \cup {Add}
                      /\ Top.proposed # None => ~Known(Top.proposed)
    BY DEF EditorFits
  <1>1. pages # <<>> /\ Top.kind = "editor" /\ Typed
    BY DEF OnTop, IInv
  <1>2. Top = pages[Len(pages)] /\ Len(pages) \in 1..Len(pages)
    BY <1>1, TopIs
  <1>3. EditorOf(Top)
    BY <1>1, <1>2 DEF IInv, Inv, Rows
  <1>4. DOMAIN book = 1..Len(book)
    BY <1>1 DEF Typed
  <1> QED
    BY <1>3, <1>4 DEF EditorOf, RowOf

\* An editor that opens finds the row it unwraps and can save what it proposes.
THEOREM EditorAlwaysFits == Spec => []EditorFits
  BY Invariant, FitsEditor, PTL

-----------------------------------------------------------------------------
\* What a step does to the book.
Kept ==
    /\ IsInjective(book')
    /\ \/ Gone = {}
       \/ OnTop("book") /\ Cardinality(Gone) = 1
       \/ OnTop("editor") /\ Gone = {Top.own}
    /\ OnTop("editor") /\ book' # book /\ Top.own # None /\ ~Top.reset =>
           Gone = {Top.own} /\ Len(book') = Len(book)

\* The addresses of a list.
LEMMA EntriesAre ==
    ASSUME NEW s \in Seq(Address)
    PROVE  \A x : x \in ToSet(s) <=> \E i \in 1..Len(s) : s[i] = x
  BY DEF ToSet

\* A deletion takes the entry of one row.
LEMMA DeleteContactTakesOne ==
    ASSUME IInv, NEW k \in 1..MaxBook, DeleteContact(k)
    PROVE  OnTop("book") /\ Cardinality(Gone) = 1 /\ ~OnTop("editor")
  <1> DEFINE m == Len(book)
  <1>1. /\ OnTop("book") /\ k \in DOMAIN Top.list /\ book' = RemoveAt(Top.list, k)
        /\ Top.list = book /\ book \in Seq(Address) /\ Top.kind = "book"
    BY BookOnTop DEF DeleteContact
  <1>2. k \in 1..m /\ book' = RemoveAt(book, k) /\ m \in Nat
    BY <1>1
  <1>3. /\ book' \in Seq(Address) /\ Len(book') = m - 1
        /\ \A i \in 1..(m - 1) : book'[i] = IF i < k THEN book[i] ELSE book[i + 1]
    BY <1>1, <1>2, RemoveIs
  <1>4. \A i, j \in 1..m : book[i] = book[j] => i = j
    BY DEF IInv, Inv, BookFits
  <1> HIDE DEF m
  <1>5. ASSUME NEW i \in 1..(m - 1) PROVE book'[i] # book[k]
    <2>1. PICK j \in 1..m : j # k /\ book'[i] = book[j]
      <3>1. CASE i < k
        BY <1>2, <1>3, <3>1
      <3>2. CASE ~(i < k)
        <4>1. i + 1 \in 1..m /\ i + 1 # k /\ book'[i] = book[i + 1]
          BY <1>2, <1>3, <3>2
        <4> QED
          BY <4>1
      <3> QED
        BY <3>1, <3>2
    <2> QED
      BY <1>2, <1>4, <2>1
  <1>6. ASSUME NEW j \in 1..m, j # k PROVE \E i \in 1..(m - 1) : book'[i] = book[j]
    <2>1. CASE j < k
      BY <1>2, <1>3, <2>1
    <2>2. CASE ~(j < k)
      <3>1. j - 1 \in 1..(m - 1) /\ ~(j - 1 < k) /\ (j - 1) + 1 = j
        BY <1>2, <1>6, <2>2
      <3>2. book'[j - 1] = book[j]
        BY <1>3, <3>1
      <3> QED
        BY <3>1, <3>2
    <2> QED
      BY <2>1, <2>2
  <1>7. \A x : x \in ToSet(book) <=> \E i \in 1..m : book[i] = x
    BY <1>1, EntriesAre DEF m
  <1>8. \A x : x \in ToSet(book') <=> \E i \in 1..(m - 1) : book'[i] = x
    BY <1>3, EntriesAre
  <1>9. Gone = {book[k]}
    BY <1>2, <1>5, <1>6, <1>7, <1>8 DEF Gone
  <1>10. ~OnTop("editor")
    BY <1>1 DEF OnTop
  <1> QED
    BY <1>1, <1>9, <1>10, FS_Singleton

\* A save takes nothing, or the entry that the editor was opened for.
LEMMA SaveTakesOwn ==
    ASSUME IInv, NEW a \in Address, Save(a)
    PROVE  /\ OnTop("editor")
           /\ Gone = {} \/ Gone = {Top.own}
           /\ Top.own # None /\ ~Top.reset => Gone = {Top.own} /\ Len(book') = Len(book)
  <1> DEFINE m == Len(book)
  <1>1. /\ pages # <<>> /\ OnTop("editor") /\ Top.kind = "editor" /\ ~Known(a)
        /\ Typed /\ book \in Seq(Address)
    BY DEF Save, Refused, OnTop, IInv, Typed
  <1>2. Top = pages[Len(pages)] /\ Len(pages) \in 1..Len(pages)
    BY <1>1, TopIs
  <1>3. EditorOf(Top)
    BY <1>1, <1>2 DEF IInv, Inv, Rows
  <1>4. m \in Nat /\ m <= MaxBook /\ \A i, j \in 1..m : book[i] = book[j] => i = j
    BY <1>1 DEF IInv, Inv, BookFits
  <1>5. \A i \in 1..m : book[i] # a
    BY <1>1, KnownIs
  <1>6. \A x : x \in ToSet(book) <=> \E i \in 1..m : book[i] = x
    BY <1>1, EntriesAre
  <1>7. index \in 1..m => index # Add
    BY <1>4, ContactsAssumption
  <1> HIDE DEF m
  <1>8. CASE index = Add /\ book' = Append(book, a)
    <2>1. /\ book' \in Seq(Address) /\ Len(book') = m + 1
          /\ \A i \in 1..m : book'[i] = book[i]
      BY <1>1, <1>8 DEF m
    <2>2. \A i \in 1..m : i \in 1..(m + 1)
      BY <1>4
    <2>3. \A x : x \in ToSet(book') <=> \E i \in 1..(m + 1) : book'[i] = x
      BY <2>1, EntriesAre
    <2>4. Gone = {}
      BY <1>6, <2>1, <2>2, <2>3 DEF Gone
    <2>5. ~(Top.own # None /\ ~Top.reset)
      BY <1>3, <1>7, <1>8 DEF EditorOf, RowOf, m
    <2> QED
      BY <1>1, <2>4, <2>5
  <1>9. CASE index # Add /\ book' = ReplaceAt(book, index, a)
    <2>1. index \in 1..m /\ book[index] = Top.own
      BY <1>3, <1>9 DEF EditorOf, RowOf, m
    <2>2. /\ book' \in Seq(Address) /\ Len(book') = m
          /\ \A i \in 1..m : book'[i] = IF i = index THEN a ELSE book[i]
      BY <1>1, <1>9, <2>1 DEF ReplaceAt, m
    <2>3. \A x : x \in ToSet(book') <=> \E i \in 1..m : book'[i] = x
      BY <2>2, EntriesAre
    <2>4. Gone = {Top.own}
      BY <1>4, <1>5, <1>6, <2>1, <2>2, <2>3 DEF Gone
    <2> QED
      BY <1>1, <2>2, <2>4 DEF m
  <1> QED
    BY <1>8, <1>9 DEF Save

\* No other action changes the book.
LEMMA StepKept == ASSUME IInv, IInv', [Next]_vars PROVE Kept
  <1>1. IsInjective(book')
    <2>1. DOMAIN book' = 1..Len(book')
      BY DEF IInv, Typed
    <2> QED
      BY <2>1 DEF IInv, Inv, BookFits, IsInjective
  <1>2. CASE book' = book
    <2>1. Gone = {}
      BY <1>2 DEF Gone
    <2> QED
      BY <1>1, <1>2, <2>1 DEF Kept
  <1>3. CASE \E k \in 1..MaxBook : DeleteContact(k)
    BY <1>1, <1>3, DeleteContactTakesOne DEF Kept
  <1>4. CASE \E a \in Address : Save(a)
    BY <1>1, <1>4, SaveTakesOwn DEF Kept
  <1>5. book' = book \/ (\E k \in 1..MaxBook : DeleteContact(k)) \/ (\E a \in Address : Save(a))
    BY DEF Next, vars, stored, DetailsArrive, NoDetails, OpenDetails, RatingSent, PushDetails,
           AddProposed, CancelProposed, OpenRating, TapRating, SendRating, NoRating, OpenBook,
           NewContact, LayOut, EditContact, Back, SwipeCancelled, Restart
  <1> QED
    BY <1>2, <1>3, <1>4, <1>5

\* The book stays a list of different addresses, and an entry leaves it only alone and by
\* the user: deleted, or replaced in the editor that was opened for it, which does replace
\* it unless the row was reset under it.
THEOREM BookIsKept == Spec => BookKept
  <1>1. IInv /\ IInv' /\ [Next]_vars => [Kept]_vars
    BY StepKept
  <1>2. Spec => [][Kept]_vars
    BY <1>1, Invariant, PTL DEF Spec
  <1> QED
    BY <1>2 DEF BookKept, Kept

-----------------------------------------------------------------------------
\* What a step does to a rating that nothing is asked about.
Shows ==
    \A i \in 2..Len(pages) :
        /\ pages[i].kind = "rating"
        /\ pages[i].target = None
        /\ i \in DOMAIN pages'
        /\ pages'[i].target # None
        /\ pages[i - 1].showing
        /\ storedBy = pages[i - 1].request
        => pages'[i].target = pages[i - 1].tx

\* It is on the details it is about; only when it is tapped something is asked.
LEMMA TapRatingShows == ASSUME IInv, TapRating PROVE Shows
  <1> DEFINE n == Len(pages)
             p == [Top EXCEPT !.target = detail]
  <1>1. /\ pages # <<>> /\ Top.kind = "rating" /\ pages' = Covering(p) /\ Typed
        /\ detail \in Tx \cup {None} /\ pages \in Seq(Page)
    BY DEF TapRating, OnTop, IInv, Typed
  <1>2. Top \in RatingOf /\ Top = pages[n] /\ n \in Nat \ {0}
    BY <1>1, TopIs, PageKinds
  <1>3. p \in RatingOf /\ p.target = detail
    BY <1>1, <1>2 DEF RatingOf
  <1>4. p \in Page
    BY <1>3 DEF Page
  <1> HIDE DEF p, n
  <1>5. pages'[n] = p /\ \A i \in 1..(n - 1) : pages'[i] = pages[i]
    BY <1>1, <1>4, CoveringIs DEF n
  <1>6. ASSUME NEW i \in 2..n, pages[i].kind = "rating", pages[i].target = None,
               pages'[i].target # None, pages[i - 1].showing, storedBy = pages[i - 1].request
        PROVE  pages'[i].target = pages[i - 1].tx
    <2>1. i \in 1..n /\ i - 1 \in 1..n /\ (i # n => i \in 1..(n - 1))
      BY <1>2
    <2>2. i = n
      BY <1>5, <1>6, <2>1
    <2>3. pages[i - 1].kind = "details"
      BY <1>6, <2>1 DEF IInv, Inv, Order, n
    <2>4. Agrees(pages[i - 1])
      BY <2>1 DEF IInv, Inv, PagesAgree, n
    <2>5. detail = pages[i - 1].tx
      BY <1>6, <2>3, <2>4 DEF Agrees
    <2> QED
      BY <1>3, <1>5, <2>2, <2>5
  <1> QED
    BY <1>6 DEF Shows, n

\* Pages that are covered are not changed, the page on top is no rating or asks nothing.
LEMMA CoverShows ==
    ASSUME IInv, pages # <<>>, NEW p \in Page,
           pages' = Covering(p) \/ \E e \in Page : pages' = Append(Covering(p), e),
           Top.kind = "rating" /\ Top.target = None => p.target = None
    PROVE  Shows
  <1> DEFINE n == Len(pages)
             below == Covering(p)
  <1>1. Top = pages[n] /\ n \in Nat \ {0}
    BY TopIs DEF IInv
  <1>2. /\ below \in Seq(Page) /\ Len(below) = n /\ below[n] = p
        /\ \A i \in 1..(n - 1) : below[i] = pages[i]
    BY CoveringIs DEF IInv
  <1>3. pages' = below \/ \E e \in Page : pages' = Append(below, e)
    OBVIOUS
  <1> HIDE DEF n, below
  <1>4. \A i \in 1..n : pages'[i] = below[i]
    <2>1. CASE pages' = below
      BY <2>1
    <2>2. CASE \E e \in Page : pages' = Append(below, e)
      BY <1>2, <2>2, AppendIs
    <2> QED
      BY <1>3, <2>1, <2>2
  <1>5. ASSUME NEW i \in 2..n, pages[i].kind = "rating", pages[i].target = None
        PROVE  pages'[i].target = None
    <2>1. i \in 1..n /\ (i # n => i \in 1..(n - 1))
      BY <1>1
    <2>2. CASE i = n
      BY <1>1, <1>2, <1>4, <1>5, <2>1, <2>2
    <2>3. CASE i # n
      BY <1>2, <1>4, <1>5, <2>1, <2>3
    <2> QED
      BY <2>2, <2>3
  <1> QED
    BY <1>5 DEF Shows, n

\* A page is pushed and no page changed.
LEMMA PushShows == ASSUME IInv, NEW p \in Page, pages' = Append(pages, p) PROVE Shows
  <1>1. pages \in Seq(Page)
    BY DEF IInv, Typed
  <1>2. Len(pages) \in Nat /\ \A i \in 1..Len(pages) : pages'[i] = pages[i]
    BY <1>1, AppendIs
  <1>3. \A i \in 2..Len(pages) : i \in 1..Len(pages)
    BY <1>2
  <1> QED
    BY <1>2, <1>3 DEF Shows

\* No rating is on top of one page or of none.
LEMMA FewShow == ASSUME IInv, Len(pages) \in {0, 1} PROVE Shows
  <1>1. 2..Len(pages) = {}
    OBVIOUS
  <1> QED
    BY <1>1 DEF Shows

\* Pages below are no other ratings than before.
LEMMA PopShows ==
    ASSUME IInv, pages # <<>>, book' \in Seq(Address), pages' = Shown(Front(pages))
    PROVE  Shows
  <1> DEFINE n == Len(pages)
             below == Front(pages)
  <1>1. n \in Nat \ {0} /\ pages \in Seq(Page)
    BY TopIs DEF IInv, Typed
  <1>2. below \in Seq(Page) /\ Len(below) = n - 1 /\ \A i \in 1..(n - 1) : below[i] = pages[i]
    BY <1>1, FrontIs
  <1>3. pages' = Shown(below)
    OBVIOUS
  <1> HIDE DEF n, below
  <1>4. DOMAIN pages' = 1..(n - 1)
    BY <1>2, <1>3, ShownIs
  <1>5. \A i \in 1..(n - 1) : pages[i].kind = "rating" => pages'[i] = pages[i]
    BY <1>2, <1>3, ShownIs
  <1> QED
    BY <1>4, <1>5 DEF Shows

\* An answer changes no rating.
LEMMA DetailsArriveShows == ASSUME IInv, NEW q \in Request, DetailsArrive(q) PROVE Shows
  <1>1. Typed /\ pages' = PagesShow(q, asked[q]) /\ asked[q] \in Tx /\ Len(pages) \in Nat
    BY DEF DetailsArrive, IInv, Typed
  <1>2. \A i \in 1..Len(pages) : pages[i].kind = "rating" => pages'[i] = pages[i]
    BY <1>1, PagesShowIs
  <1>3. \A i \in 2..Len(pages) : i \in 1..Len(pages)
    BY <1>1
  <1> QED
    BY <1>2, <1>3 DEF Shows

\* A rating that was sent asks nothing any more.
LEMMA RatingSentShows ==
    ASSUME IInv, NEW t \in Tx, NEW q \in Request, RatingSent(t, q) PROVE Shows
  <1> DEFINE p == [Top EXCEPT !.target = None, !.sending = FALSE]
             e == DetailsPage(t, q)
  <1>1. pages # <<>> /\ Top.kind = "rating" /\ pages' = Append(Covering(p), e)
    BY DEF RatingSent, PushDetails, OnTop
  <1>2. Top \in RatingOf
    BY <1>1, TopIs, PageKinds DEF IInv
  <1>3. p \in RatingOf /\ p.target = None
    BY <1>2 DEF RatingOf
  <1>4. p \in Page /\ e \in Page
    BY <1>3 DEF Page, Details, DetailsPage
  <1> HIDE DEF p, e
  <1> QED
    BY <1>1, <1>3, <1>4, CoverShows

\* Alerts on details change no rating.
LEMMA DetailsPromptShows == ASSUME IInv, AddProposed \/ CancelProposed PROVE Shows
  <1> DEFINE p == [Top EXCEPT !.prompt = None]
             e == EditorPage(None)
  <1>1. /\ pages # <<>> /\ Top.kind = "details"
        /\ pages' = Covering(p) \/ pages' = Append(Covering(p), e)
    BY DEF AddProposed, CancelProposed, OnTop
  <1>2. Top \in Details
    BY <1>1, TopIs, PageKinds DEF IInv
  <1>3. p \in Details
    BY <1>2 DEF Details
  <1>4. p \in Page /\ e \in Page
    BY <1>3 DEF Page, Editor, EditorPage
  <1> HIDE DEF p, e
  <1> QED
    BY <1>1, <1>4, CoverShows

\* What is sent was asked about.
LEMMA SendRatingShows == ASSUME IInv, SendRating PROVE Shows
  <1> DEFINE p == [Top EXCEPT !.sending = TRUE]
  <1>1. pages # <<>> /\ Top.kind = "rating" /\ Top.target # None /\ pages' = Covering(p)
    BY DEF SendRating, OnTop
  <1>2. Top \in RatingOf
    BY <1>1, TopIs, PageKinds DEF IInv
  <1>3. p \in RatingOf
    BY <1>2 DEF RatingOf
  <1>4. p \in Page
    BY <1>3 DEF Page
  <1> HIDE DEF p
  <1> QED
    BY <1>1, <1>4, CoverShows

\* A rating that fails asks nothing any more.
LEMMA NoRatingShows == ASSUME IInv, NoRating PROVE Shows
  <1> DEFINE p == [Top EXCEPT !.target = None, !.sending = FALSE]
  <1>1. pages # <<>> /\ Top.kind = "rating" /\ pages' = Covering(p)
    BY DEF NoRating, OnTop
  <1>2. Top \in RatingOf
    BY <1>1, TopIs, PageKinds DEF IInv
  <1>3. p \in RatingOf /\ p.target = None
    BY <1>2 DEF RatingOf
  <1>4. p \in Page
    BY <1>3 DEF Page
  <1> HIDE DEF p
  <1> QED
    BY <1>1, <1>3, <1>4, CoverShows

\* An editor is no rating.
LEMMA LayOutShows == ASSUME IInv, LayOut PROVE Shows
  <1> DEFINE p == [Top EXCEPT !.laidOut = TRUE, !.proposed = carried]
  <1>1. pages # <<>> /\ Top.kind = "editor" /\ pages' = Covering(p) /\ carried \in Address \cup {None}
    BY DEF LayOut, OnTop, IInv, Typed
  <1>2. Top \in Editor
    BY <1>1, TopIs, PageKinds DEF IInv
  <1>3. p \in Editor
    BY <1>1, <1>2 DEF Editor
  <1>4. p \in Page
    BY <1>3 DEF Page
  <1> HIDE DEF p
  <1> QED
    BY <1>1, <1>4, CoverShows

\* A swipe back to the book is from the editor on it.
LEMMA SwipeCancelledShows == ASSUME IInv, SwipeCancelled PROVE Shows
  <1> DEFINE n == Len(pages)
  <1>1. pages # <<>> /\ Top.kind = "editor" /\ n > 1 /\ pages[n - 1].kind = "book" /\ Typed
    BY DEF SwipeCancelled, OnTop, IInv
  <1>2. n \in Nat /\ Top = pages[n]
    BY <1>1, TopIs
  <1>3. n - 1 \in 1..n /\ n - 1 # n
    BY <1>1, <1>2
  <1>4. n = 2
    BY <1>1, <1>3, BookBelow
  <1> HIDE DEF n
  <1>5. \A i \in 2..n : pages[i].kind = "editor"
    BY <1>1, <1>2, <1>4
  <1> QED
    BY <1>5 DEF Shows, n

\* No step but a tap gives a rating its target.
LEMMA StepShows == ASSUME IInv, IInv', [Next]_vars PROVE Shows
  <1>1. pages \in Seq(Page) /\ book' \in Seq(Address)
    BY DEF IInv, Typed
  <1>2. CASE \E q \in Request : DetailsArrive(q)
    BY <1>2, DetailsArriveShows
  <1>3. CASE \E q \in Request : NoDetails(q)
    BY <1>3 DEF NoDetails, Shows
  <1>4. CASE pages = <<>>
    <2>1. Len(pages) = 0
      BY <1>4
    <2> QED
      BY <2>1, FewShow
  <1>5. CASE \E q \in Request, t \in Tx : RatingSent(t, q)
    BY <1>5, RatingSentShows
  <1>6. CASE AddProposed \/ CancelProposed
    BY <1>6, DetailsPromptShows
  <1>7. CASE OpenRating
    <2>1. Top \in Details
      BY <1>7, TopIs, PageKinds DEF OpenRating, OnTop, IInv
    <2>2. RatingPage(Top.tx) \in Page
      BY <2>1 DEF RatingPage, Details, RatingOf, Page
    <2> QED
      BY <1>7, <2>2, PushShows DEF OpenRating
  <1>8. CASE TapRating
    BY <1>8, TapRatingShows
  <1>9. CASE SendRating \/ NoRating
    BY <1>9, SendRatingShows, NoRatingShows
  <1>10. CASE NewContact \/ \E i \in 1..MaxBook : EditContact(i) \/ DeleteContact(i)
    <2>1. OnTop("book")
      BY <1>10 DEF NewContact, EditContact, DeleteContact
    <2>2. Len(pages) = 1
      BY <2>1, BookOnTop
    <2> QED
      BY <2>2, FewShow
  <1>11. CASE LayOut
    BY <1>11, LayOutShows
  <1>12. CASE (\E a \in Address : Save(a)) \/ Back
    <2>1. pages # <<>> /\ pages' = Shown(Front(pages))
      BY <1>12 DEF Save, Back, OnTop
    <2> QED
      BY <1>1, <2>1, PopShows
  <1>13. CASE SwipeCancelled
    BY <1>13, SwipeCancelledShows
  <1>14. CASE Restart
    <2>1. DOMAIN pages' = {}
      BY <1>14 DEF Restart
    <2> QED
      BY <2>1 DEF Shows
  <1>15. CASE UNCHANGED vars
    BY <1>15 DEF vars, Shows
  <1>16. OpenBook \/ (\E q \in Request, t \in Tx : OpenDetails(t, q)) => pages = <<>>
    BY DEF OpenBook, OpenDetails
  <1> QED
    BY <1>2, <1>3, <1>4, <1>5, <1>6, <1>7, <1>8, <1>9, <1>10, <1>11, <1>12, <1>13, <1>14,
       <1>15, <1>16 DEF Next

\* What is rated is the transaction that the details page below shows, when no other
\* answer came since.
THEOREM RatesWhatIsShown == Spec => RatesShown
  <1>1. IInv /\ IInv' /\ [Next]_vars => [Shows]_vars
    BY StepShows
  <1>2. Spec => [][Shows]_vars
    BY <1>1, Invariant, PTL DEF Spec
  <1> QED
    BY <1>2 DEF RatesShown, Shows

(***************************************************************************)
(* MnemonicConfirm.                                                         *)
(***************************************************************************)

\* Without removes one element of a sequence and moves those after it down.
LEMMA WithoutSeq ==
    ASSUME NEW S, NEW s \in Seq(S), NEW i \in DOMAIN s
    PROVE  /\ Without(s, i) \in Seq(S)
           /\ Len(Without(s, i)) = Len(s) - 1
           /\ \A j \in 1..(i - 1) : j \in DOMAIN Without(s, i) /\ Without(s, i)[j] = s[j]
<1> DEFINE n == Len(s) - 1
<1>1. i \in 1..Len(s) /\ n \in Nat
  OBVIOUS
<1>2. \A j \in 1..n : (IF j < i THEN s[j] ELSE s[j + 1]) \in S
  BY <1>1
<1>3. Without(s, i) = [j \in 1..n |-> IF j < i THEN s[j] ELSE s[j + 1]]
  BY DEF Without
<1>4. Without(s, i) \in [1..n -> S]
  BY <1>2, <1>3
<1>5. Without(s, i) \in Seq(S) /\ Len(Without(s, i)) = n
  BY <1>1, <1>4
<1>6. \A j \in 1..(i - 1) : j \in 1..n /\ Without(s, i)[j] = s[j]
  BY <1>1, <1>3
<1>7. QED
  BY <1>4, <1>5, <1>6

\* As many buttons as places, no two alike: every one is among them.
LEMMA AllPlaces ==
    ASSUME NEW f \in [Place -> Place], \A i, j \in Place : f[i] = f[j] => i = j
    PROVE  \A b \in Place : \E i \in Place : f[i] = b
<1>1. IsFiniteSet(Place)
  BY FS_Interval, PhraseAssumption DEF Place
<1>2. f \in Injection(Place, Place)
  BY Zenon DEF Injection, IsInjective
<1>3. f \in Surjection(Place, Place)
  BY <1>1, <1>2, FS_Injection, Zenon
<1>4. QED
  BY <1>3, Zenon DEF Surjection

(***************************************************************************)
(* Types.                                                                   *)
(***************************************************************************)

\* The types hold at first.
LEMMA TypeInit == CMInit => TypeOK
  BY PhraseAssumption DEF CMInit, TypeOK, Everywhere, Place

\* Every action keeps the types.
LEMMA TypeStep == TypeOK /\ [CMNext]_cmVars => TypeOK'
<1> SUFFICES ASSUME TypeOK, [CMNext]_cmVars PROVE TypeOK'
  OBVIOUS
<1>1. ASSUME NEW j \in Place, Draw(j) PROVE TypeOK'
  <2>1. j \in Place /\ N - drawn \in Place /\ drawn + 1 \in Place /\ drawn + 1 \in 0..N
    BY <1>1, PhraseAssumption DEF TypeOK, Draw, Place
  <2>2. start[j] \in 0..N /\ start[N - drawn] \in Place
    BY <2>1 DEF TypeOK, Place
  <2>3. start' \in [Place -> Place]
    BY <1>1, <2>1, <2>2 DEF TypeOK, Draw
  <2>4. result' \in [Place -> 0..N]
    BY <1>1, <2>1, <2>2 DEF TypeOK, Draw
  <2>5. QED
    BY <1>1, <2>1, <2>3, <2>4 DEF TypeOK, Draw, buttons
<1>2. ASSUME NEW b \in Place, Select(b) PROVE TypeOK'
  <2>1. chosen' \in Seq(Place) /\ selected' \in [Place -> BOOLEAN]
    BY <1>2 DEF TypeOK, Select
  <2>2. page' \in {"open", "left", "confirmed", "crashed"}
    BY <1>2 DEF TypeOK, Select
  <2>3. correctSelectIndex' \in 0..N /\ enabled' \in [Place -> BOOLEAN]
    <3>1. ~ OutOfRange => correctSelectIndex + 1 \in 0..N
      BY PhraseAssumption DEF TypeOK, OutOfRange
    <3>2. [enabled EXCEPT ![b] = FALSE] \in [Place -> BOOLEAN]
      BY DEF TypeOK
    <3>3. QED
      BY <1>2, <3>1, <3>2 DEF TypeOK, Select
  <2>4. UNCHANGED <<start, result, drawn, loaded>>
    BY <1>2 DEF Select, shuffle
  <2>5. QED
    BY <2>1, <2>2, <2>3, <2>4 DEF TypeOK
<1>3. ASSUME NEW b \in Place, Deselect(b) PROVE TypeOK'
  <2>1. chosen' \in Seq(Place)
    BY <1>3, WithoutSeq DEF TypeOK, Deselect
  <2>2. selected' \in [Place -> BOOLEAN] /\ page' \in {"open", "left", "confirmed", "crashed"}
    BY <1>3 DEF TypeOK, Deselect
  <2>3. UNCHANGED <<start, result, drawn, loaded, enabled, correctSelectIndex>>
    BY <1>3 DEF Deselect, shuffle
  <2>4. QED
    BY <2>1, <2>2, <2>3 DEF TypeOK
<1>4. CASE SwipeUnfinished \/ Leave \/ Confirm
  <2>1. Cleared /\ page' \in {"open", "left", "confirmed", "crashed"}
    BY <1>4 DEF SwipeUnfinished, Leave, Confirm, TypeOK
  <2>2. QED
    <3>1. 0 \in 0..N /\ <<>> \in Seq(Place) /\ FALSE \in BOOLEAN
      BY PhraseAssumption
    <3>2. QED
      BY <2>1, <3>1 DEF Cleared, TypeOK, shuffle
<1>5. CASE Reopen
  BY <1>5, PhraseAssumption DEF Reopen, TypeOK, Everywhere, Place
<1>6. CASE UNCHANGED cmVars
  BY <1>6 DEF TypeOK, cmVars, shuffle, buttons
<1>7. QED
  BY <1>1, <1>2, <1>3, <1>4, <1>5, <1>6 DEF CMNext

\* Every variable keeps the type of the field it stands for.
THEOREM TypeCorrect == CMSpec => []TypeOK
  BY TypeInit, TypeStep, PTL DEF CMSpec

(***************************************************************************)
(* The shuffle.  The numbers drawn and those that remain are all different. *)
(***************************************************************************)

ShuffleInv ==
    /\ \A i \in 1..drawn : result[i] \in Place
    /\ \A i, j \in 1..drawn : result[i] = result[j] => i = j
    /\ \A i, j \in 1..(N - drawn) : start[i] = start[j] => i = j
    /\ \A i \in 1..drawn : \A j \in 1..(N - drawn) : result[i] # start[j]

\* Drawing a word moves it from the words that are left to the buttons.
LEMMA ShuffleStep == TypeOK /\ ShuffleInv /\ [CMNext]_cmVars => ShuffleInv'
<1> SUFFICES ASSUME TypeOK, ShuffleInv, [CMNext]_cmVars PROVE ShuffleInv'
  OBVIOUS
<1>1. ASSUME NEW k \in Place, Draw(k) PROVE ShuffleInv'
  <2> DEFINE d == drawn
             r == N - drawn
  <2>1. d \in Nat /\ r \in Nat /\ r >= 1 /\ k \in 1..r /\ d + 1 \in Place /\ r \in Place
    BY <1>1, PhraseAssumption DEF TypeOK, Draw, Place
  <2>2. drawn' = d + 1 /\ N - drawn' = r - 1
    BY <1>1, <2>1, PhraseAssumption DEF Draw
  <2>3. /\ result'[d + 1] = start[k]
        /\ \A i \in 1..d : result'[i] = result[i]
    BY <1>1, <2>1, PhraseAssumption DEF TypeOK, Draw, Place
  <2>4. \A j \in 1..(r - 1) : start'[j] = IF j = k THEN start[r] ELSE start[j]
    <3>1. start' = [start EXCEPT ![k] = start[r]]
      BY <1>1 DEF Draw
    <3>2. \A j \in 1..(r - 1) : j \in Place
      BY <2>1, PhraseAssumption DEF Place
    <3>3. QED
      BY <3>1, <3>2 DEF TypeOK
  <2>5. start[k] \in Place
    BY DEF TypeOK
  <2>6. \A i \in 1..(d + 1) : result'[i] \in Place
    BY <2>1, <2>3, <2>5 DEF ShuffleInv
  <2>7. \A i, j \in 1..(d + 1) : result'[i] = result'[j] => i = j
    BY <2>1, <2>3 DEF ShuffleInv
  <2>8. \A i, j \in 1..(r - 1) : start'[i] = start'[j] => i = j
    BY <2>1, <2>4 DEF ShuffleInv
  <2>9. \A i \in 1..(d + 1) : \A j \in 1..(r - 1) : result'[i] # start'[j]
    BY <2>1, <2>3, <2>4 DEF ShuffleInv
  <2>10. QED
    BY <2>2, <2>6, <2>7, <2>8, <2>9 DEF ShuffleInv
<1>2. CASE Reopen
  BY <1>2, PhraseAssumption DEF Reopen, ShuffleInv, Place
<1>3. CASE UNCHANGED shuffle
  BY <1>3 DEF ShuffleInv, shuffle
<1>4. QED
  BY <1>1, <1>2, <1>3 DEF CMNext, cmVars, Select, Deselect, SwipeUnfinished, Leave, Confirm, Cleared

\* Before the shuffle every word is left.
LEMMA ShuffleInit == CMInit => ShuffleInv
  BY PhraseAssumption DEF CMInit, ShuffleInv, Place

\* The shuffle puts every word of the phrase on exactly one button.
THEOREM ShuffleCorrect == CMSpec => []EveryWordOnce
<1>1. ShuffleInv /\ TypeOK => EveryWordOnce
  BY PhraseAssumption DEF ShuffleInv, EveryWordOnce, Place
<1>2. QED
  BY <1>1, TypeInit, TypeStep, ShuffleInit, ShuffleStep, PTL DEF CMSpec

(***************************************************************************)
(* The words confirmed.  The inductive invariant adds that the confirmed    *)
(* buttons are different, that nothing is confirmed while the words are     *)
(* shuffled or after the page was cleared.                                  *)
(***************************************************************************)

ConfirmInv ==
    /\ ConfirmedSpellPhrase
    /\ loaded => \A i, j \in 1..correctSelectIndex : chosen[i] = chosen[j] => i = j
    /\ ~loaded => correctSelectIndex = 0
    /\ drawn < N => correctSelectIndex = 0
    /\ CrashOnlyAfterSwipe

\* At first no word is confirmed and no button chosen.
LEMMA ConfirmInit == CMInit => ConfirmInv
  BY PhraseAssumption DEF CMInit, ConfirmInv, ConfirmedSpellPhrase, CrashOnlyAfterSwipe,
     Everywhere, Place

\* Once as many words are confirmed as there are, no button can be tapped.
LEMMA NoneLeft ==
    ASSUME TypeOK, ConfirmInv, loaded, correctSelectIndex = N, NEW b \in Place
    PROVE  ~ enabled[b]
<1> DEFINE f == [i \in Place |-> chosen[i]]
<1>1. \A i \in Place : i \in 1..Len(chosen) /\ chosen[i] \in Place
  <2>1. chosen \in Seq(Place) /\ N <= Len(chosen)
    BY DEF TypeOK, ConfirmInv, ConfirmedSpellPhrase
  <2>2. \A i \in 1..Len(chosen) : chosen[i] \in Place
    BY <2>1
  <2>3. \A i \in Place : i \in 1..Len(chosen)
    BY <2>1, PhraseAssumption DEF Place
  <2>4. QED
    BY <2>2, <2>3
<1>2. f \in [Place -> Place]
  BY <1>1
<1>3. \A i, j \in Place : f[i] = f[j] => i = j
  BY DEF ConfirmInv, Place
<1>4. PICK i \in Place : f[i] = b
  <2> HIDE DEF f
  <2>1. \A c \in Place : \E i \in Place : f[i] = c
    BY <1>2, <1>3, AllPlaces
  <2>2. QED
    BY <2>1
<1>5. QED
  BY <1>4 DEF ConfirmInv, ConfirmedSpellPhrase, Place

\* A step that leaves the confirmed words alone.
LEMMA SameConfirmed ==
    ASSUME TypeOK, ConfirmInv, UNCHANGED <<result, drawn, loaded, enabled, correctSelectIndex>>,
           CrashOnlyAfterSwipe', correctSelectIndex <= Len(chosen'),
           \A i \in 1..correctSelectIndex : chosen'[i] = chosen[i]
    PROVE  ConfirmInv'
<1>1. \A i \in 1..correctSelectIndex : WordOn(chosen[i])' = WordOn(chosen[i])
  BY DEF WordOn
<1>2. loaded => ConfirmedSpellPhrase'
  BY <1>1 DEF ConfirmInv, ConfirmedSpellPhrase, WordOn
<1>3. QED
  BY <1>2 DEF ConfirmInv, ConfirmedSpellPhrase

\* Selecting a word confirms the next one or leaves the confirmed ones alone.
LEMMA SelectStep ==
    ASSUME TypeOK, ConfirmInv, NEW b \in Place, Select(b)
    PROVE  ConfirmInv'
<1>1. /\ UNCHANGED <<result, drawn, loaded>>
      /\ chosen' = Append(chosen, b)
      /\ chosen \in Seq(Place) /\ correctSelectIndex \in 0..N /\ enabled \in [Place -> BOOLEAN]
      /\ enabled[b] /\ drawn = N
  BY DEF Select, Clickable, TypeOK, shuffle
<1>2. \A i \in 1..Len(chosen) : chosen'[i] = chosen[i]
  BY <1>1
<1>3. chosen'[Len(chosen) + 1] = b /\ Len(chosen') = Len(chosen) + 1
  BY <1>1
<1>4. CASE ~ OutOfRange /\ IsNext(b)
  <2>1. /\ loaded /\ correctSelectIndex' = correctSelectIndex + 1
        /\ Len(chosen) = correctSelectIndex /\ correctSelectIndex < N
    <3>1. loaded /\ correctSelectIndex # N
      BY <1>4 DEF OutOfRange
    <3>2. correctSelectIndex' = correctSelectIndex + 1
      BY <1>4 DEF Select
    <3>3. Len(chosen) = correctSelectIndex
      BY <1>4 DEF IsNext
    <3>4. correctSelectIndex < N
      BY <1>1, <3>1, PhraseAssumption
    <3>5. QED
      BY <3>1, <3>2, <3>3, <3>4
  <2>2. enabled' = [enabled EXCEPT ![b] = FALSE] /\ page' = page
    BY <1>4 DEF Select
  <2>3. \A i \in 1..correctSelectIndex : chosen[i] # b
    BY <1>1, <2>1 DEF ConfirmInv, ConfirmedSpellPhrase
  <2>4. \A i \in 1..(correctSelectIndex + 1) : WordOn(chosen[i])' = Phrase[i]
    <3>1. WordOn(b) = Phrase[correctSelectIndex + 1]
      BY <1>4 DEF IsNext
    <3>2. \A i \in 1..correctSelectIndex : WordOn(chosen[i]) = Phrase[i]
      BY <2>1 DEF ConfirmInv, ConfirmedSpellPhrase
    <3>3. QED
      BY <1>1, <1>2, <1>3, <2>1, <3>1, <3>2 DEF WordOn
  <2>5. \A c \in Place : ~ enabled'[c] <=> \E i \in 1..(correctSelectIndex + 1) : chosen'[i] = c
    <3>1. \A c \in Place : ~ enabled[c] <=> \E i \in 1..correctSelectIndex : chosen[i] = c
      BY <2>1 DEF ConfirmInv, ConfirmedSpellPhrase
    <3>2. \A c \in Place : ~ enabled'[c] <=> (c = b \/ ~ enabled[c])
      BY <1>1, <2>2
    <3>3. \A c \in Place : (\E i \in 1..(correctSelectIndex + 1) : chosen'[i] = c)
                           <=> (c = b \/ \E i \in 1..correctSelectIndex : chosen[i] = c)
      BY <1>1, <1>2, <1>3, <2>1
    <3>4. QED
      BY <3>1, <3>2, <3>3
  <2>6. \A i, j \in 1..(correctSelectIndex + 1) : chosen'[i] = chosen'[j] => i = j
    BY <1>1, <1>2, <1>3, <2>1, <2>3 DEF ConfirmInv
  <2>7. QED
    BY <1>1, <1>3, <2>1, <2>2, <2>4, <2>5, <2>6, PhraseAssumption
       DEF ConfirmInv, ConfirmedSpellPhrase, CrashOnlyAfterSwipe
<1>5. CASE OutOfRange \/ ~ IsNext(b)
  <2>1. UNCHANGED <<enabled, correctSelectIndex>>
    BY <1>5 DEF Select
  <2>2. CrashOnlyAfterSwipe'
    <3>1. loaded => correctSelectIndex # N
      BY <1>1, NoneLeft
    <3>2. QED
      BY <1>1, <1>5, <3>1 DEF Select, OutOfRange, Clickable, ConfirmInv, CrashOnlyAfterSwipe
  <2>3. correctSelectIndex <= Len(chosen) \/ correctSelectIndex = 0
    BY DEF ConfirmInv, ConfirmedSpellPhrase
  <2>4. correctSelectIndex <= Len(chosen') /\ \A i \in 1..correctSelectIndex : chosen'[i] = chosen[i]
    BY <1>1, <1>2, <1>3, <2>3
  <2>5. QED
    BY <1>1, <2>1, <2>2, <2>4, SameConfirmed
<1>6. QED
  BY <1>4, <1>5

\* A button that can be tapped was selected after the confirmed ones.
LEMMA DeselectStep ==
    ASSUME TypeOK, ConfirmInv, NEW b \in Place, Deselect(b)
    PROVE  ConfirmInv'
<1>1. /\ UNCHANGED <<result, drawn, loaded, enabled, correctSelectIndex>>
      /\ chosen \in Seq(Place) /\ correctSelectIndex \in 0..N
      /\ enabled[b] /\ page = "open"
  BY DEF Deselect, Clickable, TypeOK, shuffle
<1>2. correctSelectIndex <= Len(chosen) \/ correctSelectIndex = 0
  BY DEF ConfirmInv, ConfirmedSpellPhrase
<1>3. CrashOnlyAfterSwipe'
  <2>1. loaded => correctSelectIndex # N
    BY <1>1, NoneLeft
  <2>2. QED
    BY <1>1, <2>1 DEF Deselect, OutOfRange, CrashOnlyAfterSwipe
<1>4. correctSelectIndex <= Len(chosen') /\ \A i \in 1..correctSelectIndex : chosen'[i] = chosen[i]
  <2>1. CASE chosen' = chosen
    BY <1>1, <1>2, <2>1
  <2>2. ASSUME NEW i \in DOMAIN chosen, chosen[i] = b, chosen' = Without(chosen, i)
        PROVE  correctSelectIndex <= Len(chosen') /\ \A j \in 1..correctSelectIndex : chosen'[j] = chosen[j]
    <3>1. /\ Len(chosen') = Len(chosen) - 1
          /\ \A j \in 1..(i - 1) : chosen'[j] = chosen[j]
      BY <1>1, <2>2, WithoutSeq
    <3>2. correctSelectIndex < i
      <4>1. correctSelectIndex = 0 \/ loaded
        BY DEF ConfirmInv
      <4>2. i \notin 1..correctSelectIndex
        BY <1>1, <2>2, <4>1 DEF ConfirmInv, ConfirmedSpellPhrase
      <4>3. QED
        BY <1>1, <4>2
    <3>3. QED
      BY <1>1, <3>1, <3>2
  <2>3. QED
    BY <2>1, <2>2 DEF Deselect
<1>5. QED
  BY <1>1, <1>3, <1>4, SameConfirmed

\* Every action keeps the confirmed words the first ones of the phrase.
LEMMA ConfirmStep == TypeOK /\ ConfirmInv /\ [CMNext]_cmVars => ConfirmInv'
<1> SUFFICES ASSUME TypeOK, ConfirmInv, [CMNext]_cmVars PROVE ConfirmInv'
  OBVIOUS
<1>1. ASSUME NEW j \in Place, Draw(j) PROVE ConfirmInv'
  <2>1. correctSelectIndex = 0 /\ correctSelectIndex' = 0 /\ UNCHANGED <<page, loaded, chosen, enabled>>
    BY <1>1 DEF Draw, buttons, ConfirmInv
  <2>2. QED
    BY <2>1 DEF ConfirmInv, ConfirmedSpellPhrase, CrashOnlyAfterSwipe, TypeOK
<1>2. ASSUME NEW b \in Place, Select(b) \/ Deselect(b) PROVE ConfirmInv'
  BY <1>2, SelectStep, DeselectStep
<1>3. CASE SwipeUnfinished \/ Leave \/ Confirm
  BY <1>3 DEF SwipeUnfinished, Leave, Confirm, Cleared, ConfirmInv, ConfirmedSpellPhrase,
     CrashOnlyAfterSwipe
<1>4. CASE Reopen
  BY <1>4, PhraseAssumption DEF Reopen, ConfirmInv, ConfirmedSpellPhrase,
     CrashOnlyAfterSwipe, Everywhere, Place
<1>5. CASE UNCHANGED cmVars
  BY <1>5 DEF cmVars, shuffle, buttons, ConfirmInv, ConfirmedSpellPhrase,
     CrashOnlyAfterSwipe, WordOn
<1>6. QED
  BY <1>1, <1>2, <1>3, <1>4, <1>5 DEF CMNext

\* The words confirmed are the first ones selected and spell the beginning of
\* the phrase; they alone are disabled.
THEOREM ConfirmedSpell == CMSpec => []ConfirmedSpellPhrase
<1>1. ConfirmInv => ConfirmedSpellPhrase
  BY DEF ConfirmInv
<1>2. QED
  BY <1>1, TypeInit, TypeStep, ConfirmInit, ConfirmStep, PTL DEF CMSpec

\* A tap is out of range of the words only after a cancelled swipe emptied
\* them: once all are confirmed, no button is left to tap.
THEOREM CrashesAfterSwipe == CMSpec => []CrashOnlyAfterSwipe
<1>1. ConfirmInv => CrashOnlyAfterSwipe
  BY DEF ConfirmInv
<1>2. QED
  BY <1>1, TypeInit, TypeStep, ConfirmInit, ConfirmStep, PTL DEF CMSpec

\* The page adds a wallet only after the user spelled the whole phrase.
THEOREM AddedSpelled == CMSpec => AddedWhenSpelled
<1> DEFINE Adds == page' = "confirmed" /\ page # "confirmed" =>
                       /\ N <= Len(chosen)
                       /\ \A i \in Place : WordOn(chosen[i]) = Phrase[i]
<1>1. TypeOK /\ ConfirmInv /\ [CMNext]_cmVars => [Adds]_cmVars
  <2> SUFFICES ASSUME TypeOK, ConfirmInv, CMNext, page' = "confirmed", page # "confirmed"
               PROVE  N <= Len(chosen) /\ \A i \in Place : WordOn(chosen[i]) = Phrase[i]
    OBVIOUS
  <2>1. Confirm
    BY DEF CMNext, Draw, Select, Deselect, SwipeUnfinished, Leave, Reopen
  <2>2. correctSelectIndex = N /\ loaded
    BY <2>1, PhraseAssumption DEF Confirm, AllConfirmed, ConfirmInv
  <2>3. QED
    BY <2>2 DEF ConfirmInv, ConfirmedSpellPhrase, Place
<1>2. QED
  BY <1>1, TypeInit, TypeStep, ConfirmInit, ConfirmStep, PTL DEF CMSpec, AddedWhenSpelled

(***************************************************************************)
(* No dead end.  The inductive invariant says that the buttons shown as      *)
(* selected are those that were chosen, each once.                          *)
(***************************************************************************)

IsChosen(b) == \E i \in DOMAIN chosen : chosen[i] = b

SelectInv ==
    loaded =>
        /\ \A i, j \in DOMAIN chosen : chosen[i] = chosen[j] => i = j
        /\ \A b \in Place : selected[b] <=> IsChosen(b)

\* A tapped button that is not selected is chosen last.
LEMMA SelectKeeps ==
    ASSUME TypeOK, SelectInv, NEW b \in Place, Select(b)
    PROVE  SelectInv'
<1> SUFFICES ASSUME loaded'
             PROVE  /\ \A i, j \in DOMAIN chosen' : chosen'[i] = chosen'[j] => i = j
                    /\ \A c \in Place : selected'[c] <=> IsChosen(c)'
  BY DEF SelectInv
<1>1. /\ chosen \in Seq(Place) /\ selected \in [Place -> BOOLEAN]
      /\ chosen' = Append(chosen, b) /\ selected' = [selected EXCEPT ![b] = TRUE]
      /\ ~selected[b] /\ loaded
  BY DEF Select, TypeOK
<1>2. /\ DOMAIN chosen = 1..Len(chosen) /\ Len(chosen) \in Nat
      /\ DOMAIN chosen' = 1..(Len(chosen) + 1)
      /\ \A i \in DOMAIN chosen : chosen'[i] = chosen[i]
      /\ chosen'[Len(chosen) + 1] = b
  BY <1>1
<1>3. /\ \A i, j \in DOMAIN chosen : chosen[i] = chosen[j] => i = j
      /\ \A c \in Place : selected[c] <=> \E i \in DOMAIN chosen : chosen[i] = c
  BY <1>1 DEF SelectInv, IsChosen
<1>4. \A i, j \in DOMAIN chosen' : chosen'[i] = chosen'[j] => i = j
  BY <1>1, <1>2, <1>3
<1>5. \A c \in Place : IsChosen(c)' <=> c = b \/ \E i \in DOMAIN chosen : chosen[i] = c
  BY <1>2 DEF IsChosen
<1>6. \A c \in Place : selected'[c] <=> c = b \/ selected[c]
  BY <1>1
<1> QED
  BY <1>3, <1>4, <1>5, <1>6

\* A tapped button that is selected is no longer chosen, and all others still are.
LEMMA DeselectKeeps ==
    ASSUME TypeOK, SelectInv, NEW b \in Place, Deselect(b)
    PROVE  SelectInv'
<1> SUFFICES ASSUME loaded'
             PROVE  /\ \A i, j \in DOMAIN chosen' : chosen'[i] = chosen'[j] => i = j
                    /\ \A c \in Place : selected'[c] <=> IsChosen(c)'
  BY DEF SelectInv
<1>1. /\ chosen \in Seq(Place) /\ selected \in [Place -> BOOLEAN]
      /\ selected' = [selected EXCEPT ![b] = FALSE] /\ selected[b] /\ loaded
  BY DEF Deselect, TypeOK
<1>2. /\ \A i, j \in DOMAIN chosen : chosen[i] = chosen[j] => i = j
      /\ \A c \in Place : selected[c] <=> \E i \in DOMAIN chosen : chosen[i] = c
  BY <1>1 DEF SelectInv, IsChosen
<1>3. PICK i \in DOMAIN chosen : chosen[i] = b /\ chosen' = Without(chosen, i)
  BY <1>1, <1>2 DEF Deselect
<1>4. /\ DOMAIN chosen = 1..Len(chosen) /\ Len(chosen) \in Nat
      /\ DOMAIN chosen' = 1..(Len(chosen) - 1)
      /\ \A j \in DOMAIN chosen' : chosen'[j] = IF j < i THEN chosen[j] ELSE chosen[j + 1]
  BY <1>1, <1>3 DEF Without
<1>5. \A j, k \in DOMAIN chosen' : chosen'[j] = chosen'[k] => j = k
  <2> SUFFICES ASSUME NEW j \in DOMAIN chosen', NEW k \in DOMAIN chosen', chosen'[j] = chosen'[k]
               PROVE  j = k
    OBVIOUS
  <2> DEFINE At(n) == IF n < i THEN n ELSE n + 1
  <2>1. /\ At(j) \in DOMAIN chosen /\ chosen'[j] = chosen[At(j)]
        /\ At(k) \in DOMAIN chosen /\ chosen'[k] = chosen[At(k)]
    BY <1>4
  <2>2. At(j) = At(k)
    <3> HIDE DEF At
    <3> QED
      BY <1>2, <2>1
  <2> QED
    BY <1>4, <2>2
<1>6. ASSUME NEW c \in Place PROVE IsChosen(c)' <=> c # b /\ \E k \in DOMAIN chosen : chosen[k] = c
  <2>1. ASSUME NEW j \in DOMAIN chosen', chosen'[j] = c
        PROVE  c # b /\ \E k \in DOMAIN chosen : chosen[k] = c
    <3> DEFINE k == IF j < i THEN j ELSE j + 1
    <3>1. k \in DOMAIN chosen /\ k # i /\ chosen[k] = c
      BY <1>3, <1>4, <2>1
    <3> QED
      BY <1>2, <1>3, <3>1
  <2>2. ASSUME NEW k \in DOMAIN chosen, chosen[k] = c, c # b
        PROVE  \E j \in DOMAIN chosen' : chosen'[j] = c
    <3> DEFINE j == IF k < i THEN k ELSE k - 1
    <3>1. k # i
      BY <1>3, <2>2
    <3>2. j \in DOMAIN chosen' /\ chosen'[j] = c
      BY <1>3, <1>4, <2>2, <3>1
    <3> QED
      BY <3>2
  <2> QED
    BY <2>1, <2>2 DEF IsChosen
<1>7. \A c \in Place : selected'[c] <=> c # b /\ selected[c]
  BY <1>1
<1> QED
  BY <1>2, <1>5, <1>6, <1>7

\* At first nothing is chosen.
LEMMA SelectInit == CMInit => SelectInv
  BY DEF CMInit, SelectInv, IsChosen, Everywhere

\* Every action keeps the buttons shown as selected the chosen ones.
LEMMA SelectInvStep == TypeOK /\ SelectInv /\ [CMNext]_cmVars => SelectInv'
<1> SUFFICES ASSUME TypeOK, SelectInv, [CMNext]_cmVars PROVE SelectInv'
  OBVIOUS
<1>1. ASSUME NEW j \in Place, Draw(j) PROVE SelectInv'
  BY <1>1 DEF Draw, buttons, SelectInv, IsChosen
<1>2. ASSUME NEW b \in Place, Select(b) \/ Deselect(b) PROVE SelectInv'
  BY <1>2, SelectKeeps, DeselectKeeps
<1>3. CASE SwipeUnfinished \/ Leave \/ Confirm
  BY <1>3 DEF SwipeUnfinished, Leave, Confirm, Cleared, SelectInv
<1>4. CASE Reopen
  BY <1>4 DEF Reopen, SelectInv, IsChosen, Everywhere
<1>5. CASE UNCHANGED cmVars
  BY <1>5 DEF cmVars, shuffle, buttons, SelectInv, IsChosen
<1> QED
  BY <1>1, <1>2, <1>3, <1>4, <1>5 DEF CMNext

\* The next word is on a button that is not confirmed.  Otherwise the places of that
\* word in the whole phrase were matched with its places among the confirmed words,
\* which are fewer.
LEMMA NextWordLeft ==
    ASSUME TypeOK, EveryWordOnce, ConfirmInv, loaded, drawn = N, correctSelectIndex < N
    PROVE  \E b \in Place : enabled[b] /\ WordOn(b) = Phrase[correctSelectIndex + 1]
<1> SUFFICES ASSUME \A b \in Place : WordOn(b) = Phrase[correctSelectIndex + 1] => ~enabled[b]
             PROVE  FALSE
  BY DEF TypeOK
<1> DEFINE w == Phrase[correctSelectIndex + 1]
           Places == {p \in Place : Phrase[p] = w}
           Before == {i \in 1..correctSelectIndex : Phrase[i] = w}
<1>1. /\ N \in Nat /\ correctSelectIndex \in Nat
      /\ 1..correctSelectIndex \subseteq Place /\ correctSelectIndex + 1 \in Place
  BY PhraseAssumption DEF TypeOK, Place
<1>2. result \in [Place -> Place] /\ \A b, c \in Place : result[b] = result[c] => b = c
  BY DEF TypeOK, EveryWordOnce
<1>3. \A p \in Place : \E b \in Place : result[b] = p
  BY <1>2, AllPlaces
<1>4. ASSUME NEW p \in Places PROVE \E i \in Before : result[chosen[i]] = p
  <2>1. PICK b \in Place : result[b] = p
    BY <1>3
  <2>2. WordOn(b) = w /\ ~enabled[b]
    BY <2>1 DEF WordOn
  <2>3. PICK i \in 1..correctSelectIndex : chosen[i] = b
    BY <2>2 DEF ConfirmInv, ConfirmedSpellPhrase
  <2>4. Phrase[i] = w
    BY <2>2, <2>3 DEF ConfirmInv, ConfirmedSpellPhrase
  <2> QED
    BY <2>1, <2>3, <2>4
<1> DEFINE f == [p \in Places |-> CHOOSE i \in Before : result[chosen[i]] = p]
<1>5. f \in Injection(Places, Before)
  <2>1. \A p \in Places : f[p] \in Before /\ result[chosen[f[p]]] = p
    BY <1>4
  <2>2. f \in [Places -> Before]
    BY <2>1
  <2> HIDE DEF f
  <2>3. \A p, q \in Places : f[p] = f[q] => p = q
    BY <2>1
  <2> QED
    BY <2>2, <2>3, Zenon DEF Injection, IsInjective
<1> HIDE DEF f
<1>6. IsFiniteSet(Place) /\ IsFiniteSet(Places) /\ IsFiniteSet(Before)
  <2>1. IsFiniteSet(Place)
    BY <1>1, FS_Interval DEF Place
  <2>2. Places \in SUBSET Place /\ Before \in SUBSET Place
    BY <1>1
  <2> QED
    BY <2>1, <2>2, FS_Subset
<1>7. Cardinality(Places) <= Cardinality(Before)
  BY <1>5, <1>6, FS_Injection
<1>8. Before \in SUBSET Places /\ Before # Places
  BY <1>1
<1> HIDE DEF Places, Before
<1>9. /\ Cardinality(Before) <= Cardinality(Places)
      /\ Cardinality(Places) = Cardinality(Before) => Places = Before
  BY <1>6, <1>8, FS_Subset
<1>10. Cardinality(Before) \in Nat /\ Cardinality(Places) \in Nat
  BY <1>6, FS_CardinalityType
<1> QED
  BY <1>7, <1>8, <1>9, <1>10

\* Whatever was tapped, the next word is on a button that can be tapped, and a button
\* shows whether it was chosen, so that deselecting leads on.
THEOREM AlwaysAWayOn == CMSpec => []NoDeadEnd
<1> DEFINE AllInv == TypeOK /\ ShuffleInv /\ ConfirmInv /\ SelectInv
<1>1. AllInv => NoDeadEnd
  <2> SUFFICES ASSUME AllInv, page = "open", loaded, drawn = N, correctSelectIndex < N
               PROVE  /\ \E b \in Place : enabled[b] /\ WordOn(b) = Phrase[correctSelectIndex + 1]
                      /\ \A b \in Place : enabled[b] =>
                             (selected[b] <=> \E i \in DOMAIN chosen : chosen[i] = b)
    BY DEF NoDeadEnd
  <2>1. EveryWordOnce
    BY PhraseAssumption DEF ShuffleInv, EveryWordOnce, Place
  <2> QED
    BY <2>1, NextWordLeft DEF SelectInv, IsChosen
<1>2. QED
  BY <1>1, TypeInit, TypeStep, ShuffleInit, ShuffleStep, ConfirmInit, ConfirmStep,
     SelectInit, SelectInvStep, PTL DEF CMSpec
============================================================================

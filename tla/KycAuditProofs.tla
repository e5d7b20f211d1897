---------------------------- MODULE KycAuditProofs ----------------------------
(***************************************************************************)
(* For any accounts and persons, any number of applications and pages: types, *)
(* no stored data missed, registrations of one piece, and the photos of the   *)
(* applicant.                                                                *)
(***************************************************************************)
EXTENDS KycAudit, TLAPS

\* The auditing pages are of applications that were made; they and the confirmations
\* belong to the account shown, as long as it is not changed under them.
PagesOwned ==
    \A i \in DOMAIN stack :
        /\ stack[i].kind = "audit" => stack[i].app \in DOMAIN app
        /\ ~strayed /\ stack[i].kind = "audit" => app[stack[i].app].account = shown
        /\ ~strayed /\ stack[i].kind = "confirm" => info[shown] # None

\* Who applied has data and hashes, who has a status has data, who passed a certificate.
Applied ==
    \A n \in DOMAIN app :
        /\ info[app[n].account] # None
        /\ hashes[app[n].account] # None
        /\ ~strayed /\ app[n].stage = "passed" => cert[app[n].account] # None

Decided == ~strayed => \A a \in Account : status[a] => info[a] # None

Running(n) == app[n].stage \in {"upload", "poll"} \/ n \in OpenApps

\* As long as no form is sent meanwhile, what is stored is what was uploaded for every
\* application under way, and a certificate that was issued is for just that.
Single ==
    ~strayed =>
        \A n \in DOMAIN app : ~edited[app[n].account] /\ Running(n) =>
            LET a == app[n].account IN
            /\ info[a] = app[n].info
            /\ hashes[a] = app[n].info
            /\ app[n].stage = "passed" =>
                  /\ cert[a] \in DOMAIN app
                  /\ app[cert[a]].account = a
                  /\ app[cert[a]].info = info[a]

\* Photos of a completed form are those its data are from, with a back photo if the card
\* has one.
Kept ==
    \A a \in Account :
        ~torn[a] /\ photos # None /\ photos.account = a =>
            /\ photos = FormOf(a)
            /\ info[a].card = "IDCard" => back = FormOf(a)

IInv ==
    /\ TypeOK
    /\ PagesOwned
    /\ Applied
    /\ Decided
    /\ Single
    /\ Kept
    /\ PhotosOfApplicant
    /\ NoDataMissed

\* Whichever card is chosen by then, an upload by the card of the data sends its photos.
LEMMA KeptUnmixed == ASSUME Kept PROVE \A a \in Account : ~Mixed(a)
  <1> SUFFICES ASSUME NEW a \in Account, ~torn[a], photos # None, photos.account = a
               PROVE  /\ photos = FormOf(a)
                      /\ cardType = info[a].card => Sent = {FormOf(a)}
    BY DEF Mixed
  <1>1. photos = FormOf(a) /\ (info[a].card = "IDCard" => back = FormOf(a))
    BY DEF Kept
  <1> QED
    BY <1>1 DEF Sent

-----------------------------------------------------------------------------
LEMMA InitIInv == Init => IInv
  <1> SUFFICES ASSUME Init PROVE IInv
    OBVIOUS
  <1>1. TypeOK
    <2>1. stack \in Seq(Page) /\ app \in Seq(Upload)
      BY DEF Init
    <2>2. /\ info \in [Account -> Data \cup {None}]
          /\ hashes \in [Account -> Data \cup {None}]
          /\ cert \in [Account -> Application \cup {None}]
      BY DEF Init
    <2>3. /\ status \in [Account -> BOOLEAN]
          /\ torn \in [Account -> BOOLEAN]
          /\ edited \in [Account -> BOOLEAN]
      BY DEF Init
    <2> QED
      BY <2>1, <2>2, <2>3 DEF Init, TypeOK
  <1>2. PagesOwned /\ Applied /\ Decided /\ Single /\ Kept /\ PhotosOfApplicant
    BY DEF Init, PagesOwned, Applied, Decided, Single, Kept, FormOf, PhotosOfApplicant
  <1>3. NoDataMissed
    BY KycAuditAssumption DEF Init, NoDataMissed, Reason
  <1> QED
    BY <1>1, <1>2, <1>3 DEF IInv

-----------------------------------------------------------------------------
\* Pages that open or close without touching what is stored.

OldPage(page) == \E j \in DOMAIN stack : page = stack[j]

PagesMove ==
    /\ stack' \in Seq(Page)
    /\ \A i \in DOMAIN stack' :
          OldPage(stack'[i]) \/ stack'[i] = Plain("form") \/ stack'[i] = Plain("chain")
    /\ UNCHANGED <<stored, app, torn, edited>>

LEMMA PushKeeps ==
    ASSUME TypeOK, NEW page \in Page, Push(page)
    PROVE  /\ stack' \in Seq(Page)
           /\ \A i \in DOMAIN stack' : OldPage(stack'[i]) \/ stack'[i] = page
  <1>1. stack' = Append(stack, page) /\ stack \in Seq(Page)
    BY DEF TypeOK, Push
  <1>2. ASSUME NEW i \in DOMAIN stack' PROVE OldPage(stack'[i]) \/ stack'[i] = page
    <2>1. CASE i = Len(stack) + 1
      BY <1>1, <2>1
    <2>2. CASE i # Len(stack) + 1
      <3>1. i \in DOMAIN stack /\ stack'[i] = stack[i]
        BY <1>1, <1>2, <2>2
      <3> QED
        BY <3>1 DEF OldPage
    <2> QED
      BY <2>1, <2>2
  <1> QED
    BY <1>1, <1>2

LEMMA CutKeeps ==
    ASSUME TypeOK, NEW n \in 0..Len(stack), stack' = SubSeq(stack, 1, n)
    PROVE  /\ stack' \in Seq(Page)
           /\ \A i \in DOMAIN stack' : OldPage(stack'[i])
  <1>1. stack \in Seq(Page)
    BY DEF TypeOK
  <1>2. stack' \in Seq(Page) /\ DOMAIN stack' = 1..n
    BY <1>1
  <1>3. \A i \in 1..n : stack'[i] = stack[i] /\ i \in DOMAIN stack
    BY <1>1
  <1> QED
    BY <1>2, <1>3 DEF OldPage

LEMMA AppDomain ==
    ASSUME TypeOK, NEW n \in DOMAIN app
    PROVE  n \in Nat /\ n # 0 /\ app[n] \in Upload
  BY DEF TypeOK

LEMMA EmptyDomain == DOMAIN <<>> = {}
  OBVIOUS

LEMMA PlainPage ==
    ASSUME NEW kind
    PROVE  Plain(kind).kind = kind /\ Plain(kind).app = 0
  BY DEF Plain

LEMMA PlainIsPage == Plain("form") \in Page /\ Plain("chain") \in Page /\ Plain("confirm") \in Page
  BY KycAuditAssumption DEF Plain, Page

LEMMA PushPlainMoves ==
    ASSUME TypeOK, NEW kind \in {"form", "chain"}, Push(Plain(kind)),
           UNCHANGED <<stored, app, torn, edited>>
    PROVE  PagesMove
  BY PushKeeps, PlainIsPage DEF PagesMove

LEMMA CutMoves ==
    ASSUME TypeOK, NEW n \in 0..Len(stack), stack' = SubSeq(stack, 1, n),
           UNCHANGED <<stored, app, torn, edited>>
    PROVE  PagesMove
  BY CutKeeps DEF PagesMove

LEMMA StayMoves ==
    ASSUME TypeOK, stack' = stack \/ stack' = <<>>, UNCHANGED <<stored, app, torn, edited>>
    PROVE  PagesMove
  <1>1. CASE stack' = stack
    BY <1>1 DEF PagesMove, OldPage, TypeOK
  <1>2. CASE stack' = <<>>
    BY <1>2 DEF PagesMove
  <1> QED
    BY <1>1, <1>2

LEMMA PagesKeep ==
    ASSUME IInv, PagesMove,
           shown' \in Account,
           asked' \in Account \cup {None}, cardType' \in Card \cup {None},
           crashed' \in Reason \cup {None}, strayed' \in BOOLEAN,
           strayed => strayed',
           shown' = shown \/ stack' = <<>> \/ strayed',
           crashed' \in {"noInfo", "noCert"} => strayed'
    PROVE  IInv'
  <1>0. /\ stack' \in Seq(Page)
        /\ \A i \in DOMAIN stack' :
              OldPage(stack'[i]) \/ stack'[i] = Plain("form") \/ stack'[i] = Plain("chain")
        /\ UNCHANGED <<info, photos, back, hashes, cert, status, app, torn, edited>>
    BY DEF PagesMove, stored
  <1>1. TypeOK'
    BY <1>0 DEF IInv, TypeOK
  <1>2. PagesOwned'
    <2> SUFFICES ASSUME NEW i \in DOMAIN stack'
                 PROVE  /\ stack'[i].kind = "audit" => stack'[i].app \in DOMAIN app
                        /\ ~strayed' /\ stack'[i].kind = "audit" =>
                              app[stack'[i].app].account = shown'
                        /\ ~strayed' /\ stack'[i].kind = "confirm" => info[shown'] # None
      BY <1>0 DEF PagesOwned
    <2>1. stack' # <<>>
      BY EmptyDomain
    <2>2. shown' = shown \/ strayed'
      BY <2>1
    <2>3. CASE OldPage(stack'[i])
      BY <1>0, <2>2, <2>3 DEF IInv, PagesOwned, OldPage
    <2>4. CASE stack'[i] = Plain("form") \/ stack'[i] = Plain("chain")
      <3>1. stack'[i].kind \in {"form", "chain"}
        BY <2>4, PlainPage
      <3> QED
        BY <3>1
    <2> QED
      BY <1>0, <2>3, <2>4
  <1>3. Applied' /\ Decided'
    BY <1>0 DEF IInv, Applied, Decided
  <1>4. Single'
    <2>1. \A n \in DOMAIN app : Running(n)' => Running(n)
      <3> SUFFICES ASSUME NEW n \in DOMAIN app, n \in OpenApps' PROVE n \in OpenApps
        BY <1>0 DEF Running
      <3>1. PICK i \in DOMAIN stack' : n = stack'[i].app
        BY DEF OpenApps
      <3>2. n # 0
        BY AppDomain DEF IInv
      <3>3. OldPage(stack'[i])
        BY <1>0, <3>1, <3>2, PlainPage
      <3> QED
        BY <3>1, <3>3 DEF OldPage, OpenApps
    <2> QED
      BY <1>0, <2>1 DEF IInv, Single
  <1>5. Kept' /\ PhotosOfApplicant' /\ NoDataMissed'
    BY <1>0 DEF IInv, Kept, FormOf, PhotosOfApplicant, NoDataMissed
  <1> QED
    BY <1>1, <1>2, <1>3, <1>4, <1>5 DEF IInv

-----------------------------------------------------------------------------
\* The auditing page opens for an account with data.

AuditOpens ==
    /\ info[shown] # None
    /\ hashes' = [hashes EXCEPT ![shown] = info[shown]]
    /\ app' = Append(app, [account |-> shown, info |-> info[shown],
                           mixed |-> Mixed(shown), stage |-> "upload"])
    /\ Push([kind |-> "audit", app |-> Len(app) + 1])
    /\ Len(app) < MaxApps
    /\ UNCHANGED <<shown, info, photos, back, cert, status, crashed, torn, edited>>
    /\ asked' \in Account \cup {None}
    /\ cardType' \in Card \cup {None}
    /\ strayed' \in BOOLEAN
    /\ strayed => strayed'

LEMMA AppAppended ==
    ASSUME TypeOK, AuditOpens
    PROVE  /\ app' \in Seq(Upload)
           /\ DOMAIN app' = DOMAIN app \cup {Len(app) + 1}
           /\ \A n \in DOMAIN app : app'[n] = app[n]
           /\ app'[Len(app) + 1] = [account |-> shown, info |-> info[shown],
                                    mixed |-> Mixed(shown), stage |-> "upload"]
           /\ Len(app) + 1 \notin DOMAIN app
           /\ Len(app) + 1 \in 1..MaxApps
  <1> DEFINE new == [account |-> shown, info |-> info[shown],
                     mixed |-> Mixed(shown), stage |-> "upload"]
  <1>1. Mixed(shown) \in BOOLEAN
    BY DEF Mixed
  <1>2. info[shown] \in Data
    BY DEF TypeOK, AuditOpens
  <1>3. new \in Upload
    BY <1>1, <1>2 DEF TypeOK, Upload, Stage
  <1>4. app \in Seq(Upload) /\ Len(app) \in Nat /\ Len(app) < MaxApps
    BY DEF TypeOK, AuditOpens
  <1> HIDE DEF new
  <1>5. app' = Append(app, new)
    BY DEF AuditOpens, new
  <1>6. /\ app' \in Seq(Upload)
        /\ DOMAIN app' = DOMAIN app \cup {Len(app) + 1}
        /\ \A n \in DOMAIN app : app'[n] = app[n]
        /\ app'[Len(app) + 1] = new
        /\ Len(app) + 1 \notin DOMAIN app
    BY <1>3, <1>4, <1>5
  <1>7. Len(app) + 1 \in 1..MaxApps
    BY <1>4, KycAuditAssumption
  <1> QED
    BY <1>6, <1>7 DEF new

LEMMA AuditKeeps ==
    ASSUME IInv, AuditOpens
    PROVE  IInv'
  <1> DEFINE k == Len(app) + 1
             page == [kind |-> "audit", app |-> k]
  <1>1. TypeOK
    BY DEF IInv
  <1>2. /\ app' \in Seq(Upload)
        /\ DOMAIN app' = DOMAIN app \cup {k}
        /\ \A n \in DOMAIN app : app'[n] = app[n]
        /\ app'[k].account = shown
        /\ app'[k].info = info[shown]
        /\ app'[k].mixed = Mixed(shown)
        /\ app'[k].stage = "upload"
        /\ k \notin DOMAIN app
        /\ k \in 1..MaxApps
    BY <1>1, AppAppended
  <1>3. /\ page \in Page
        /\ page.kind = "audit"
        /\ page.app = k
    BY <1>2, KycAuditAssumption DEF Page
  <1>4. /\ stack' \in Seq(Page)
        /\ \A i \in DOMAIN stack' : OldPage(stack'[i]) \/ stack'[i] = page
    <2>1. Push(page)
      BY DEF AuditOpens
    <2> QED
      BY <1>1, <1>3, <2>1, PushKeeps
  <1>5. /\ UNCHANGED <<shown, info, photos, back, cert, status, crashed, torn, edited>>
        /\ info[shown] # None
        /\ shown \in Account
        /\ strayed => strayed'
    BY <1>1 DEF AuditOpens, TypeOK
  <1>6. /\ hashes' \in [Account -> Data \cup {None}]
        /\ hashes'[shown] = info[shown]
        /\ \A a \in Account : a # shown => hashes'[a] = hashes[a]
    BY <1>1, <1>5 DEF AuditOpens, TypeOK
  <1> HIDE DEF k, page
  <1>7. TypeOK'
    BY <1>1, <1>2, <1>4, <1>6 DEF TypeOK, AuditOpens
  <1>8. \A n \in DOMAIN app : app[n].account \in Account
    BY <1>1, AppDomain DEF Upload
  <1>9. PagesOwned'
    <2> SUFFICES ASSUME NEW i \in DOMAIN stack'
                 PROVE  /\ stack'[i].kind = "audit" => stack'[i].app \in DOMAIN app'
                        /\ ~strayed' /\ stack'[i].kind = "audit" =>
                              app'[stack'[i].app].account = shown'
                        /\ ~strayed' /\ stack'[i].kind = "confirm" => info'[shown'] # None
      BY DEF PagesOwned
    <2>1. CASE OldPage(stack'[i])
      BY <1>2, <1>5, <2>1 DEF IInv, PagesOwned, OldPage
    <2>2. CASE stack'[i] = page
      BY <1>2, <1>3, <1>5, <2>2
    <2> QED
      BY <1>4, <2>1, <2>2
  <1>10. Applied'
    BY <1>2, <1>5, <1>6, <1>8 DEF IInv, Applied
  <1>11. Decided' /\ Kept' /\ NoDataMissed'
    BY <1>5 DEF IInv, Decided, Kept, FormOf, NoDataMissed
  <1>12. PhotosOfApplicant'
    BY <1>2, <1>5, KeptUnmixed DEF IInv, PhotosOfApplicant
  <1>13. Single'
    <2> SUFFICES ASSUME ~strayed', NEW n \in DOMAIN app',
                        ~edited'[app'[n].account], Running(n)'
                 PROVE  LET a == app'[n].account IN
                        /\ info'[a] = app'[n].info
                        /\ hashes'[a] = app'[n].info
                        /\ app'[n].stage = "passed" =>
                              /\ cert'[a] \in DOMAIN app'
                              /\ app'[cert'[a]].account = a
                              /\ app'[cert'[a]].info = info'[a]
      BY DEF Single
    <2>1. CASE n = k
      BY <1>2, <1>5, <1>6, <2>1
    <2>2. CASE n \in DOMAIN app
      <3>1. Running(n)
        <4>1. n \in OpenApps' => n \in OpenApps
          <5> SUFFICES ASSUME NEW i \in DOMAIN stack', n = stack'[i].app
                       PROVE  n \in OpenApps
            BY DEF OpenApps
          <5>1. stack'[i] # page
            BY <1>2, <1>3, <2>2
          <5> QED
            BY <1>4, <5>1 DEF OldPage, OpenApps
        <4> QED
          BY <1>2, <2>2, <4>1 DEF Running
      <3>2. /\ info[app[n].account] = app[n].info
            /\ hashes[app[n].account] = app[n].info
            /\ app[n].stage = "passed" =>
                  /\ cert[app[n].account] \in DOMAIN app
                  /\ app[cert[app[n].account]].account = app[n].account
                  /\ app[cert[app[n].account]].info = info[app[n].account]
        BY <1>2, <1>5, <2>2, <3>1 DEF IInv, Single
      <3> QED
        BY <1>2, <1>5, <1>6, <1>8, <2>2, <3>2
    <2> QED
      BY <1>2, <2>1, <2>2
  <1> QED
    BY <1>7, <1>9, <1>10, <1>11, <1>12, <1>13 DEF IInv

-----------------------------------------------------------------------------
\* The form.

LEMMA FormKeeps == ASSUME IInv, NextStep PROVE IInv'
  <1>1. TypeOK /\ shown \in Account
    BY DEF IInv, TypeOK
  <1>2. PICK d \in Data :
          /\ info' = [info EXCEPT ![shown] = d]
          /\ \/ /\ torn' = [torn EXCEPT ![shown] = TRUE]
                /\ UNCHANGED <<photos, back, stack>>
             \/ /\ torn' = [torn EXCEPT ![shown] = FALSE]
                /\ d \in Filled
                /\ SaveImages(d)
                /\ Push(Plain("confirm"))
    <2>1. CASE /\ info' = [info EXCEPT ![shown] = FirstWritten]
               /\ torn' = [torn EXCEPT ![shown] = TRUE]
               /\ UNCHANGED <<photos, back, stack>>
      BY <2>1 DEF FirstWritten, Data
    <2>2. ASSUME NEW p \in Person,
                 /\ info' = [info EXCEPT ![shown] = [person |-> p, card |-> CertType]]
                 /\ \/ /\ torn' = [torn EXCEPT ![shown] = TRUE]
                       /\ UNCHANGED <<photos, back, stack>>
                    \/ /\ torn' = [torn EXCEPT ![shown] = FALSE]
                       /\ SaveImages([person |-> p, card |-> CertType])
                       /\ Push(Plain("confirm"))
          PROVE  \E d \in Data :
                    /\ info' = [info EXCEPT ![shown] = d]
                    /\ \/ /\ torn' = [torn EXCEPT ![shown] = TRUE]
                          /\ UNCHANGED <<photos, back, stack>>
                       \/ /\ torn' = [torn EXCEPT ![shown] = FALSE]
                          /\ d \in Filled
                          /\ SaveImages(d)
                          /\ Push(Plain("confirm"))
      <3>1. [person |-> p, card |-> CertType] \in Filled
        BY DEF Filled, CertType, Card
      <3> QED
        BY <2>2, <3>1 DEF Data
    <2> QED
      BY <2>1, <2>2 DEF NextStep
  <1>3. /\ UNCHANGED <<shown, hashes, cert, status, cardType, app, asked, crashed, strayed>>
        /\ edited' = [edited EXCEPT ![shown] = @ \/ UnderWay(shown)]
    BY DEF NextStep
  <1>4. /\ info' \in [Account -> Data \cup {None}]
        /\ info'[shown] = d
        /\ d # None
        /\ \A a \in Account : a # shown => info'[a] = info[a]
    BY <1>1, <1>2, KycAuditAssumption DEF TypeOK, Data
  <1>5. /\ stack' \in Seq(Page)
        /\ \A i \in DOMAIN stack' : OldPage(stack'[i]) \/ stack'[i] = Plain("confirm")
    <2>1. CASE stack' = stack
      BY <1>1, <2>1 DEF TypeOK, OldPage
    <2>2. CASE Push(Plain("confirm"))
      BY <1>1, <2>2, PushKeeps, PlainIsPage
    <2> QED
      BY <1>2, <2>1, <2>2
  <1>6. photos' \in Form \cup {None} /\ back' \in Form \cup {None}
    <2>1. CASE UNCHANGED <<photos, back>>
      BY <1>1, <2>1 DEF TypeOK
    <2>2. CASE d \in Filled /\ SaveImages(d)
      <3>1. photos' \in Form
        BY <1>1, <2>2 DEF SaveImages, Form
      <3>2. back' = photos' \/ back' = back
        BY <2>2 DEF SaveImages
      <3> QED
        BY <1>1, <3>1, <3>2 DEF TypeOK
    <2> QED
      BY <1>2, <2>1, <2>2
  <1>7. /\ edited' \in [Account -> BOOLEAN]
        /\ edited'[shown] = (edited[shown] \/ UnderWay(shown))
        /\ \A a \in Account : a # shown => edited'[a] = edited[a]
    <2>1. UnderWay(shown) \in BOOLEAN
      BY DEF UnderWay
    <2>2. edited \in [Account -> BOOLEAN]
      BY <1>1 DEF TypeOK
    <2>3. (edited[shown] \/ UnderWay(shown)) \in BOOLEAN
      OBVIOUS
    <2> QED
      BY <1>1, <1>3, <2>2, <2>3
  <1>8. torn' \in [Account -> BOOLEAN]
    <2>1. torn \in [Account -> BOOLEAN]
      BY <1>1 DEF TypeOK
    <2>2. TRUE \in BOOLEAN /\ FALSE \in BOOLEAN
      OBVIOUS
    <2> QED
      BY <1>2, <2>1, <2>2
  <1>9. TypeOK'
    BY <1>1, <1>3, <1>4, <1>5, <1>6, <1>7, <1>8 DEF TypeOK
  <1>10. PagesOwned'
    <2> SUFFICES ASSUME NEW i \in DOMAIN stack'
                 PROVE  /\ stack'[i].kind = "audit" => stack'[i].app \in DOMAIN app
                        /\ ~strayed /\ stack'[i].kind = "audit" =>
                              app[stack'[i].app].account = shown
                        /\ ~strayed /\ stack'[i].kind = "confirm" => info'[shown] # None
      BY <1>3 DEF PagesOwned
    <2>1. CASE OldPage(stack'[i])
      BY <1>4, <2>1 DEF IInv, PagesOwned, OldPage
    <2>2. CASE stack'[i] = Plain("confirm")
      <3>1. stack'[i].kind = "confirm"
        BY <2>2, PlainPage
      <3> QED
        BY <1>4, <3>1
    <2> QED
      BY <1>5, <2>1, <2>2
  <1>11. \A n \in DOMAIN app : app[n].account \in Account
    BY <1>1, AppDomain DEF Upload
  <1>12. Applied' /\ Decided'
    BY <1>3, <1>4, <1>11 DEF IInv, Applied, Decided
  <1>13. Kept'
    <2> SUFFICES ASSUME NEW a \in Account, ~torn'[a], photos' # None,
                        photos'.account = a
                 PROVE  /\ photos' = FormOf(a)'
                        /\ info'[a].card = "IDCard" => back' = FormOf(a)'
      BY DEF Kept
    <2>1. torn \in [Account -> BOOLEAN]
      BY <1>1 DEF TypeOK
    <2>2. CASE torn' = [torn EXCEPT ![shown] = TRUE] /\ UNCHANGED <<photos, back>>
      <3>1. a # shown /\ ~torn[a]
        BY <1>1, <2>1, <2>2
      <3> QED
        BY <1>4, <2>2, <3>1 DEF IInv, Kept, FormOf
    <2>3. CASE SaveImages(d)
      <3>1. photos' = [account |-> shown, data |-> d]
        BY <2>3 DEF SaveImages
      <3>2. a = shown /\ info'[a] = d
        BY <1>4, <3>1
      <3>3. d.card = "IDCard" => back' = photos'
        BY <2>3 DEF SaveImages
      <3> QED
        BY <3>1, <3>2, <3>3 DEF FormOf
    <2> QED
      BY <1>2, <2>2, <2>3
  <1>14. PhotosOfApplicant' /\ NoDataMissed'
    BY <1>3 DEF IInv, PhotosOfApplicant, NoDataMissed
  <1>15. Single'
    <2> SUFFICES ASSUME ~strayed, NEW n \in DOMAIN app,
                        ~edited'[app[n].account], Running(n)'
                 PROVE  LET a == app[n].account IN
                        /\ info'[a] = app[n].info
                        /\ hashes[a] = app[n].info
                        /\ app[n].stage = "passed" =>
                              /\ cert[a] \in DOMAIN app
                              /\ app[cert[a]].account = a
                              /\ app[cert[a]].info = info'[a]
      BY <1>3 DEF Single
    <2>1. Running(n)
      <3>1. n \in OpenApps' => n \in OpenApps
        <4> SUFFICES ASSUME NEW i \in DOMAIN stack', n = stack'[i].app
                     PROVE  n \in OpenApps
          BY DEF OpenApps
        <4>1. stack'[i] # Plain("confirm")
          BY <1>1, AppDomain, PlainPage
        <4> QED
          BY <1>5, <4>1 DEF OldPage, OpenApps
      <3> QED
        BY <1>3, <3>1 DEF Running
    <2>2. app[n].account # shown
      <3> SUFFICES ASSUME app[n].account = shown PROVE FALSE
        OBVIOUS
      <3>1. UnderWay(shown)
        BY <2>1 DEF UnderWay, Running
      <3> QED
        BY <1>7, <3>1
    <2>3. ~edited[app[n].account]
      BY <1>7, <1>11, <2>2
    <2> QED
      BY <1>4, <1>11, <2>1, <2>2, <2>3 DEF IInv, Single
  <1> QED
    BY <1>9, <1>10, <1>12, <1>13, <1>14, <1>15 DEF IInv

-----------------------------------------------------------------------------
\* The answers.

LEMMA AppStaged ==
    ASSUME TypeOK, NEW n \in DOMAIN app, NEW s \in Stage, Becomes(n, s)
    PROVE  /\ app' \in Seq(Upload)
           /\ DOMAIN app' = DOMAIN app
           /\ app'[n].stage = s
           /\ \A m \in DOMAIN app : m # n => app'[m] = app[m]
           /\ \A m \in DOMAIN app : /\ app'[m].account = app[m].account
                                    /\ app'[m].info = app[m].info
                                    /\ app'[m].mixed = app[m].mixed
  <1>1. app \in Seq(Upload)
    BY DEF TypeOK
  <1>2. app[n] \in Upload
    BY <1>1
  <1>3. [app[n] EXCEPT !.stage = s] \in Upload
    BY <1>2 DEF Upload
  <1>4. app' = [app EXCEPT ![n] = [app[n] EXCEPT !.stage = s]]
    BY DEF Becomes
  <1>5. /\ app' \in Seq(Upload)
        /\ DOMAIN app' = DOMAIN app
        /\ app'[n] = [app[n] EXCEPT !.stage = s]
        /\ \A m \in DOMAIN app : m # n => app'[m] = app[m]
    BY <1>1, <1>3, <1>4
  <1> QED
    BY <1>2, <1>5 DEF Upload

\* What every answer but a missing one does.
Answered(n, s) ==
    /\ n \in DOMAIN app
    /\ n \in Application
    /\ app[n].stage \in {"upload", "poll"}
    /\ Becomes(n, s)
    /\ s = "poll" \/ s \in Outcome
    /\ UNCHANGED <<shown, stack, info, photos, back, hashes, cardType, asked, crashed, torn,
                   edited>>
    /\ \/ UNCHANGED <<status, strayed>>
       \/ status' = [status EXCEPT ![shown] = TRUE] /\ Strays(n)
    /\ \/ s = "passed" /\ cert' = [cert EXCEPT ![shown] = n] /\ Strays(n)
       \/ s # "passed" /\ cert' = cert

LEMMA AnsweredKeeps ==
    ASSUME IInv, NEW n, NEW s, Answered(n, s)
    PROVE  IInv'
  <1>1. TypeOK /\ shown \in Account /\ s \in Stage /\ n \in DOMAIN app
    BY DEF IInv, TypeOK, Answered, Stage, Outcome
  <1>2. /\ app' \in Seq(Upload)
        /\ DOMAIN app' = DOMAIN app
        /\ app'[n].stage = s
        /\ \A m \in DOMAIN app : m # n => app'[m] = app[m]
        /\ \A m \in DOMAIN app : /\ app'[m].account = app[m].account
                                 /\ app'[m].info = app[m].info
                                 /\ app'[m].mixed = app[m].mixed
    <2>1. Becomes(n, s)
      BY DEF Answered
    <2> QED
      BY <1>1, <2>1, AppStaged
  <1>3. UNCHANGED <<shown, stack, info, photos, back, hashes, cardType, asked, crashed, torn,
                    edited>>
    BY DEF Answered
  <1>4. /\ strayed' \in BOOLEAN
        /\ strayed => strayed'
    BY <1>1 DEF Answered, Strays, TypeOK
  <1>5. /\ status' \in [Account -> BOOLEAN]
        /\ \A a \in Account : ~strayed' /\ status'[a] => status[a] \/ a = app[n].account
    <2>1. status \in [Account -> BOOLEAN]
      BY <1>1 DEF TypeOK
    <2>2. CASE status' = status
      BY <2>1, <2>2
    <2>3. CASE status' = [status EXCEPT ![shown] = TRUE] /\ Strays(n)
      <3>1. status' \in [Account -> BOOLEAN]
        BY <1>1, <2>1, <2>3
      <3>2. \A a \in Account : a # shown => status'[a] = status[a]
        BY <1>1, <2>1, <2>3
      <3>3. ~strayed' => app[n].account = shown
        BY <2>3 DEF Strays
      <3> QED
        BY <3>1, <3>2, <3>3
    <2> QED
      BY <2>2, <2>3 DEF Answered
  <1>6. /\ cert' \in [Account -> Application \cup {None}]
        /\ \A a \in Account : cert[a] # None => cert'[a] # None
        /\ \A a \in Account : ~strayed' /\ cert'[a] # cert[a] =>
              a = app[n].account /\ cert'[a] = n /\ s = "passed"
        /\ ~strayed' /\ s = "passed" => cert'[app[n].account] = n
    <2>1. cert \in [Account -> Application \cup {None}] /\ n \in Application
      BY <1>1 DEF TypeOK, Answered
    <2>2. n # None
      BY <2>1, KycAuditAssumption DEF Application
    <2>3. CASE s # "passed" /\ cert' = cert
      BY <2>1, <2>3
    <2>4. CASE s = "passed" /\ cert' = [cert EXCEPT ![shown] = n] /\ Strays(n)
      <3>1. /\ cert' \in [Account -> Application \cup {None}]
            /\ cert'[shown] = n
            /\ \A a \in Account : a # shown => cert'[a] = cert[a]
        BY <1>1, <2>1, <2>4
      <3>2. ~strayed' => app[n].account = shown
        BY <2>4 DEF Strays
      <3> QED
        BY <2>2, <2>4, <3>1, <3>2
    <2> QED
      BY <2>3, <2>4 DEF Answered
  <1>7. TypeOK'
    BY <1>1, <1>2, <1>3, <1>4, <1>5, <1>6 DEF TypeOK
  <1>8. \A m \in DOMAIN app : app[m].account \in Account
    BY <1>1, AppDomain DEF Upload
  <1>9. PagesOwned'
    BY <1>2, <1>3, <1>4 DEF IInv, PagesOwned
  <1>10. Applied'
    <2> SUFFICES ASSUME NEW m \in DOMAIN app
                 PROVE  /\ info[app[m].account] # None
                        /\ hashes[app[m].account] # None
                        /\ ~strayed' /\ app'[m].stage = "passed" =>
                              cert'[app[m].account] # None
      BY <1>2, <1>3 DEF Applied
    <2>1. CASE m = n
      <3>1. n # None
        BY KycAuditAssumption DEF Application, Answered
      <3> QED
        BY <1>2, <1>6, <2>1, <3>1 DEF IInv, Applied
    <2>2. CASE m # n
      BY <1>2, <1>4, <1>6, <1>8, <2>2 DEF IInv, Applied
    <2> QED
      BY <2>1, <2>2
  <1>11. Decided'
    BY <1>1, <1>3, <1>4, <1>5 DEF IInv, Applied, Decided
  <1>12. Kept' /\ PhotosOfApplicant' /\ NoDataMissed'
    BY <1>2, <1>3, <1>4 DEF IInv, Kept, FormOf, PhotosOfApplicant, NoDataMissed
  <1>13. Single'
    <2> SUFFICES ASSUME ~strayed', NEW m \in DOMAIN app,
                        ~edited[app[m].account], Running(m)'
                 PROVE  LET a == app[m].account IN
                        /\ info[a] = app[m].info
                        /\ hashes[a] = app[m].info
                        /\ app'[m].stage = "passed" =>
                              /\ cert'[a] \in DOMAIN app
                              /\ app'[cert'[a]].account = a
                              /\ app'[cert'[a]].info = info[a]
      BY <1>2, <1>3 DEF Single
    <2>1. Running(n) /\ Running(m)
      BY <1>2, <1>3 DEF Running, OpenApps, Answered
    <2>2. /\ info[app[m].account] = app[m].info
          /\ hashes[app[m].account] = app[m].info
          /\ app[m].stage = "passed" =>
                /\ cert[app[m].account] \in DOMAIN app
                /\ app[cert[app[m].account]].account = app[m].account
                /\ app[cert[app[m].account]].info = info[app[m].account]
      BY <1>4, <2>1 DEF IInv, Single
    <2>3. CASE app[m].account = app[n].account /\ s = "passed"
      <3>1. info[app[n].account] = app[n].info
        BY <1>1, <1>4, <2>1, <2>3 DEF IInv, Single
      <3> QED
        BY <1>1, <1>2, <1>6, <2>2, <2>3, <3>1
    <2>4. CASE ~(app[m].account = app[n].account /\ s = "passed")
      <3>1. cert'[app[m].account] = cert[app[m].account]
        BY <1>6, <1>8, <2>4
      <3>2. app'[m].stage = "passed" => app[m].stage = "passed"
        BY <1>2, <2>4
      <3> QED
        BY <1>2, <2>2, <3>1, <3>2
    <2> QED
      BY <2>3, <2>4
  <1> QED
    BY <1>7, <1>9, <1>10, <1>11, <1>12, <1>13 DEF IInv

LEMMA AnswerKeeps == ASSUME IInv, NEW n \in Application, Answer(n) PROVE IInv'
  <1>1. TypeOK /\ n \in DOMAIN app /\ UNCHANGED <<shown, stack, cardType, asked, torn, edited>>
    BY DEF IInv, Answer
  <1>2. CASE Uploaded(n)
    <2>1. Answered(n, "poll")
      BY <1>1, <1>2 DEF Uploaded, Answered, stored
    <2> QED
      BY <2>1, AnsweredKeeps
  <1>3. CASE UploadFailed(n)
    <2>1. Answered(n, "failed")
      BY <1>1, <1>3 DEF UploadFailed, Answered, Outcome
    <2> QED
      BY <2>1, AnsweredKeeps
  <1>4. CASE Polled(n)
    <2>1. PICK s \in Outcome : Answered(n, s)
      BY <1>1, <1>4 DEF Polled, Answered
    <2> QED
      BY <2>1, AnsweredKeeps
  <1>5. CASE PollFailed(n)
    <2>1. PagesMove
      BY <1>1, <1>5, StayMoves DEF PollFailed
    <2>2. crashed' = "noAnswer" /\ strayed' = strayed
      BY <1>5 DEF PollFailed
    <2>3. /\ shown' = shown /\ shown \in Account
          /\ asked' \in Account \cup {None}
          /\ cardType' \in Card \cup {None}
          /\ crashed' \in Reason \cup {None}
          /\ strayed' \in BOOLEAN
      BY <1>1, <2>2 DEF TypeOK, Reason
    <2> QED
      BY <2>1, <2>2, <2>3, PagesKeep
  <1> QED
    BY <1>2, <1>3, <1>4, <1>5 DEF Answer

-----------------------------------------------------------------------------
\* The app is started again.

LEMMA RestartKeeps == ASSUME IInv, Restart PROVE IInv'
  <1> DEFINE Left(u) == IF u.stage \in {"upload", "poll"}
                            THEN [u EXCEPT !.stage = "dropped"] ELSE u
  <1>1. TypeOK /\ app \in Seq(Upload)
    BY DEF IInv, TypeOK
  <1>2. \A u \in Upload : /\ Left(u) \in Upload
                          /\ Left(u).account = u.account
                          /\ Left(u).info = u.info
                          /\ Left(u).mixed = u.mixed
                          /\ Left(u).stage \notin {"upload", "poll"}
                          /\ Left(u).stage = "passed" => u.stage = "passed"
    BY DEF Upload, Stage
  <1>3. app' = [n \in DOMAIN app |-> Left(app[n])]
    BY DEF Restart
  <1>4. \A n \in DOMAIN app : app[n] \in Upload
    BY <1>1
  <1> HIDE DEF Left
  <1>5. /\ app' \in Seq(Upload)
        /\ DOMAIN app' = DOMAIN app
        /\ \A n \in DOMAIN app : app'[n] = Left(app[n])
    <2>1. DOMAIN app = 1..Len(app) /\ Len(app) \in Nat
      BY <1>1
    <2>2. app' \in [1..Len(app) -> Upload]
      BY <1>2, <1>3, <1>4, <2>1
    <2>3. app' \in Seq(Upload)
      BY <2>1, <2>2
    <2> QED
      BY <1>3, <2>3
  <1>6. /\ UNCHANGED <<shown, info, photos, back, hashes, cert, status, cardType, torn, edited,
                       strayed>>
        /\ stack' = <<>> /\ asked' = None /\ crashed' = None
    BY DEF Restart, stored
  <1>7. TypeOK'
    BY <1>1, <1>5, <1>6 DEF TypeOK
  <1>8. PagesOwned' /\ Decided' /\ Kept'
    BY <1>6, EmptyDomain DEF IInv, PagesOwned, Decided, Kept, FormOf
  <1>9. Applied' /\ PhotosOfApplicant'
    BY <1>2, <1>4, <1>5, <1>6 DEF IInv, Applied, PhotosOfApplicant
  <1>10. Single'
    <2>1. \A n \in DOMAIN app : ~Running(n)'
      BY <1>2, <1>4, <1>5, <1>6, EmptyDomain DEF Running, OpenApps
    <2> QED
      BY <1>5, <2>1 DEF Single
  <1>11. NoDataMissed'
    BY <1>6, KycAuditAssumption DEF NoDataMissed, Reason
  <1> QED
    BY <1>7, <1>8, <1>9, <1>10, <1>11 DEF IInv

-----------------------------------------------------------------------------
\* The pages the user opens and leaves.

\* What a step does that crashes the app or moves plain pages, with its conditions.
Light ==
    /\ PagesMove
    /\ \/ shown' = shown
       \/ shown' \in Account /\ (stack' = <<>> \/ strayed')
    /\ asked' \in Account \cup {None}
    /\ cardType' \in Card \cup {None}
    /\ \/ crashed' = crashed
       \/ crashed' \in {"noInfo", "noCert"} /\ strayed'
       \/ crashed' = "noPage"
    /\ strayed' \in BOOLEAN
    /\ strayed => strayed'

LEMMA LightKeeps == ASSUME IInv, Light PROVE IInv'
  <1>1. /\ shown \in Account
        /\ crashed \in Reason \cup {None}
        /\ crashed \in {"noInfo", "noCert"} => strayed
    BY DEF IInv, TypeOK, NoDataMissed
  <1>2. /\ PagesMove
        /\ shown' \in Account
        /\ shown' = shown \/ stack' = <<>> \/ strayed'
        /\ asked' \in Account \cup {None}
        /\ cardType' \in Card \cup {None}
        /\ strayed' \in BOOLEAN
        /\ strayed => strayed'
    BY <1>1 DEF Light
  <1>3. /\ crashed' \in Reason \cup {None}
        /\ crashed' \in {"noInfo", "noCert"} => strayed'
    BY <1>1 DEF Light, Reason
  <1> QED
    BY <1>2, <1>3, PagesKeep

\* Opening the auditing page crashes the app only for an account without data.
LEMMA OpenAuditKeeps ==
    ASSUME IInv, OpenAudit,
           UNCHANGED <<shown, info, photos, back, cert, status, torn, edited>>,
           asked' \in Account \cup {None}, cardType' \in Card \cup {None},
           strayed' \in BOOLEAN, strayed => strayed',
           info[shown] = None => strayed'
    PROVE  IInv'
  <1>1. CASE info[shown] = None
    <2>1. /\ crashed' = "noInfo"
          /\ UNCHANGED <<stack, hashes, app>>
      BY <1>1 DEF OpenAudit
    <2>2. PagesMove
      BY <2>1, StayMoves DEF IInv, stored
    <2> QED
      BY <1>1, <2>1, <2>2, LightKeeps DEF Light
  <1>2. CASE info[shown] # None
    <2>1. AuditOpens
      BY <1>2 DEF OpenAudit, AuditOpens, HashesOfInfo
    <2> QED
      BY <2>1, AuditKeeps
  <1> QED
    BY <1>1, <1>2

LEMMA PushKeepsAll ==
    ASSUME IInv, NEW kind \in {"form", "chain"}, Push(Plain(kind)),
           UNCHANGED <<shown, stored, app, crashed, torn, edited>>,
           asked' \in Account \cup {None}, cardType' \in Card \cup {None},
           strayed' \in BOOLEAN, strayed => strayed'
    PROVE  IInv'
  <1>1. PagesMove
    BY PushPlainMoves DEF IInv
  <1> QED
    BY <1>1, LightKeeps DEF Light

LEMMA OpenKycKeeps ==
    ASSUME IInv, NEW a \in Account,
           OpenKyc(a),
           UNCHANGED <<shown, info, photos, back, cert, status, torn, edited>>,
           asked' \in Account \cup {None}, cardType' \in Card \cup {None},
           strayed' = (strayed \/ a # shown)
    PROVE  IInv'
  <1>0. strayed' \in BOOLEAN /\ (strayed => strayed')
    BY DEF IInv, TypeOK
  <1>1. CASE status[a] /\ OpenAudit
    <2>1. info[shown] = None => strayed'
      BY <1>1 DEF IInv, Decided
    <2> QED
      BY <1>0, <1>1, <2>1, OpenAuditKeeps
  <1>2. CASE OpenForm /\ UNCHANGED <<hashes, app, crashed>>
    BY <1>0, <1>2, PushKeepsAll DEF OpenForm, stored
  <1>3. CASE Push(Plain("chain")) /\ UNCHANGED <<hashes, app, crashed>>
    BY <1>0, <1>3, PushKeepsAll DEF stored
  <1> QED
    BY <1>1, <1>2, <1>3 DEF OpenKyc

\* Whatever opens, the card is one of the two.
LEMMA CardKept ==
    ASSUME TypeOK, OpenForm \/ UNCHANGED cardType
    PROVE  cardType' \in Card \cup {None}
  BY DEF TypeOK, OpenForm, Card

LEMMA TopOpen ==
    ASSUME TypeOK, NEW kind, OnTop(kind)
    PROVE  Len(stack) \in DOMAIN stack /\ stack[Len(stack)].kind = kind
  BY DEF OnTop, Top, TypeOK

LEMMA ConfirmKeeps == ASSUME IInv, Confirm PROVE IInv'
  <1>1. TypeOK /\ OpenAudit
    BY DEF IInv, Confirm
  <1>2. /\ UNCHANGED <<shown, info, photos, back, cert, status, torn, edited, strayed>>
        /\ asked' = asked /\ cardType' = cardType
    BY DEF Confirm
  <1>3. /\ asked' \in Account \cup {None} /\ cardType' \in Card \cup {None}
        /\ strayed' \in BOOLEAN /\ (strayed => strayed')
    BY <1>1, <1>2 DEF TypeOK
  <1>4. info[shown] = None => strayed'
    <2>1. Len(stack) \in DOMAIN stack /\ stack[Len(stack)].kind = "confirm"
      BY <1>1, TopOpen DEF Confirm
    <2> QED
      BY <1>2, <2>1 DEF IInv, PagesOwned
  <1> QED
    BY <1>1, <1>2, <1>3, <1>4, OpenAuditKeeps

LEMMA RegisterKeeps == ASSUME IInv, Register PROVE IInv'
  <1>1. TypeOK /\ UNCHANGED <<shown, stored, cardType, app, asked, torn, edited, strayed>>
    BY DEF IInv, Register
  <1>2. /\ asked' \in Account \cup {None} /\ cardType' \in Card \cup {None}
        /\ strayed' \in BOOLEAN /\ (strayed => strayed')
    BY <1>1 DEF TypeOK
  <1>3. CASE /\ None \in {info[shown], hashes[shown], cert[shown]}
             /\ crashed' = "noCert"
             /\ UNCHANGED stack
    <2>1. PagesMove
      BY <1>1, <1>3, StayMoves
    <2>2. strayed'
      <3>1. /\ Len(stack) \in DOMAIN stack
            /\ stack[Len(stack)].kind = "audit"
            /\ app[stack[Len(stack)].app].stage = "passed"
        BY <1>1, TopOpen DEF Register, Registrable, Top
      <3> QED
        BY <1>1, <1>3, <3>1 DEF IInv, PagesOwned, Applied
    <2> QED
      BY <1>1, <1>2, <1>3, <2>1, <2>2, LightKeeps DEF Light
  <1>4. CASE Push(Plain("chain")) /\ UNCHANGED crashed
    BY <1>1, <1>2, <1>4, PushKeepsAll
  <1> QED
    BY <1>3, <1>4 DEF Register

LEMMA BackKeeps == ASSUME IInv, Back PROVE IInv'
  <1>1. /\ TypeOK /\ stack # <<>> /\ stack \in Seq(Page)
        /\ UNCHANGED <<shown, stored, cardType, app, asked, crashed, torn, edited, strayed>>
    BY DEF IInv, TypeOK, Back
  <1>2. PagesMove
    <2>1. CASE stack' = <<>>
      BY <1>1, <2>1, StayMoves
    <2>2. CASE stack' = SubSeq(stack, 1, Len(stack) - 1)
      <3>1. Len(stack) - 1 \in 0..Len(stack)
        BY <1>1
      <3> QED
        BY <1>1, <2>2, <3>1, CutMoves
    <2> QED
      BY <2>1, <2>2 DEF Back
  <1> QED
    BY <1>1, <1>2, LightKeeps DEF Light, TypeOK

LEMMA ReapplyKeeps == ASSUME IInv, Reapply PROVE IInv'
  <1>1. /\ TypeOK /\ stack \in Seq(Page)
        /\ UNCHANGED <<shown, stored, cardType, app, asked, torn, edited, strayed>>
        /\ crashed' = crashed \/ crashed' = "noPage"
    BY DEF IInv, TypeOK, Reapply
  <1>2. PICK i \in DOMAIN stack : stack' = SubSeq(stack, 1, i)
    BY DEF Reapply, OpenForms
  <1>3. i \in 0..Len(stack)
    BY <1>1
  <1>4. PagesMove
    BY <1>1, <1>2, <1>3, CutMoves
  <1> QED
    BY <1>1, <1>4, LightKeeps DEF Light, TypeOK

\* Steps that open no page: asking for the status, changing the account, and the card.
LEMMA AskKeeps ==
    ASSUME IInv,
           \/ AskStatus \/ StatusFailed
           \/ \E a \in Account : SelectWallet(a) \/ KeystoreImported(a)
           \/ \E card \in Card : PickCard(card)
    PROVE  IInv'
  <1>1. TypeOK
    BY DEF IInv
  <1>2. UNCHANGED <<stack, stored, app, crashed, torn, edited>>
    BY DEF AskStatus, StatusFailed, SelectWallet, KeystoreImported, PickCard
  <1>3. PagesMove
    BY <1>1, <1>2, StayMoves
  <1>4. asked' \in Account \cup {None} /\ cardType' \in Card \cup {None}
    BY <1>1 DEF TypeOK, AskStatus, StatusFailed, SelectWallet, KeystoreImported, PickCard
  <1>5. /\ strayed' \in BOOLEAN
        /\ strayed => strayed'
        /\ \/ shown' = shown
           \/ shown' \in Account /\ (stack' = <<>> \/ strayed')
    BY <1>1 DEF TypeOK, AskStatus, StatusFailed, SelectWallet, KeystoreImported, PickCard
  <1> QED
    BY <1>2, <1>3, <1>4, <1>5, LightKeeps DEF Light

LEMMA UseKeeps == ASSUME IInv, Use PROVE IInv'
  <1>0. TypeOK /\ shown \in Account /\ asked \in Account \cup {None} /\ strayed \in BOOLEAN
    BY DEF IInv, TypeOK
  <1>1. CASE OpenFromDetail
    <2>1. OpenKyc(shown) /\ cardType' \in Card \cup {None}
      BY <1>0, <1>1, CardKept DEF OpenFromDetail, OpenKyc
    <2>2. /\ UNCHANGED <<shown, info, photos, back, cert, status, torn, edited>>
          /\ asked' \in Account \cup {None}
          /\ strayed' = (strayed \/ shown # shown)
      BY <1>0, <1>1 DEF OpenFromDetail
    <2> QED
      BY <1>0, <2>1, <2>2, OpenKycKeeps
  <1>2. CASE StatusAnswered
    <2>1. OpenKyc(asked) /\ cardType' \in Card \cup {None}
      BY <1>0, <1>2, CardKept DEF StatusAnswered, OpenKyc
    <2>2. /\ UNCHANGED <<shown, info, photos, back, cert, status, torn, edited>>
          /\ asked' \in Account \cup {None}
          /\ asked \in Account
          /\ strayed' = (strayed \/ asked # shown)
      BY <1>0, <1>2 DEF StatusAnswered
    <2> QED
      BY <2>1, <2>2, OpenKycKeeps
  <1>3. CASE Resubmit
    <2>1. /\ Push(Plain("form")) /\ cardType' \in Card \cup {None}
          /\ UNCHANGED <<shown, stored, app, asked, crashed, torn, edited, strayed>>
      BY <1>0, <1>3, CardKept DEF Resubmit, OpenForm
    <2> QED
      BY <1>0, <2>1, PushKeepsAll
  <1> QED
    BY <1>1, <1>2, <1>3, BackKeeps, FormKeeps, ConfirmKeeps, ReapplyKeeps, RegisterKeeps,
       AskKeeps DEF Use

LEMMA StepIInv == IInv /\ [Next]_vars => IInv'
  <1> SUFFICES ASSUME IInv, [Next]_vars PROVE IInv'
    OBVIOUS
  <1>1. CASE UNCHANGED vars
    <2>1. UNCHANGED <<shown, stack, stored, cardType, app, asked, crashed, torn, edited, strayed>>
      BY <1>1 DEF vars
    <2>2. PagesMove
      BY <2>1, StayMoves DEF IInv
    <2> QED
      BY <2>1, <2>2, LightKeeps DEF Light, IInv, TypeOK
  <1>2. CASE Use
    BY <1>2, UseKeeps
  <1>3. CASE \E n \in Application : Answer(n)
    BY <1>3, AnswerKeeps
  <1>4. CASE Restart
    BY <1>4, RestartKeeps
  <1> QED
    BY <1>1, <1>2, <1>3, <1>4 DEF Next

LEMMA IInvOnePiece == IInv => RegistersOnePiece
  <1> SUFFICES ASSUME IInv, Registrable, ~edited[shown], ~strayed
               PROVE  /\ cert[shown] # None
                      /\ app[cert[shown]].account = shown
                      /\ info[shown] = app[cert[shown]].info
                      /\ hashes[shown] = app[cert[shown]].info
    BY DEF RegistersOnePiece
  <1> DEFINE i == Len(stack)
             n == stack[i].app
  <1>1. TypeOK
    BY DEF IInv
  <1>2. i \in DOMAIN stack /\ stack[i].kind = "audit" /\ app[n].stage = "passed"
    BY <1>1, TopOpen DEF Registrable, Top
  <1>3. n \in DOMAIN app /\ app[n].account = shown
    BY <1>2 DEF IInv, PagesOwned
  <1>4. Running(n)
    BY <1>2 DEF Running, OpenApps
  <1>5. /\ info[shown] = app[n].info
        /\ hashes[shown] = app[n].info
        /\ cert[shown] \in DOMAIN app
        /\ app[cert[shown]].account = shown
        /\ app[cert[shown]].info = info[shown]
    BY <1>2, <1>3, <1>4 DEF IInv, Single
  <1>6. cert[shown] # None
    BY <1>2, <1>3 DEF IInv, Applied
  <1> QED
    BY <1>5, <1>6

LEMMA Invariant == Spec => []IInv
  BY InitIInv, StepIInv, PTL DEF Spec

-----------------------------------------------------------------------------
\* Types, and with them what the pages of USEKYCAuditingVC cast without a check.
THEOREM TypeCorrect == Spec => []TypeOK
  <1>1. IInv => TypeOK
    BY DEF IInv
  <1> QED
    BY <1>1, Invariant, PTL

\* Neither opening the auditing page nor registering meets data that was never stored
\* (the forced casts of loadView), for an account no one changed under a page.
THEOREM DataStored == Spec => []NoDataMissed
  <1>1. IInv => NoDataMissed
    BY DEF IInv
  <1> QED
    BY <1>1, Invariant, PTL

\* The certificate, the data and the hashes a registration is made of belong together
\* (the registration button of USEKYCAuditingVC), after any number of applications.
THEOREM OnePieceRegistered == Spec => []RegistersOnePiece
  BY IInvOnePiece, Invariant, PTL

\* An application goes out with the photos of its own form (saveImage and upload), for any
\* number of accounts that share the files, unless its form was left half way or another
\* account has saved its photos since; with just these three, or these two, if the card
\* stored for all forms is still its own.
THEOREM OwnPhotos == Spec => []PhotosOfApplicant
  <1>1. IInv => PhotosOfApplicant
    BY DEF IInv
  <1> QED
    BY <1>1, Invariant, PTL
=============================================================================

------------------------------- MODULE KycAudit -------------------------------
(***************************************************************************)
(* Certification of an account: the form (USEKYCAuthenticationVC) stores the   *)
(* applicant's data under the account shown and the photos for all accounts,  *)
(* the auditing page (USEKYCAuditingVC) uploads both as soon as it opens, asks *)
(* for the certificate once and offers to register it on the chain.  Every     *)
(* answer is stored under the account shown when it comes, every page reads    *)
(* what is stored when it needs it.  The kind of card is one entry for all     *)
(* forms and accounts, and says which photos a form saves and an upload sends. *)
(*                                                                          *)
(* The authority and the chain are external.  A person and a card stand for   *)
(* the data a form is filled with and their hashes.  How a certificate         *)
(* request is made of the hashes is in CertName, what happens to a             *)
(* registration between the click and the chain in Sending; here it is the     *)
(* page that opens.  "form" stands for the form and the pages that lead to it  *)
(* (USEKYCInfoVC, USEKYCCAChooseVC); an auditing page knows its application.   *)
(***************************************************************************)
EXTENDS Integers, Sequences, FiniteSets

CONSTANTS
    Account,    \* accounts
    Person,     \* what a form may be filled with, but for the card
    Blank,      \* a form of empty fields
    None,       \* nil
    MaxApps,    \* applications (a bound for TLC)
    MaxDepth    \* pages on top of each other (a bound for TLC)

\* Why the app stops: data or a certificate that is not stored, a poll without answer,
\* going back to a page that was left.
Reason == {"noInfo", "noCert", "noAnswer", "noPage"}

Card == {"IDCard", "passport"}

Filled == [person : Person, card : Card]

Data == Filled \cup {Blank}

ASSUME KycAuditAssumption ==
    /\ MaxApps \in Nat
    /\ MaxDepth \in Nat
    /\ Blank \notin Filled
    /\ None \notin Account \cup Data
    /\ None \notin Nat
    /\ None \notin Reason

Application == 1..MaxApps

Page == [kind : {"form", "confirm", "chain", "audit"}, app : 0..MaxApps]

Plain(kind) == [kind |-> kind, app |-> 0]

\* Where an application is: uploaded, asked for its certificate, and the answers.
Stage == {"upload", "poll", "auditing", "failed", "passed", "dropped"}

VARIABLES
    shown,      \* the account shown (USECurrentAccountInfo)
    stack,      \* the open pages
    info,       \* KYCUserInfo of an account
    cardType,   \* kKycCardType: the card chosen last, in any form
    photos,     \* frontImage and HoldImage, always saved together: the form they are of
    back,       \* BackImage: the form it is of
    hashes,     \* KYCUserCerttypeIdAndDataHash of an account: the data hashed
    cert,       \* KYCUserCertStringKey of an account: the application certified
    status,     \* whether Auditing is stored for an account; its text is only shown
    app,        \* the applications uploaded
    asked,      \* the account whose status on the chain is asked for
    crashed,    \* why the app stopped, or None
    torn,       \* history: the last form of an account was not completed
    edited,     \* history: a form was sent while an application was under way
    strayed     \* history: the account was changed under an answer or a page

stored == <<info, photos, back, hashes, cert, status>>

vars == <<shown, stack, stored, cardType, app, asked, crashed, torn, edited, strayed>>

Outcome == {"auditing", "failed", "passed"}

Init ==
    /\ shown \in Account
    /\ stack = <<>>
    /\ info = [a \in Account |-> None]
    /\ cardType = None
    /\ photos = None
    /\ back = None
    /\ hashes = [a \in Account |-> None]
    /\ cert = [a \in Account |-> None]
    /\ status = [a \in Account |-> FALSE]
    /\ app = <<>>
    /\ asked = None
    /\ crashed = None
    /\ torn = [a \in Account |-> FALSE]
    /\ edited = [a \in Account |-> FALSE]
    /\ strayed = FALSE

-----------------------------------------------------------------------------
\* Pages.

Top == stack[Len(stack)]

OnTop(kind) == stack # <<>> /\ Top.kind = kind

Push(page) ==
    /\ Len(stack) < MaxDepth
    /\ stack' = Append(stack, page)

\* A form that opens begins with the identity card (viewDidLoad).
OpenForm ==
    /\ Push(Plain("form"))
    /\ cardType' = "IDCard"

OpenApps == {stack[i].app : i \in DOMAIN stack}

\* Mutant: the hashes of an earlier application are kept.
KeepHashes == IF hashes[shown] = None THEN info[shown] ELSE hashes[shown]

HashesOfInfo == info[shown]

FormOf(a) == [account |-> a, data |-> info[a]]

\* Mutant: all three photos, whatever the card is.
AllThree == {photos, back}

\* The photos an upload takes; without a card it is as with a passport.
Sent == IF cardType = "IDCard" THEN {photos, back} ELSE {photos}

\* History: an application of a would be sent with photos that are not of the form its
\* data are from, although the last form of a was completed and the photos are not of
\* another account's.  The back photo counts if the upload goes by the card of the data.
Mixed(a) ==
    /\ ~torn[a]
    /\ photos # None /\ photos.account = a
    /\ \/ photos # FormOf(a)
       \/ cardType = info[a].card /\ Sent # {FormOf(a)}

\* The auditing page opens (loadView): hashes, the certificate request, the upload.
\* Without stored data the forced cast stops the app.
OpenAudit ==
    \/ /\ info[shown] = None
       /\ crashed' = "noInfo"
       /\ UNCHANGED <<stack, hashes, app>>
    \/ /\ info[shown] # None
       /\ Len(app) < MaxApps
       /\ hashes' = [hashes EXCEPT ![shown] = HashesOfInfo]
       /\ app' = Append(app, [account |-> shown, info |-> info[shown],
                              mixed |-> Mixed(shown), stage |-> "upload"])
       /\ Push([kind |-> "audit", app |-> Len(app) + 1])
       /\ UNCHANGED crashed

\* Where the status button leads: to the last page if an application of the account
\* has a status, else to the first; a verified account goes to the chain page.
OpenKyc(a) ==
    \/ /\ status[a]
       /\ OpenAudit
       /\ UNCHANGED cardType
    \/ /\ ~status[a]
       /\ OpenForm
       /\ UNCHANGED <<hashes, app, crashed>>
    \/ /\ Push(Plain("chain"))
       /\ UNCHANGED <<hashes, cardType, app, crashed>>

\* From the wallet's page at once.
OpenFromDetail ==
    /\ stack = <<>>
    /\ OpenKyc(shown)
    /\ UNCHANGED <<shown, info, photos, back, cert, status, asked, torn, edited, strayed>>

\* From the first page after the chain was asked about the account.
AskStatus ==
    /\ stack = <<>>
    /\ asked = None
    /\ asked' = shown
    /\ UNCHANGED <<shown, stack, stored, cardType, app, crashed, torn, edited, strayed>>

\* The page opens for the account shown by now, on top of whatever is open.
StatusAnswered ==
    /\ asked # None
    /\ asked' = None
    /\ OpenKyc(asked)
    /\ strayed' = (strayed \/ asked # shown)
    /\ UNCHANGED <<shown, info, photos, back, cert, status, torn, edited>>

StatusFailed ==
    /\ asked # None
    /\ asked' = None
    /\ UNCHANGED <<shown, stack, stored, cardType, app, crashed, torn, edited, strayed>>

\* The back button; on the auditing page it leads all the way out.
Back ==
    /\ stack # <<>>
    /\ stack' = IF OnTop("audit") THEN <<>> ELSE SubSeq(stack, 1, Len(stack) - 1)
    /\ UNCHANGED <<shown, stored, cardType, app, asked, crashed, torn, edited, strayed>>

\* The user selects a wallet in the list, see WalletRegistry.
SelectWallet(a) ==
    /\ stack = <<>>
    /\ shown' = a
    /\ UNCHANGED <<stack, stored, cardType, app, asked, crashed, torn, edited, strayed>>

\* A keystore import that was left behind ends, whatever page is open.
KeystoreImported(a) ==
    /\ a # shown
    /\ shown' = a
    /\ strayed' = (strayed \/ stack # <<>>)
    /\ UNCHANGED <<stack, stored, cardType, app, asked, crashed, torn, edited>>

-----------------------------------------------------------------------------
\* The form and what follows.

\* An application of the account is under way, or its page still open.
UnderWay(a) ==
    \E n \in DOMAIN app :
        /\ app[n].account = a
        /\ app[n].stage \in {"upload", "poll"} \/ n \in OpenApps

\* Mutant: the form begins by removing what is stored.
Removed == None

FirstWritten == Blank

\* The two buttons of the form.  The one chosen already does nothing, but after the
\* other it sets the card, so either card can be reached.
PickCard(card) ==
    /\ OnTop("form")
    /\ cardType' = card
    /\ UNCHANGED <<shown, stack, stored, app, asked, crashed, torn, edited, strayed>>

\* The certtype that goes into the data.
CertType == IF cardType = "IDCard" THEN "IDCard" ELSE "passport"

\* The files have the same names for every account; a passport has no back photo and
\* leaves the one that is there.
SaveImages(data) ==
    /\ photos' = [account |-> shown, data |-> data]
    /\ back' = IF data.card = "IDCard" THEN photos' ELSE back

\* nextStep: empty fields are stored before any is checked, the data before the photos
\* are, and a missing field or photo ends it there.
NextStep ==
    /\ OnTop("form")
    /\ \/ /\ info' = [info EXCEPT ![shown] = FirstWritten]
          /\ torn' = [torn EXCEPT ![shown] = TRUE]
          /\ UNCHANGED <<photos, back, stack>>
       \/ \E p \in Person :
             LET data == [person |-> p, card |-> CertType] IN
             /\ info' = [info EXCEPT ![shown] = data]
             /\ \/ /\ torn' = [torn EXCEPT ![shown] = TRUE]
                   /\ UNCHANGED <<photos, back, stack>>
                \/ /\ torn' = [torn EXCEPT ![shown] = FALSE]
                   /\ SaveImages(data)
                   /\ Push(Plain("confirm"))
    /\ edited' = [edited EXCEPT ![shown] = @ \/ UnderWay(shown)]
    /\ UNCHANGED <<shown, hashes, cert, status, cardType, app, asked, crashed, strayed>>

Confirm ==
    /\ OnTop("confirm")
    /\ OpenAudit
    /\ UNCHANGED <<shown, info, photos, back, cert, status, cardType, asked, torn,
                   edited, strayed>>

\* A rejected registration leads back to the form.
Resubmit ==
    /\ OnTop("chain")
    /\ OpenForm
    /\ UNCHANGED <<shown, stored, app, asked, crashed, torn, edited, strayed>>

OpenForms == {i \in DOMAIN stack : stack[i].kind = "form"}

\* 重新认证 goes back to the form, if there is one below.  With several of them it goes
\* to the first, and on to the next, which is gone by then: what UIKit makes of that is
\* its own, up to an exception.
Reapply ==
    /\ OnTop("audit")
    /\ app[Top.app].stage = "failed"
    /\ \E i \in OpenForms :
          /\ \A j \in OpenForms : i <= j
          /\ stack' = SubSeq(stack, 1, i)
    /\ \/ UNCHANGED crashed
       \/ Cardinality(OpenForms) > 1 /\ crashed' = "noPage"
    /\ UNCHANGED <<shown, stored, cardType, app, asked, torn, edited, strayed>>

\* 上链: the registration is put together from what is stored under the account shown,
\* and the chain page opens when it is sent.
Registrable ==
    /\ OnTop("audit")
    /\ app[Top.app].stage = "passed"

Register ==
    /\ Registrable
    /\ \/ /\ None \in {info[shown], hashes[shown], cert[shown]}
          /\ crashed' = "noCert"
          /\ UNCHANGED stack
       \/ /\ None \notin {info[shown], hashes[shown], cert[shown]}
          /\ Push(Plain("chain"))
          /\ UNCHANGED crashed
    /\ UNCHANGED <<shown, stored, cardType, app, asked, torn, edited, strayed>>

-----------------------------------------------------------------------------
\* The answers of the authority to an application.

Becomes(n, stage) == app' = [app EXCEPT ![n].stage = stage]

Strays(n) == strayed' = (strayed \/ app[n].account # shown)

Uploaded(n) ==
    /\ app[n].stage = "upload"
    /\ Becomes(n, "poll")
    /\ UNCHANGED <<stored, crashed, strayed>>

UploadFailed(n) ==
    /\ app[n].stage = "upload"
    /\ Becomes(n, "failed")
    /\ status' = [status EXCEPT ![shown] = TRUE]
    /\ Strays(n)
    /\ UNCHANGED <<info, photos, back, hashes, cert, crashed>>

\* The certificate is asked for once.
Polled(n) ==
    /\ app[n].stage = "poll"
    /\ \E outcome \in Outcome :
          /\ Becomes(n, outcome)
          /\ status' = [status EXCEPT ![shown] = TRUE]
          /\ cert' = IF outcome = "passed" THEN [cert EXCEPT ![shown] = n] ELSE cert
    /\ Strays(n)
    /\ UNCHANGED <<info, photos, back, hashes, crashed>>

\* No answer to the poll: the forced cast of it stops the app.
PollFailed(n) ==
    /\ app[n].stage = "poll"
    /\ crashed' = "noAnswer"
    /\ UNCHANGED <<stored, app, strayed>>

Answer(n) ==
    /\ n \in DOMAIN app
    /\ Uploaded(n) \/ UploadFailed(n) \/ Polled(n) \/ PollFailed(n)
    /\ UNCHANGED <<shown, stack, cardType, asked, torn, edited>>

\* The app is started again, after a crash or not: pages and requests are gone.
Restart ==
    /\ stack' = <<>>
    /\ asked' = None
    /\ crashed' = None
    /\ app' = [n \in DOMAIN app |->
                 IF app[n].stage \in {"upload", "poll"}
                     THEN [app[n] EXCEPT !.stage = "dropped"] ELSE app[n]]
    /\ UNCHANGED <<shown, stored, cardType, torn, edited, strayed>>

Use ==
    \/ OpenFromDetail \/ AskStatus \/ StatusAnswered \/ StatusFailed \/ Back
    \/ NextStep \/ Confirm \/ Resubmit \/ Reapply \/ Register
    \/ \E a \in Account : SelectWallet(a) \/ KeystoreImported(a)
    \/ \E card \in Card : PickCard(card)

Next ==
    \/ crashed = None /\ (Use \/ \E n \in Application : Answer(n))
    \/ Restart

Spec == Init /\ [][Next]_vars

-----------------------------------------------------------------------------
Form == [account : Account, data : Filled]

Upload == [account : Account, info : Data, mixed : BOOLEAN, stage : Stage]

TypeOK ==
    /\ shown \in Account
    /\ stack \in Seq(Page)
    /\ info \in [Account -> Data \cup {None}]
    /\ cardType \in Card \cup {None}
    /\ photos \in Form \cup {None}
    /\ back \in Form \cup {None}
    /\ hashes \in [Account -> Data \cup {None}]
    /\ cert \in [Account -> Application \cup {None}]
    /\ status \in [Account -> BOOLEAN]
    /\ app \in Seq(Upload)
    /\ asked \in Account \cup {None}
    /\ crashed \in Reason \cup {None}
    /\ torn \in [Account -> BOOLEAN]
    /\ edited \in [Account -> BOOLEAN]
    /\ strayed \in BOOLEAN

\* No page is opened for an account without stored data, and no certificate
\* registered that was never stored, as long as the account is not changed under an
\* answer or an open page: after any forms left half way, failures and restarts.
NoDataMissed == crashed \in {"noInfo", "noCert"} => strayed

\* Whenever a registration can be sent, what it is put together from is of one piece:
\* the certificate was issued to this account for the data whose hashes and whose
\* encryption go with it, however often the account applied before, unless a form
\* was sent while an application was under way or its page open, or the account
\* changed meanwhile.
RegistersOnePiece ==
    Registrable /\ ~edited[shown] /\ ~strayed =>
        /\ cert[shown] # None
        /\ app[cert[shown]].account = shown
        /\ info[shown] = app[cert[shown]].info
        /\ hashes[shown] = app[cert[shown]].info

\* An application is sent with the photos of the form its data are from, unless that
\* form was not completed or another account has saved its photos since.  Of the back
\* photo this is claimed when the card is still that of the data: a form that is only
\* opened, for any account, resets it, and then a passport is sent with the back photo
\* of an earlier form; with a passport chosen since, an identity card without its own.
PhotosOfApplicant == \A n \in DOMAIN app : ~app[n].mixed
=============================================================================

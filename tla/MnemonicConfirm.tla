--------------------------- MODULE MnemonicConfirm ---------------------------
(***************************************************************************)
(* The page on which the user of a new wallet proves to have written its     *)
(* phrase down (USEConfrimMnemonicNewVC): the words are shuffled onto        *)
(* buttons (Random.number), to be tapped in the order of the phrase.         *)
(*                                                                          *)
(* Buttons and places of the phrase are numbered from 1 here, from 0 there.  *)
(* The wallet that is added at the end is ConfirmCreated of WalletRegistry.  *)
(* CM, confirm mnemonic, tells this specification from that of Contacts,     *)
(* where both are used.                                                     *)
(***************************************************************************)
EXTENDS Integers, Sequences

CONSTANTS
    N,        \* the number of words, 12 in the app
    Word,     \* words
    Phrase    \* the drawn phrase, in which a word may occur more than once

Place == 1..N

ASSUME PhraseAssumption ==
    /\ N \in Nat \ {0}
    /\ Phrase \in [Place -> Word]

VARIABLES
    start,     \* startArr of Random.number
    result,    \* resultArr of Random.number: the place of the word on a button
    drawn,     \* how many of them are drawn
    page,      \* whether the page is open, left, done with, or crashed
    loaded,    \* correctWordsArray is not empty
    chosen,    \* userSlecteIndexArray: buttons in the order they were selected
    selected,  \* isSelected of the buttons
    enabled,   \* isEnabled of the buttons
    correctSelectIndex  \* words confirmed so far

shuffle == <<start, result, drawn>>
buttons == <<chosen, selected, enabled, correctSelectIndex>>
cmVars  == <<shuffle, page, loaded, buttons>>

WordOn(b) == Phrase[result[b]]

\* loadView of a new page.
Everywhere(v) == [i \in Place |-> v]

CMInit ==
    /\ start = [i \in Place |-> i]
    /\ result = Everywhere(0)
    /\ drawn = 0
    /\ page = "open"
    /\ loaded = TRUE
    /\ chosen = <<>>
    /\ selected = Everywhere(FALSE)
    /\ enabled = Everywhere(TRUE)
    /\ correctSelectIndex = 0

-----------------------------------------------------------------------------
\* Mutant: the last of the remaining numbers does not take the place of the
\* drawn one.
DrawLeavesIt(j) ==
    /\ drawn < N
    /\ j <= N - drawn
    /\ result' = [result EXCEPT ![drawn + 1] = start[j]]
    /\ drawn' = drawn + 1
    /\ UNCHANGED <<start, page, loaded, buttons>>

\* One round of the shuffle: a random one of the remaining numbers.
Draw(j) ==
    /\ drawn < N
    /\ j <= N - drawn
    /\ result' = [result EXCEPT ![drawn + 1] = start[j]]
    /\ start' = [start EXCEPT ![j] = start[N - drawn]]
    /\ drawn' = drawn + 1
    /\ UNCHANGED <<page, loaded, buttons>>

\* Mutant: a button stays enabled when its word is confirmed.
AnyButton(b) == page = "open" /\ drawn = N

Clickable(b) ==
    /\ page = "open"
    /\ drawn = N
    /\ enabled[b]

\* Mutant: other words that are selected do not matter.
IsNextWord(b) == WordOn(b) = Phrase[correctSelectIndex + 1]

\* The word is the next one and nothing else is selected besides those before.
IsNext(b) == WordOn(b) = Phrase[correctSelectIndex + 1] /\ Len(chosen) = correctSelectIndex

\* correctWordsArray[correctSelectIndex] does not exist.
OutOfRange == ~loaded \/ correctSelectIndex = N

\* Another word is only selected; so is the next word while another is.
Select(b) ==
    /\ Clickable(b)
    /\ ~selected[b]
    /\ selected' = [selected EXCEPT ![b] = TRUE]
    /\ chosen' = Append(chosen, b)
    /\ \/ /\ OutOfRange
          /\ page' = "crashed"
          /\ UNCHANGED <<correctSelectIndex, enabled>>
       \/ /\ ~OutOfRange /\ IsNext(b)
          /\ correctSelectIndex' = correctSelectIndex + 1
          /\ enabled' = [enabled EXCEPT ![b] = FALSE]
          /\ UNCHANGED page
       \/ /\ ~OutOfRange /\ ~IsNext(b)
          /\ UNCHANGED <<page, correctSelectIndex, enabled>>
    /\ UNCHANGED <<shuffle, loaded>>

\* Mutant: the last selected word is removed, whichever was tapped.
WithoutLast(s, i) == SubSeq(s, 1, Len(s) - 1)

Without(s, i) == [j \in 1..(Len(s) - 1) |-> IF j < i THEN s[j] ELSE s[j + 1]]

Deselect(b) ==
    /\ Clickable(b)
    /\ selected[b]
    /\ selected' = [selected EXCEPT ![b] = FALSE]
    /\ \/ /\ \E i \in DOMAIN chosen :
                /\ chosen[i] = b
                /\ \A j \in 1..(i - 1) : chosen[j] # b
                /\ chosen' = Without(chosen, i)
          /\ UNCHANGED page
       \/ /\ \A i \in DOMAIN chosen : chosen[i] # b
          /\ page' = IF OutOfRange THEN "crashed" ELSE page
          /\ UNCHANGED chosen
    /\ UNCHANGED <<shuffle, loaded, enabled, correctSelectIndex>>

\* viewWillDisappear.
Cleared ==
    /\ loaded' = FALSE
    /\ chosen' = <<>>
    /\ correctSelectIndex' = 0
    /\ UNCHANGED <<shuffle, selected, enabled>>

\* A swipe back that is not completed: the page disappears and appears again.
SwipeUnfinished ==
    /\ page = "open"
    /\ drawn = N
    /\ Cleared
    /\ UNCHANGED page

Leave ==
    /\ page = "open"
    /\ drawn = N
    /\ page' = "left"
    /\ Cleared

AllConfirmed == correctSelectIndex = N

Confirm ==
    /\ page = "open"
    /\ drawn = N
    /\ AllConfirmed
    /\ page' = "confirmed"
    /\ Cleared

\* The phrase page opens the page again, or the app is started again and the
\* user creates another wallet.
Reopen ==
    /\ page # "open"
    /\ start' = [i \in Place |-> i]
    /\ result' = Everywhere(0)
    /\ drawn' = 0
    /\ page' = "open"
    /\ loaded' = TRUE
    /\ chosen' = <<>>
    /\ selected' = Everywhere(FALSE)
    /\ enabled' = Everywhere(TRUE)
    /\ correctSelectIndex' = 0

CMNext ==
    \/ \E j \in Place : Draw(j)
    \/ \E b \in Place : Select(b) \/ Deselect(b)
    \/ SwipeUnfinished
    \/ Leave
    \/ Confirm
    \/ Reopen

CMSpec == CMInit /\ [][CMNext]_cmVars

-----------------------------------------------------------------------------
TypeOK ==
    /\ start \in [Place -> Place]
    /\ result \in [Place -> 0..N]
    /\ drawn \in 0..N
    /\ page \in {"open", "left", "confirmed", "crashed"}
    /\ loaded \in BOOLEAN
    /\ chosen \in Seq(Place)
    /\ selected \in [Place -> BOOLEAN]
    /\ enabled \in [Place -> BOOLEAN]
    /\ correctSelectIndex \in 0..N

\* The shuffle puts every word on one button: no word twice, so none missing.
EveryWordOnce ==
    drawn = N =>
        /\ \A b \in Place : result[b] \in Place
        /\ \A b, c \in Place : result[b] = result[c] => b = c

\* The words confirmed are the first ones selected, they spell the beginning of
\* the phrase, and they alone are disabled.
ConfirmedSpellPhrase ==
    loaded =>
        /\ correctSelectIndex <= Len(chosen)
        /\ \A i \in 1..correctSelectIndex : WordOn(chosen[i]) = Phrase[i]
        /\ \A b \in Place : ~enabled[b] <=> \E i \in 1..correctSelectIndex : chosen[i] = b

\* A wallet is added only after the whole phrase was spelled.
AddedWhenSpelled ==
    [][page' = "confirmed" /\ page # "confirmed" =>
          /\ N <= Len(chosen)
          /\ \A i \in Place : WordOn(chosen[i]) = Phrase[i]]_cmVars

\* Whatever was tapped, the next word is on a button that can be tapped, and
\* deselecting it and all others once leads on: there is no dead end.
NoDeadEnd ==
    page = "open" /\ loaded /\ drawn = N /\ correctSelectIndex < N =>
        /\ \E b \in Place : enabled[b] /\ WordOn(b) = Phrase[correctSelectIndex + 1]
        /\ \A b \in Place : enabled[b] =>
               (selected[b] <=> \E i \in DOMAIN chosen : chosen[i] = b)

\* A tap crashes the app only after a cancelled swipe emptied the words.
CrashOnlyAfterSwipe == page = "crashed" => ~loaded
=============================================================================

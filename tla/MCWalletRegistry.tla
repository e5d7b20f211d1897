-------------------------- MODULE MCWalletRegistry --------------------------
(***************************************************************************)
(* Values of the constants of WalletRegistry for TLC.  Addresses are named   *)
(* after the stores they belong to; the private key k1 is that of the        *)
(* account of the phrase m1.  A sub account's key is its derivation.         *)
(***************************************************************************)
EXTENDS WalletRegistry

CONSTANTS ImportKey, m1, m2, k1, k2, n1, n2, p1, p2, t1, t2

OneMnemonic  == {m1}
TwoMnemonics == {m1, m2}
NoKey        == {}
BothKeys     == {k1, k2}
OneName      == {n1}
OnePasscode  == {p1}
TwoPasscodes == {p1, p2}
OneTap       == {t1}
TwoTaps      == {t1, t2}

\* Bound of the pages: what follows a kill in a handler is not explored.
NotTorn == ~torn

\* Bound of the sub accounts: what follows a kill is explored with no keystore under way
\* and no crossing, and what follows a crossing, or comes under one, without a kill.
QuietOnceTorn == torn => ~crossed /\ \A t \in Tap : app.decrypting[t] = None

\* A deletion that is killed again and again repeats the wallet in the recover list.
FewRecoverable == Len(ud.recover) <= 2

Accounts == Mnemonic \cup (ImportKey \ {k1})

Derivations == Accounts \X Mnemonic \X (1..MaxSlot)

Keys      == ImportKey \cup Derivations
Addresses == Accounts \cup Derivations

StoreAddress == [s \in Store |-> IF s = k1 THEN m1 ELSE s]

Derived == [d \in Derivations |-> d]
=============================================================================

------------------------------- MODULE CertName -------------------------------
(***************************************************************************)
(* The certificate request of a KYC application: generateCsr spells two       *)
(* hashes as a subject "/CN=h1/serialNumber=h2/", GenCSR has parse_name       *)
(* (pkcs10header.c) read it into a name and makes a request of it.            *)
(* parse_name is modelled step by step: a pointer into the subject (sp), one   *)
(* into the buffer the types and values are copied to (bp), and three arrays  *)
(* whose length is guessed from the subject's.                              *)
(*                                                                          *)
(* A character is one byte, save that "CN" and "serialNumber" count as one.    *)
(* multirdn is 0 in the only call, so that + is text like any other.  Keys,   *)
(* attributes and the signature are left out of the request.                  *)
(***************************************************************************)
EXTENDS Integers, Sequences, SequencesExt

CONSTANTS
    Char,       \* characters
    Known,      \* the types OpenSSL has a number for (OBJ_txt2nid)
    Subject,    \* subjects
    Meant,      \* lists of elements, of which some spell a subject
    None        \* nil

Text == Seq(Char)

Element == [type : Text, value : Text]

ASSUME CertNameAssumption ==
    /\ {"/", "=", "\\"} \subseteq Char
    /\ Known \subseteq Text
    /\ Subject \subseteq Text
    /\ Meant \subseteq Seq(Element)
    /\ None \notin Seq(Element)

VARIABLES
    subject,    \* the subject
    meant,      \* history: the elements it was spelled from, or None
    state,      \* where parse_name is
    sp,         \* the next character of the subject, from 1
    bp,         \* characters written to buf
    type,       \* the type and the value being copied
    value,
    elements,   \* ne_types and ne_values: the elements read
    mvals,      \* entries of mval that are set
    next,       \* the element to be added to the name next
    name,       \* the entries of the name
    csr         \* the subject of the request

parsing == <<sp, bp, type, value, elements, mvals>>

vars == <<subject, meant, state, parsing, next, name, csr>>

State == {"start", "type", "value", "add", "named", "malformed", "no memory"}

\* The lengths parse_name allocates.
BufLen == Len(subject) + 1

\* Mutant: an element takes at least three characters.
ThreeEach == BufLen \div 3 + 1

MaxNe == BufLen \div 2 + 1

-----------------------------------------------------------------------------
\* How a subject is spelled: special characters are escaped, every element ends
\* with a slash.

Special == {"/", "=", "\\"}

Escaped(text) ==
    FlattenSeq([i \in DOMAIN text |->
        IF text[i] \in Special THEN <<"\\", text[i]>> ELSE <<text[i]>>])

SpelledWith(Spell(_), list) ==
    <<"/">> \o FlattenSeq([i \in DOMAIN list |->
        Spell(list[i].type) \o <<"=">> \o Spell(list[i].value) \o <<"/">>])

Spelled(list) == SpelledWith(Escaped, list)

\* generateCsr: the elements of an application, with the hashes as values.
Application(h1, h2) ==
    <<[type |-> <<"CN">>, value |-> <<h1>>], [type |-> <<"serialNumber">>, value |-> <<h2>>]>>

Init ==
    /\ \/ subject \in Subject /\ meant = None
       \/ \E list \in Meant :
              /\ Spelled(list) \in Subject
              /\ subject = Spelled(list)
              /\ meant = list
    /\ state = "start"
    /\ sp = 1
    /\ bp = 0
    /\ type = <<>>
    /\ value = <<>>
    /\ elements = <<>>
    /\ mvals = 0
    /\ next = 1
    /\ name = <<>>
    /\ csr = None

-----------------------------------------------------------------------------
\* parse_name.

More == sp <= Len(subject)

Stop(reason) ==
    /\ state' = reason
    /\ UNCHANGED <<subject, meant, parsing, next, name, csr>>

\* The outer loop goes on while there is a character.
NextElement(p) == IF p <= Len(subject) THEN "type" ELSE "add"

Start ==
    /\ state = "start"
    /\ More
    /\ subject[1] = "/"
    /\ sp' = 2
    /\ mvals' = 1
    /\ state' = NextElement(2)
    /\ UNCHANGED <<subject, meant, bp, type, value, elements, next, name, csr>>

NoSlash ==
    /\ state = "start"
    /\ More => subject[1] # "/"
    /\ Stop("malformed")

\* malloc fails: for the arrays at the start, for the name and its entries at the end.
NoMemory ==
    /\ state \in {"start", "add"}
    /\ Stop("no memory")

\* Mutant: a value goes on to the next equals sign.
OneDelimiter == [type |-> "=", value |-> "="]

\* What ends a type and what ends a value.
Delimiter == [type |-> "=", value |-> "/"]

Collecting == state \in {"type", "value"}

\* Mutant: the backslash is copied with the character it escapes.
CopyEscape(c, n) ==
    /\ sp' = sp + n
    /\ bp' = bp + n
    /\ type' = IF state = "type" THEN type \o SubSeq(subject, sp, sp + n - 1) ELSE type
    /\ value' = IF state = "value" THEN value \o SubSeq(subject, sp, sp + n - 1) ELSE value

\* One character of the type or value, of n of the subject.
Copy(c, n) ==
    /\ sp' = sp + n
    /\ bp' = bp + 1
    /\ type' = IF state = "type" THEN Append(type, c) ELSE type
    /\ value' = IF state = "value" THEN Append(value, c) ELSE value

Collect ==
    /\ Collecting
    /\ More
    /\ \/ /\ subject[sp] = "\\"
          /\ sp < Len(subject)
          /\ Copy(subject[sp + 1], 2)
       \/ /\ subject[sp] \notin {"\\", Delimiter[state]}
          /\ Copy(subject[sp], 1)
    /\ UNCHANGED <<subject, meant, state, elements, mvals, next, name, csr>>

TrailingEscape ==
    /\ Collecting
    /\ sp = Len(subject)
    /\ subject[sp] = "\\"
    /\ Stop("malformed")

\* A type ends with "="; a subject that ends there, or before, is refused.
TypeEnds ==
    /\ state = "type"
    /\ More
    /\ subject[sp] = Delimiter["type"]
    /\ sp' = sp + 1
    /\ bp' = bp + 1
    /\ state' = IF sp < Len(subject) THEN "value" ELSE "malformed"
    /\ UNCHANGED <<subject, meant, type, value, elements, mvals, next, name, csr>>

NoValue ==
    /\ state = "type"
    /\ ~More
    /\ Stop("malformed")

\* A value ends with "/", which announces another element, or with the subject.
ValueEnds ==
    /\ state = "value"
    /\ \/ /\ More
          /\ subject[sp] = Delimiter["value"]
          /\ sp' = sp + 1
          /\ mvals' = mvals + 1
       \/ /\ ~More
          /\ UNCHANGED <<sp, mvals>>
    /\ bp' = bp + 1
    /\ elements' = Append(elements, [type |-> type, value |-> value])
    /\ type' = <<>>
    /\ value' = <<>>
    /\ state' = NextElement(sp')
    /\ UNCHANGED <<subject, meant, next, name, csr>>

\* The name has an entry for every element of a known type with a value.
Entry(e) == e.type \in Known /\ e.value # <<>>

AddEntry ==
    /\ state = "add"
    /\ next <= Len(elements)
    /\ next' = next + 1
    /\ name' = IF Entry(elements[next]) THEN Append(name, elements[next]) ELSE name
    /\ UNCHANGED <<subject, meant, state, parsing, csr>>

Named ==
    /\ state = "add"
    /\ next > Len(elements)
    /\ Stop("named")

-----------------------------------------------------------------------------
\* GenCSR does not look at what parse_name returned: without a name the request
\* has an empty subject.
Request ==
    /\ csr = None
    /\ \/ state = "named" /\ csr' = name
       \/ state \in {"malformed", "no memory"} /\ csr' = <<>>
    /\ UNCHANGED <<subject, meant, state, parsing, next, name>>

Next ==
    \/ Start \/ NoSlash \/ NoMemory
    \/ Collect \/ TrailingEscape \/ TypeEnds \/ NoValue \/ ValueEnds
    \/ AddEntry \/ Named \/ Request

Spec == Init /\ [][Next]_vars

-----------------------------------------------------------------------------
TypeOK ==
    /\ subject \in Text
    /\ meant \in Seq(Element) \cup {None}
    /\ state \in State
    /\ sp \in Nat
    /\ bp \in Nat
    /\ type \in Text
    /\ value \in Text
    /\ elements \in Seq(Element)
    /\ mvals \in Nat
    /\ next \in Nat \ {0}
    /\ name \in Seq(Element)
    /\ csr \in Seq(Element) \cup {None}

\* Whatever the subject, parse_name writes only to what it has allocated: the
\* characters copied fit into buf, the element being read has its place in
\* ne_types and ne_values, the entry of mval set in advance is there, and
\* nothing is read after the subject's end.
InBounds ==
    /\ sp <= Len(subject) + 1
    /\ bp <= BufLen
    /\ mvals <= MaxNe
    /\ Collecting => Len(elements) < MaxNe

Entries(list) ==
    FlattenSeq([i \in DOMAIN list |-> IF Entry(list[i]) THEN <<list[i]>> ELSE <<>>])

\* The request carries what was spelled: every element of a known type with a value,
\* with its own characters even where they are special ones, in order; no spelling
\* is refused but for want of memory.
RoundTrip ==
    meant # None =>
        /\ state # "malformed"
        /\ csr \notin {None, <<>>} => csr = Entries(meant)
        /\ csr = <<>> => state = "no memory" \/ Entries(meant) = <<>>

AsIs(text) == text

\* No character of a subject is dropped or moved from one element to another:
\* without escapes, the elements spelled out again are the subject, with a slash at
\* its end where there was none.
NothingDropped ==
    state = "add" /\ "\\" \notin Range(subject) =>
        SpelledWith(AsIs, elements) \in {subject, Append(subject, "/")}
=============================================================================

------------------------------ MODULE MCCertName ------------------------------
(***************************************************************************)
(* Values of the constants of CertName for TLC: every subject of up to         *)
(* MaxLength characters, and every list of up to two elements, of types and    *)
(* values with special characters or none, spelled out; the application's own *)
(* among them, and a list of empty elements only.                             *)
(***************************************************************************)
EXTENDS CertName, TLC

CONSTANT MaxLength

Chars == {"/", "=", "\\", "CN", "x"}

KnownTypes == {<<"CN">>, <<"serialNumber">>, <<"CN", "/">>}

AllChars == Chars \cup {"serialNumber"}

Types == {<<>>, <<"CN">>, <<"CN", "/">>, <<"x", "=">>, <<"\\">>}

Values == {<<>>, <<"x">>, <<"x", "/">>, <<"=", "CN">>, <<"\\", "\\">>}

Elements == [type : Types, value : Values]

Lists ==
    (UNION {[1..n -> Elements] : n \in 0..2})
        \cup {Application("x", "CN"), [i \in 1..4 |-> [type |-> <<>>, value |-> <<>>]]}

Subjects ==
    (UNION {[1..n -> Chars] : n \in 0..MaxLength}) \cup {Spelled(list) : list \in Lists}
=============================================================================

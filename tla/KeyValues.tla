------------------------------ MODULE KeyValues ------------------------------
(***************************************************************************)
(* The text form of a KLKVMap (kludf.py), in which requests and signals    *)
(* travel: key=value pairs, separated by ";", and nothing is escaped.  A   *)
(* text is a sequence of characters, a map the sequence of its items.      *)
(***************************************************************************)
EXTENDS Naturals, Sequences, SequencesExt

PairEnd == ";"      \* between two pairs
KeyEnd == "="       \* between a key and its value

Written(item) == item[1] \o << KeyEnd >> \o item[2]

Separated(separator, pieces) ==
    [i \in DOMAIN pieces |-> (IF i = 1 THEN << >> ELSE << separator >>) \o pieces[i]]

Serialize(items) == FlattenSeq(Separated(PairEnd, [i \in DOMAIN items |-> Written(items[i])]))

(* The pieces of a text between one `separator` and the next: the places   *)
(* where they end are found by counting those before.                      *)
Ends(text, separator) == {i \in 1 .. Len(text) : text[i] = separator} \cup {0, Len(text) + 1}

Split(text, separator) ==
    LET ends == Ends(text, separator)
        End(n) == CHOOSE i \in ends : Cardinality({j \in ends : j < i}) = n
    IN  [n \in 1 .. Cardinality(ends) - 1 |-> SubSeq(text, End(n - 1) + 1, End(n) - 1)]

(* Mutant: a pair is split at every "=".                                   *)
PairOfTwo(text) ==
    LET parts == Split(text, KeyEnd) IN IF Len(parts) = 2 THEN parts ELSE << >>

(* split("=", maxsplit=1), if it has two parts.                            *)
Pair(text) ==
    LET n == SelectInSeq(text, LAMBDA c : c = KeyEnd)
    IN  IF n = 0 THEN << >>
        ELSE << SubSeq(text, 1, n - 1), SubSeq(text, n + 1, Len(text)) >>

(* A later pair replaces an earlier one of the same key.                   *)
Deserialize(text) ==
    LET pieces == Split(text, PairEnd)
        pairs == {n \in DOMAIN pieces : Pair(pieces[n]) # << >>}
        Key(n) == Pair(pieces[n])[1]
        Latest(key) == CHOOSE n \in pairs : Key(n) = key /\ \A m \in pairs : Key(m) = key => m <= n
    IN  [key \in {Key(n) : n \in pairs} |-> Pair(pieces[Latest(key)])[2]]
=============================================================================

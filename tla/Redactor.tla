------------------------------ MODULE Redactor ------------------------------
(***************************************************************************)
(* What is taken out of a line before it is written anywhere a person may  *)
(* copy it from (src/src/log.rs: redactar, corte, espacios).               *)
(*                                                                         *)
(* A line is a sequence of tokens: the names of the sensitive fields, what *)
(* may separate a field from its value, a space, the newline, the value    *)
(* itself, and Word for any other text.  A key in base64 ends in "=", which *)
(* is a token of its own.                                                  *)
(***************************************************************************)
EXTENDS Integers, Sequences, FiniteSets

Secretas == {"network_secret", "local_private_key", "credential_secret"}
Separators == {"=", ":"}
Space == " "
NewLine == "\n"
Secret == "secret"
Word == "word"
Tapado == "<redactado>"
Token == Secretas \cup Separators \cup {Space, NewLine, Secret, Word, Tapado}

Keys(line) == {j \in DOMAIN line : line[j] \in Secretas}

(* Variant to be caught: what this was at first, which knew of "=" alone. *)
SeparatorsAfterEquals(line, j) == {i \in (j + 1)..Len(line) : line[i] = "="}

SeparatorsAfter(line, j) == {i \in (j + 1)..Len(line) : line[i] \in Separators}

(* Position i is past what key j keeps: its first separator and the spaces  *)
(* after it, or nothing past the key when no separator follows.             *)
Covers(line, j, i) ==
    \/ SeparatorsAfter(line, j) = {} /\ i > j
    \/ \E s \in SeparatorsAfter(line, j) : \E t \in (s + 1)..i : line[t] # Space

(* Of all the keys on a line, the earliest cut wins: what is kept is the    *)
(* beginning of the line, up to what some key covers.                       *)
Kept(line) == {i \in DOMAIN line : \A j \in Keys(line) : ~Covers(line, j, i)}
Corte(line) == Cardinality(Kept(line))

Ending(line) == IF line # <<>> /\ line[Len(line)] = NewLine THEN <<NewLine>> ELSE <<>>

RedactLine(line) ==
    IF Keys(line) = {} THEN line
    ELSE SubSeq(line, 1, Corte(line)) \o <<Tapado>> \o Ending(line)

(* A value the field's name announces: a separator stands between the two,  *)
(* or none follows the name at all.                                         *)
Announced(line, i) ==
    \E j \in Keys(line) :
        /\ j < i
        /\ \/ \E s \in (j + 1)..(i - 1) : line[s] \in Separators
           \/ \A s \in (j + 1)..Len(line) : line[s] \notin Separators
=============================================================================

------------------------------ MODULE PhoneMask ------------------------------
(***************************************************************************)
(* The dialog for a new phone, of PersonalViewController and               *)
(* PersonalPresenter.checkPhone.  Whatever the user types, deletes or      *)
(* pastes into the field, formattedNumber makes it anew from the digits;   *)
(* checkPhone looks at the length alone.                                   *)
(***************************************************************************)
EXTENDS Integers, FiniteSets, SequencesExt

CONSTANTS Mask,       \* formattedNumber's mask, a sequence of characters
          Complete,   \* the length checkPhone asks for
          Digits,     \* decimal digits
          Pastes      \* what is typed or pasted at once; <<>> deletes

ASSUME PhoneMaskAssumption ==
    /\ Mask \in Seq(STRING) /\ Complete \in Nat
    /\ "X" \notin Digits /\ Digits \subseteq STRING
    /\ \A i \in DOMAIN Mask : Mask[i] \notin Digits
    /\ Pastes \subseteq Seq(STRING)

(* The code's mask fills the length that checkPhone asks for, and ends in  *)
(* a digit.                                                                *)
ASSUME MaskFits == Mask # <<>> /\ Mask[Len(Mask)] = "X" /\ Complete = Len(Mask)

VARIABLES text,      \* the field
          edited,    \* what the last edit made of it, unformatted  (history)
          answer     \* what came of "OK"

vars == <<text, edited, answer>>

TypeOK ==
    /\ {text, edited} \subseteq Seq(STRING) /\ Len(text) <= Len(Mask)
    /\ answer \in {"none", "saved", "refused"}

Init == text = <<>> /\ edited = <<>> /\ answer = "none"

(* Everything but digits is dropped.                                       *)
Clean(number) ==
    LET kept[i \in 0 .. Len(number)] ==
            IF i = 0 THEN <<>>
            ELSE IF number[i] \in Digits THEN Append(kept[i - 1], number[i]) ELSE kept[i - 1]
    IN  kept[Len(number)]

Unfilled(number) == [result |-> <<>>, left |-> Clean(number)]

(* Mutant: literals are copied when there is no digit left, too.           *)
FillWithTail(f, ch) ==
    IF ch # "X" THEN [f EXCEPT !.result = Append(f.result, ch)]
    ELSE IF f.left = <<>> THEN f
    ELSE [result |-> Append(f.result, Head(f.left)), left |-> Tail(f.left)]

(* A character of the mask is used as long as there are digits left.       *)
Fill(f, ch) ==
    IF f.left = <<>> THEN f
    ELSE IF ch = "X" THEN [result |-> Append(f.result, Head(f.left)), left |-> Tail(f.left)]
    ELSE [f EXCEPT !.result = Append(f.result, ch)]

Filled(number) ==
    LET after[i \in 0 .. Len(Mask)] ==
            IF i = 0 THEN Unfilled(number) ELSE Fill(after[i - 1], Mask[i])
    IN  after[Len(Mask)]

(* Mutant: digits the mask has no room for are kept.                       *)
FormattedOverflow(number) == Filled(number).result \o Filled(number).left

FormattedNumber(number) == Filled(number).result

(* textField(shouldChangeCharactersIn:): the characters after the first    *)
(* "from" and up to "to" are replaced.                                     *)
Edit(from, to, string) ==
    /\ answer = "none"
    /\ edited' = SubSeq(text, 1, from) \o string \o SubSeq(text, to + 1, Len(text))
    /\ text' = FormattedNumber(edited')
    /\ UNCHANGED answer

(* Mutant: the length may be short by one.                                 *)
CheckPhoneNearly ==
    /\ answer = "none"
    /\ answer' = IF Len(text) >= Complete - 1 THEN "saved" ELSE "refused"
    /\ UNCHANGED <<text, edited>>

(* "OK": checkPhone.                                                       *)
CheckPhone ==
    /\ answer = "none"
    /\ answer' = IF Len(text) = Complete THEN "saved" ELSE "refused"
    /\ UNCHANGED <<text, edited>>

Next ==
    \/ \E from \in 0 .. Len(text) : \E to \in from .. Len(text), string \in Pastes :
          Edit(from, to, string)
    \/ CheckPhone

Spec == Init /\ [][Next]_vars

-----------------------------------------------------------------------------
(* Properties *)

Places    == {i \in DOMAIN Mask : Mask[i] = "X"}
Room      == Cardinality(Places)
Before(i) == Cardinality({p \in Places : p <= i})

(* What the mask makes of digits: its shortest beginning that has room for *)
(* them, or all of it.                                                     *)
Masked(digits) ==
    LET n   == IF Len(digits) < Room THEN Len(digits) ELSE Room
        len == CHOOSE i \in {0} \cup Places : Before(i) = n
    IN  [i \in 1 .. len |-> IF i \in Places THEN digits[Before(i)] ELSE Mask[i]]

(* The field always holds the mask, filled with the digits of the edit.    *)
TextIsMasked == text = Masked(Clean(edited))

(* A phone that is saved has all its digits, and one that is refused lacks *)
(* some: the length tells.                                                 *)
SavedIsComplete ==
    /\ answer = "saved" => Len(Clean(text)) = Room
    /\ answer = "refused" => Len(Clean(text)) < Room

(* The dialog saves a phone as the mask shows it, and a whole one only.    *)
PhoneIsMasked == TextIsMasked /\ SavedIsComplete

(* Deleting at the end always takes a digit away: the field never ends in  *)
(* a literal that formattedNumber would put back.                          *)
DeletingDeletes ==
    [][ text # <<>> /\ edited' = Front(text) /\ edited' # edited
          => Len(Clean(text')) = Len(Clean(text)) - 1 ]_vars
=============================================================================

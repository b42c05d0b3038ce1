----------------------------- MODULE MCPhoneMask -----------------------------
(* Small instances of PhoneMask for TLC.                                   *)
EXTENDS PhoneMask

(* "X (XXX) XXX-XX-XX"                                                     *)
PhoneXs == <<"X", " ", "(", "X", "X", "X", ")", " ", "X", "X", "X", "-", "X", "X", "-", "X", "X">>

(* MaskFits holds of the code's mask.                                      *)
ASSUME PhoneMaskFits == Len(PhoneXs) = 17 /\ PhoneXs[17] = "X"

(* "X (X) X-XX": the same shape with few places.                           *)
ShortXs == <<"X", " ", "(", "X", ")", " ", "X", "-", "X", "X">>

Typed   == {<<>>, <<"0">>, <<"1">>, <<"-">>, <<"1", ")", "0">>, <<"0", "1", "1">>,
            <<"(", "X">>, <<"1", "0", "0", "1", "1", "0", "1">>}
=============================================================================

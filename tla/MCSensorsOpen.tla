---------------------------- MODULE MCSensorsOpen ----------------------------
(***************************************************************************)
(* TLC instance of SensorsOpen: two accelerometers with one handle, one    *)
(* that reads its values all at once, and a compass that reads two arrays; *)
(* and files with each kind of line, in both orders where it matters.      *)
(***************************************************************************)
EXTENDS SensorsOpen

MCApis == {"bma150", "bma250", "ak8975"}
MCHandle == [bma150 |-> 1, bma250 |-> 1, ak8975 |-> 2]
MCInputName == [bma150 |-> "bma150", bma250 |-> "bma250", ak8975 |-> "ak8975"]

bma250input == <<"bma250", "input">>
MCPrefix == [bma250 |-> bma250input, ak8975 |-> <<"ak8975">>]
Single(name, max) == [name |-> name, type |-> "int", size |-> 1, min |-> 0, max |-> max]
Array(name, min, max) == [name |-> name, type |-> "array", size |-> 3, min |-> min, max |-> max]
MCKeys == [bma250 |-> <<Single(<<"axis_x">>, 2), Single(<<"neg_x">>, 1)>>,
           ak8975 |-> <<Array(<<"axis", "_map">>, 0, 2), Array(<<"axis", "_sign">>, -1, 1)>>]

Plain(what) == [what |-> what, prefix |-> <<>>, key |-> <<>>, value |-> <<>>]
Given(prefix, key, value) == [what |-> "entry", prefix |-> prefix, key |-> key, value |-> value]

X == Given(bma250input, <<"axis_x">>, <<2, 0>>)
Neg == Given(bma250input, <<"neg_x">>, <<1>>)
NegTooLarge == Given(bma250input, <<"neg_x">>, <<2>>)
Map == Given(<<"ak8975">>, <<"axis", "_map">>, <<1, 0, 2>>)
Sign == Given(<<"ak8975">>, <<"axis", "_sign">>, <<1, -1>>)
Long == Given(<<"ak8975">>, <<"axis", "_sign">>, <<1, -1, 1, 1>>)
Shorter == Given(<<"ak8975">>, <<"axis">>, <<0, 0, 0>>)

MCFiles == {<<>>, <<Plain("error"), Plain("comment"), X, Neg, Plain("blank"), Map, Long, Shorter>>,
            <<Sign, Shorter, Map, X, NegTooLarge>>, <<X, Plain("long comment")>>}

=============================================================================

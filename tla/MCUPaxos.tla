------------------------------ MODULE MCUPaxos ------------------------------
EXTENDS UPaxos

OneWord == {<<"one">>, <<"two">>}
TwoWords == {<<"one">>, <<"two", "words">>}

OneLeader == {0} \X Values
TwoLeaders == {<<0, <<"one">>>>, <<0, <<"two">>>>, <<1, <<"two">>>>}
LongRequest == {<<0, <<"two", "words">>>>, <<1, <<"two", "words">>>>}
=============================================================================

---------------------------- MODULE MCDataSource ----------------------------
(* Instances of DataSource for TLC. *)
EXTENDS DataSource

SomeChars == {"p", "o", "r", "w", "u", "v", "5", "=", ";", " ", "'", "\\"}

\* Two options that begin alike, as port and password do, and a third.
SomeOptions == <<"port", "password", "user">>
SomeNames == [port |-> <<"p", "o">>, password |-> <<"p", "w">>, user |-> <<"u">>]
SomeOthers == {<<"p">>, <<"p", "o", "r">>}
SomeDefaults == [port |-> <<"5">>, password |-> <<"'">>, user |-> <<>>]
SomeValues == {<<>>, <<"v">>, <<"'">>, <<"\\">>, <<"\\", "'">>, <<"v", "=", "u">>}

=============================================================================

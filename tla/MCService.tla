----------------------------- MODULE MCService -----------------------------
EXTENDS ServeLifecycle

\* Two directories with a temp each, one of them with a file that can be
\* written to, and a temp beside them.
MCPath == {<<"t">>, <<"d">>, <<"d", "a">>, <<"d", "t">>, <<"e">>, <<"e", "t">>}
=============================================================================

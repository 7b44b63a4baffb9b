----------------------------- MODULE MCConsole -----------------------------
EXTENDS Console

CONSTANTS t1, t2

\* Two messages, one that ends a line and one that fills it.
MCMessage == (t1 :> << <<"a", "nl">>, <<"a">> >>) @@ (t2 :> << <<"a", "bs">>, <<"tab">> >>)

=============================================================================

-------------------------- MODULE MCWatcherManager --------------------------
(* Instantiates WatcherManager for TLC: a wildcard prefix "a*" and an exact *)
(* prefix "b", parameters "a" and "b", two values.                         *)
EXTENDS WatcherManager

MCKeyPrefixes == {<<"a", "*">>, <<"b">>}
MCNames    == {<<"a">>, <<"b">>}
MCSizeMax  == 2^16 - 1
=============================================================================

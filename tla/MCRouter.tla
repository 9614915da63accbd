------------------------------ MODULE MCRouter ------------------------------
(* A small instance of Router for TLC.                                     *)
EXTENDS Router

EveryVariant == <<"a", "b", "c">>
OneVariant == <<"a">>
EveryWay == {"proxy", "export", "built", "none"}
StrangePaths == {<<"">>, <<"mem">>, <<"a", "unknown">>, <<"a", "">>, <<"fsapi", "x", "y">>, <<"a", "fs", "mem", "api">>,
                 <<"a", "-", "mem", "api">>, <<"fs", "mem", "api">>, <<"a", "fsapi", "">>,
                 <<"memq", "server", "queues">>, <<"a", "a", "mem", "api">>}
=============================================================================

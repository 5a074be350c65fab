--------------------------- MODULE MCConnections ---------------------------
(* Two servers, the default one included, names with and without a server; *)
(* a batch of three commands, with an exact, a short and a long answer.    *)
EXTENDS Connections

MCDomain == <<"mc", "net">>
MCHostNames == {<<"alpha", "mc", "net">>, <<"a", "alpha", "mc", "net">>, <<"mc", "net">>}
MCScripts ==
  {<<"part", "login", "hello">>, <<"status", "request", "ping">>, <<"transfer">>,
   <<"junk">>, <<"part", "part", "part", "part">>}
MCFull == <<1, 0, 2>>
=============================================================================

-------------------------- MODULE MC_StreamRelay --------------------------
(* Small instances of StreamRelay: answers with a secret or an address at  *)
(* the start, in the middle and at the end, and ones that only look so.    *)
EXTENDS StreamRelay

SomeAnswers ==
    {<<"x", "sk-or-", "v1-", "b", "b", "b", "x">>,
     <<"b", "x", "sk-or-", "v1-", "b", "b">>,
     <<"sk-or-", "v1-", "b", "x", "sk-or-", "x">>,
     <<"x", "[ipaddres", "s", "-", "1", "2", "]", "x">>,
     <<"[ipaddres", "s", "-", "0", "1", "]", "sk-or-", "v1-", "b", "b">>,
     <<"[ipaddres", "s", "-", "2", "x", "1", "-", "0", "1">>,
     <<"x", "[ipaddres", "s", "-", "1", "2", "2", "x">>}
=============================================================================

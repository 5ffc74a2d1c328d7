------------------------------- MODULE MCAgent -------------------------------
(***************************************************************************)
(* Agent with an -i that is absent or a multiple of 2^16, with and without *)
(* -c, and with file values inside and outside their ranges.               *)
(***************************************************************************)
EXTENDS Agent

Argv(interval, prefixes, config) ==
    [interval |-> interval, prefixes |-> prefixes, config |-> config]

MCArgvs == {Argv(65536, <<"a", "b">>, FALSE), Argv(NoOption, <<>>, TRUE)}

File(interval, top_n, prefixes) ==
    [interval |-> interval, top_n |-> top_n, prefixes |-> prefixes, there |-> TRUE]

MCFiles == {NoFile, File(2, 7, <<"c", "d">>), File(65536, 8, <<>>)}

ReloadArgvs == {Argv(1, <<"a", "b">>, FALSE)}
=============================================================================

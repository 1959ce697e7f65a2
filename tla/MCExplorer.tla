----------------------------- MODULE MCExplorer -----------------------------
(* Partial arguments for the model checker: "s" begins select and set,     *)
(* "G" is in get and get only in another case, "l" is in the middle.        *)
EXTENDS Explorer

MCWithin == {<<"s", "select">>, <<"s", "set">>, <<"l", "ctrl">>, <<"l", "all">>,
             <<"l", "select">>, <<"l", "--val">>}
MCAnyCase == MCWithin \cup {<<"G", "get">>}
MCSameFirst == {<<"s", "select">>, <<"s", "set">>}
=============================================================================

----------------------------- MODULE MCCliFraming -----------------------------
(***************************************************************************)
(* Clients for CliFraming: commands with and without data, with a space in *)
(* the data as in a file path, and with a byte outside ASCII.              *)
(***************************************************************************)
EXTENDS CliFraming

MCQuery == [op |-> <<"a">>, data |-> <<>>, replies |-> 1]
MCUpdate == [op |-> <<"a", "b">>, data |-> <<"b">>, replies |-> 1]
MCPath == [op |-> <<"b">>, data |-> <<"a", "SP", "b">>, replies |-> 1]
MCForeignPath == [op |-> <<"b">>, data |-> <<"HI", "a">>, replies |-> 1]

MCAscii == {MCQuery, MCUpdate, MCPath}
MCAll == MCAscii \cup {MCForeignPath}
MCForeign == {MCQuery, MCForeignPath}

=============================================================================

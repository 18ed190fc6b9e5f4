----------------------------- MODULE MCLocalApi -----------------------------
(***************************************************************************)
(* A small instance of the local management API.                            *)
(***************************************************************************)
EXTENDS LocalApi, TLC

CONSTANTS i1, i2, i3

Content(name, path, active) == [name |-> name, path |-> path, active |-> active]
Entry(parses, name, path) == [parses |-> parses, name |-> name, path |-> path, active |-> TRUE]
Change(id, name, path, active) == [id |-> id, name |-> name, path |-> path, active |-> active]

A == Content(<<"a">>, <<"/x">>, TRUE)
B == Content(<<"b">>, <<"/x", "/y">>, TRUE)

MCCreates == {<<A, B>>, <<A, Content(<<"a">>, <<"x">>, TRUE)>>, <<>>}
MCUpdates ==
  {<<Change(i1, <<"c">>, None, None), Change(i1, None, <<"/y">>, None)>>,
   <<Change(i2, None, None, FALSE), Change(i1, <<>>, None, None)>>,
   <<Change(i1, None, <<"y">>, None)>>}
MCDeletes == {<<i1>>, <<i2, i1>>}
MCImports == {<<Entry(FALSE, <<"a">>, <<"/x">>), Entry(TRUE, <<"d">>, <<"z">>)>>}
MCPulled == {A}
Clients == Permutations(Client)

MCQueries ==
  {[path |-> None, active |-> None, source |-> None],
   [path |-> <<"/x">>, active |-> TRUE, source |-> "local"]}
=============================================================================

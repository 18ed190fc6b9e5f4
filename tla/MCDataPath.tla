----------------------------- MODULE MCDataPath -----------------------------
(***************************************************************************)
(* An engine whose first location mocks two paths and gives way on one of   *)
(* them to a location that serves files; the rest goes to the target.       *)
(***************************************************************************)
EXTENDS DataPath

MCPaths == {"mocked", "file", "other"}

MCLocations ==
  << [matches |-> {"mocked", "file"}, provider |-> "mock", holds |-> {"mocked"}],
     [matches |-> {"file"}, provider |-> "static", holds |-> {}],
     [matches |-> {"mocked", "file"}, provider |-> "proxy", holds |-> {}] >>
=============================================================================

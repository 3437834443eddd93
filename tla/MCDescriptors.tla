--------------------------- MODULE MCDescriptors ----------------------------
(***************************************************************************)
(* A service whose messages are in a file of their own.  "full" describes  *)
(* both files, "svc" a later service without the file it imports, "msg" the*)
(* messages alone; "text" is no descriptor set.                            *)
(***************************************************************************)
EXTENDS Descriptors, TLC

MCNames == {"a.dsc", "b.desc", "c.proto"}
MCKind == [name \in MCNames |->
    IF name = "c.proto" THEN "proto-source" ELSE "descriptor-set"]

Msg == [path |-> "msg.proto", imports |-> {}, defines |-> {"Msg"}]
Svc(more) == [path |-> "svc.proto", imports |-> {"msg.proto"}, defines |-> {"Svc"} \cup more]

MCContents == {"full", "svc", "msg", "text"}
MCFilesIn == [d \in MCContents |->
    CASE d = "full" -> {Svc({}), Msg}
      [] d = "svc" -> {Svc({"Svc.More"})}
      [] d = "msg" -> {Msg}
      [] d = "text" -> {}]

MCPuts == {<<"a.dsc", "full">>, <<"b.desc", "full">>, <<"b.desc", "msg">>,
           <<"c.proto", "text">>, <<"c.proto", "full">>}
MCUploads == {<<"a.dsc", "full">>, <<"a.dsc", "svc">>, <<"a.dsc", "text">>,
              <<"c.proto", "text">>}

Symmetry == Permutations(Handlers)
=============================================================================

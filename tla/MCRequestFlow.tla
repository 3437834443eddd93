--------------------------- MODULE MCRequestFlow ----------------------------
(***************************************************************************)
(* Stubs of every kind the flow tells apart, with every answer to a gRPC   *)
(* call; and of the simplest kinds, bodies that divide into their chunks   *)
(* and bodies that do not.                                                 *)
(***************************************************************************)
EXTENDS RequestFlow

Kinds(matchers, statuses, delays, bodies, shapes) ==
    {[matcher |-> m, status |-> s[1], statusName |-> s[2], fixed |-> d[1], random |-> d[2], panics |-> d[3],
      proxy |-> p, body |-> b, length |-> h[1], chunks |-> h[2]] :
        m \in matchers, s \in statuses, d \in delays, p \in BOOLEAN, b \in bodies, h \in shapes}

\* Statuses and grpc-status-names; fixed and random delays, and those that panic.
Statuses == {<<200, "none">>, <<404, "none">>, <<500, "OK">>, <<200, "other">>}
Delays == {<<2, {}, FALSE>>, <<0, {}, FALSE>>, <<0, {0}, FALSE>>, <<0, 0..1, FALSE>>,
           <<0, {}, TRUE>>, <<2, {}, TRUE>>}

\* Body lengths and numbers of chunks.
Shapes == {0, 1, 5, 6} \X {0, 2, 3, 7}

MCStubs ==
    Kinds(BOOLEAN, Statuses, Delays, {"inline", "template", "file"}, {<<5, 2>>})
        \cup Kinds({FALSE}, {<<200, "none">>}, {<<0, {}, FALSE>>}, {"inline"}, Shapes)
=============================================================================

----------------------------- MODULE MCDecisionLoop -----------------------------
(* One incident, a scaling and a drain, and answers of every shape. *)
EXTENDS DecisionLoop

CONSTANTS read0, read1, read2

MCCordon == <<"k8s_cordon_drain", "node-7">>
MCScale == <<"asg_scale", "web">>
MCDestructive == {MCCordon, MCScale}
MCKeys == MCDestructive \cup {read0, read1, read2}
MCReadKey == [s \in 0..MaxSteps - 1 |-> <<read0, read1, read2>>[s + 1]]
MCDistinct == [k \in Destructive |-> {k}]

\* The answers, as planner.py's prompt asks for them and as models write them.
Call(tool, args) == [done |-> Bool(FALSE), tool |-> tool, args |-> args]
Scale(replicas) == Call("asg_scale", [asg |-> Str("web"), replicas |-> replicas])
Cordon == Call("k8s_cordon_drain", [node |-> Str("node-7")])
CordonIn(namespace) ==
  Call("k8s_cordon_drain", [node |-> Str("node-7"), namespace |-> namespace])
CordonElevated(elevation) ==
  Call("k8s_cordon_drain",
       [node |-> Str("node-7"), namespace |-> Str("prod"), elevation |-> elevation])

Plain(pieces) == [fence |-> None, pieces |-> pieces]
Fenced(pieces) == [fence |-> pieces, pieces |-> <<Prose("prose")>>]
Only(obj) == Plain(<<Json("object", obj)>>)

MCTexts == {
  Only([Call(None, NoArgs) EXCEPT !.done = Bool(TRUE)]),
  Only([Cordon EXCEPT !.done = Str("false")]),
  Only([Cordon EXCEPT !.done = Sized("list", 1)]),
  Plain(<<Prose("prose"), Json("object", Cordon)>>),
  Plain(<<Prose("braces"), Json("object", Cordon)>>),
  Plain(<<Prose("unclosed"), Json("object", Scale(Int(3, "3")))>>),
  Plain(<<Prose("prose"), Json("quoted", Cordon)>>),
  Plain(<<Json("list", Call("cw_get_metrics", NoArgs))>>),
  Fenced(<<Json("object", Scale(Int(3, "3")))>>),
  Fenced(<<>>),
  Only(Scale(Int(1, "1"))),
  Only(Scale(Str("three"))),
  Only(Scale(Other("nan"))),
  Only(Scale(Bool(TRUE))),
  Only(Call("asg_scale", [asg |-> Str("web")])),
  Only(Call("asg_scale", None)),
  Only(Call("asg_terminate", NoArgs)),
  Only(CordonIn(Str("prod"))),
  Only(CordonIn(Sized("list", 1))),
  Only(CordonElevated(Bool(TRUE))),
  Only(CordonElevated(Sized("list", 0))),
  Only(Call("statuspage_post", [message |-> Str("token=1"), api_key |-> Str("key")]))}
===============================================================================

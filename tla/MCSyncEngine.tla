----------------------------- MODULE MCSyncEngine -----------------------------
(* Model-checking instances of SyncEngine: two remotes, two groups, and the   *)
(* calls of a running server beside those of the command line.                *)
EXTENDS SyncEngine

CONSTANTS t1, t2, a, b, g1, g2, e1, p1, q1, watcher

MCAuthor == e1 :> Here @@ p1 :> a @@ q1 :> b
MCPlace == [e \in {e1, p1, q1} |-> g1]

TwoServers ==
  [order |-> <<a, b>>, default |-> a, servers |-> {a, b}, pushAll |-> {a, b}, scoped |-> {g1},
   hosts |-> (a :> {g1, g2} @@ b :> {g1})]
ServerAndDirect ==
  [order |-> <<b, a>>, default |-> a, servers |-> {a}, pushAll |-> {b}, scoped |-> {g1},
   hosts |-> (a :> {g2} @@ b :> {g1})]
OneServer ==
  [order |-> <<a>>, default |-> a, servers |-> {a}, pushAll |-> {a}, scoped |-> {g1, g2},
   hosts |-> (a :> {g1, g2} @@ b :> {})]

Even == [g \in {g1, g2} |-> <<"root">>]
Fresh == [Even EXCEPT ![g2] = <<>>]

Call(op, filter, scope) == [op |-> op, filter |-> filter, scope |-> scope]
All == [kind |-> "all"]
Only(g) == [kind |-> "group", group |-> g]
InScope == [kind |-> "scope"]
Alone(c) == t1 :> c @@ t2 :> Call("none", All, "default")

\* Both groups are mirrored and nothing refreshes the index.
Mirrored(c, calls) ==
  [conf |-> c, groups |-> {g1, g2}, refreshers |-> {}, main |-> Even,
   head |-> [r \in {a, b} |-> Even], call |-> calls]

\* g2 is only on the remotes until it appears, and on b it is unborn.
Appearing(c, calls) ==
  [conf |-> c, groups |-> {g1}, refreshers |-> {watcher}, main |-> Fresh,
   head |-> (a :> Even @@ b :> Fresh), call |-> calls]

MCScenarios ==
  {Mirrored(TwoServers, Alone(Call("sync", All, "default"))),
   Mirrored(TwoServers, Alone(Call("push", All, "all"))),
   Mirrored(ServerAndDirect, Alone(Call("sync", InScope, "all"))),
   Mirrored(ServerAndDirect, Alone(Call("push", All, NoRemote))),
   Mirrored(OneServer, t1 :> Call("sync", Only(g1), "default") @@ t2 :> Call("pull", Only(g1), "default")),
   Mirrored(TwoServers, t1 :> Call("pull", Only(g2), "default") @@ t2 :> Call("push", Only(g2), b)),
   Mirrored(TwoServers, t1 :> Call("sync", Only(g1), "default") @@ t2 :> Call("push", Only(g1), b)),
   Mirrored(ServerAndDirect, Alone(Call("push", InScope, "default"))),
   Appearing(OneServer, Alone(Call("sync", InScope, "default"))),
   Appearing(OneServer, Alone(Call("push", Only(g2), "default"))),
   Appearing(ServerAndDirect, Alone(Call("fetch", All, "default")))}

\* A pull from two servers that have the group.
PullScenarios == {Mirrored(TwoServers, Alone(Call("pull", All, "default")))}
=============================================================================

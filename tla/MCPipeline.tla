----------------------------- MODULE MCPipeline -----------------------------
(***************************************************************************)
(* A POP with a declared test of each kind or a mesh of two, one sample of *)
(* its own at a time and an undecodable result from elsewhere. Some        *)
(* configurations have a target that cannot be probed, an interval the     *)
(* ticker panics on, or do not load.                                       *)
(***************************************************************************)
EXTENDS Pipeline, TLC

CONSTANTS t1, t2, peer

MCMeshID == peer :> t2

Declared == [id |-> TRUE, tenant |-> TRUE, kind |-> "http", target |-> "ok", interval |-> "", timeout |-> "-5s"]
Peers    == {[name |-> peer, url |-> TRUE], [name |-> Self, url |-> TRUE]}
Only(td) == [pop |-> TRUE, nats |-> TRUE, tests |-> t1 :> td,
             mesh |-> [interval |-> "30s", timeout |-> "", peers |-> {}]]

Of(kind, target) == [Declared EXCEPT !.kind = kind, !.target = target]
Meshed(c, interval, timeout) ==
    [c EXCEPT !.mesh = [interval |-> interval, timeout |-> timeout, peers |-> Peers]]

MCConfigs ==
    {Only(Of("tls", "ok")), Only(Of("http", "hostless")), Only([Declared EXCEPT !.interval = "bad"]),
     Meshed([Only(Declared) EXCEPT !.tests = <<>>], "30s", ""),
     Meshed(Only(Of("dns", "ok")), "30s", "bad"),
     Meshed(Only(Of("tls", "hostless")), "-5s", "")}
=============================================================================

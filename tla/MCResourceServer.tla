-------------------------- MODULE MCResourceServer --------------------------
(* The resource server and the event server with a realm: two nodes of the *)
(* host, and an event from a server to the realm and one to the host; or   *)
(* one node with an interrupt and an event, whose bits are in two groups,  *)
(* and a realm whose program makes no step.                                *)
EXTENDS ResourceServer

NoIRQ == {}
MCRing == {"toRealm", "toHost"}
MCFrom == [toRealm |-> "other", toHost |-> "other"]
MCTo == [toRealm |-> "r0", toHost |-> "h0"]
MCGroupOf == [RealmEvent |-> 0, toHost |-> 1, toRealm |-> 0]

LiveIRQ == {"irq"}
LiveRing == {"toHost"}
LiveFrom == [toHost |-> "other"]
LiveTo == [toHost |-> "h0"]
LiveGroupOf == [RealmEvent |-> 0, irq |-> 1, toHost |-> 0]
=============================================================================

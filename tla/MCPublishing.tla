---------------------------- MODULE MCPublishing ----------------------------
(* Instances of Publishing.                                                *)
EXTENDS Publishing

CONSTANTS w1, w2, web, key

Methods == [a \in {web, key} |-> IF a = key THEN "key" ELSE "web"]

Bindings == [a \in {web, key} |-> IF a = key THEN "t1" ELSE None]

Request(agent, sig, idem, hash, header, claim, peer) ==
    [agent |-> agent, sig |-> sig, key |-> idem, hash |-> hash,
     header |-> header, claim |-> claim, peer |-> peer]

\* A keyed publish and its twin with another body, an unsigned one, a pinned
\* one through the gateway, and one of each producer with a blank header.
PublishRequests ==
    {Request(web, "own", "k", "h1", None, "t1", "other"),
     Request(web, "own", "k", "h2", None, "t1", "other"),
     Request(web, "pin", None, "h1", "t2", None, "proxy"),
     Request(web, "own", None, "h1", "", None, "proxy"),
     Request(key, "own", "k", "h1", "", None, "other")}

Event(id, type, ctx, agent, sig) ==
    [id |-> <<"actor", id>>, type |-> type, ctx |-> ctx, agent |-> agent, sig |-> sig,
     key |-> None, hash |-> "e", header |-> None, claim |-> "t1",
     peer |-> "other"]

EventRequests ==
    {Event(1, "retracted", 1, web, "own")}

Deploy(strict, trust, receipts) ==
    [auth |-> TRUE, strict |-> strict, trust |-> trust, receipts |-> receipts]

Deployments ==
    {Deploy(TRUE, "none", TRUE), Deploy(FALSE, "trusted_proxies", FALSE)}

Cell(enabled, pinnedOnly, pins) ==
    [enabled |-> enabled, pinnedOnly |-> pinnedOnly, pins |-> pins]

\* Off; strict with a key that runs out; strict with no keys; lax.
Cells ==
    {Cell(FALSE, FALSE, {}),
     Cell(TRUE, TRUE, {[agent |-> web, key |-> "pin", from |-> 0, until |-> 1]}),
     Cell(TRUE, TRUE, {}),
     Cell(TRUE, FALSE, {})}
=============================================================================

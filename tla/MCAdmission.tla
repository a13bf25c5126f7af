----------------------------- MODULE MCAdmission -----------------------------
(* An instance of Admission: a1 and a2 share a network.                    *)
EXTENDS Admission

Networks ==
    [i \in {"a1", "a2", "b1", "p1", "p2", "e1", "e2"} |->
        IF i \in {"a1", "a2"} THEN "a/64" ELSE i]

Behind(mode, trusted, skip) == [mode |-> mode, trusted |-> trusted, skip |-> skip]

Direct == Behind("trusted_proxies", {}, 0)
Proxied == Behind("trusted_proxies", {"p1"}, 0)
Chained == Behind("trusted_proxies", {"p1", "p2"}, 0)
Edge == Behind("any_peer", {}, 1)

D(auth, backend, unavailable, front, replicas, asks, most) ==
    [auth |-> auth, backend |-> backend, unavailable |-> unavailable, front |-> front,
     replicas |-> replicas, asks |-> asks, most |-> most]

Auth(route, clients, agents) ==
    {[route |-> route, client |-> c, agent |-> a] : c \in clients, a \in agents}

Reads(clients, creds) ==
    {[route |-> "read", client |-> c, cred |-> x] : c \in clients, x \in creds}

Credentials ==
    {"none", "other_scheme", "two_headers", "query", "jwt", "bad_jwt", "static",
     "unknown_static"}

One == {"r1"}
Two == {"r1", "r2"}

Deployed ==
    {D(TRUE, "postgres", "allow", Direct, One, Auth("token", {"a1", "b1"}, {"g1"}), 3),
     D(TRUE, "postgres", "deny", Direct, Two, Auth("token", {"a1"}, {"g1"}), 3),
     D(TRUE, "memory", "allow", Chained, One, Auth("challenge", {"a1", "b1"}, {"g1", "g2"}), 3),
     D(TRUE, "memory", "allow", Proxied, One, Reads({"a1", "a2"}, Credentials), 4),
     D(FALSE, "memory", "allow", Edge, One, Reads({"a1", "b1"}, {"none", "bad_jwt", "query"}), 3)}

\* What a client may put in front of what the proxies add.
Forged == {<<>>, << <<"b1">> >>, << <<Garbage, "p1">> >>, << <<Binary>> >>}

\* A proxy appends its hops to the last line, or adds a line of its own.
Forward(lines, hops) ==
    {Append(lines, hops)} \cup
    (IF lines = <<>> THEN {} ELSE {[lines EXCEPT ![Len(lines)] = @ \o hops]})

From(f, c) ==
    CASE f = Direct -> {[peer |-> c, lines |-> l] : l \in Forged}
      [] f = Proxied -> {[peer |-> "p1", lines |-> l] : l \in UNION {Forward(x, <<c>>) : x \in Forged}}
      [] f = Chained -> {[peer |-> "p1", lines |-> l] : l \in UNION {Forward(x, <<c, "p2">>) : x \in Forged}}
      [] OTHER -> {[peer |-> e, lines |-> l] :
                      e \in {"e1", "e2"}, l \in UNION {Forward(x, <<c, "e1">>) : x \in Forged}}
=============================================================================

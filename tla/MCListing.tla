------------------------------ MODULE MCListing ------------------------------
(* An instance of Listing.                                                 *)
EXTENDS Listing

B(owner, audience, vis, expires, tags, derived, words, tenant) ==
    [owner |-> owner, audience |-> audience, visibility |-> vis,
     expires |-> expires, tags |-> tags, derived |-> derived, words |-> words,
     lineage |-> 1, tenant |-> tenant]

\* Public and foreign; public, tagged and expiring; restricted to b;
\* private to a with b as its audience.
Bodies ==
    [c \in 1 .. 4 |->
        CASE c = 1 -> B("a", {}, "public", Never, {}, {}, {"run"}, "t2")
          [] c = 2 -> B("a", {}, "public", 2, {"x"}, {}, {"run"}, "t1")
          [] c = 3 -> B("a", {"b"}, "restricted", Never, {"x"}, {2}, {"run"}, "t1")
          [] OTHER -> B("a", {"b"}, "private", Never, {}, {2}, {}, "t1")]

\* Tables that were written in the first second: one row, and three.
Written ==
    {[c \in {d \in 1 .. 4 : d <= n} |->
        [at |-> 0, status |-> "active", retracted |-> FALSE,
         tenant |-> Bodies[c].tenant]] : n \in {1, 3}}

Q(op, who, tenant, vis, status, tags, derived, words, limit) ==
    [op |-> op, who |-> who, tenant |-> tenant, vis |-> vis, status |-> status,
     tags |-> tags, derived |-> derived, words |-> words, limit |-> limit,
     agent |-> None, after |-> 0, ctx |-> 3, lineage |-> 1]

Asks ==
    {Q("search", "a", "t1", None, "active", {}, {}, {}, 1),
     Q("search", "b", None, None, "active", {"x"}, {}, {"run", "the"}, 1),
     Q("search", "a", None, "restricted", "active", {}, {}, {}, 1),
     Q("search", "a", None, "secret", "retracted", {}, {2}, {}, 1),
     Q("search", "a", None, None, "expired", {}, {}, {"the"}, 1),
     Q("list", None, None, None, "active", {}, {}, {}, 2),
     Q("retrieve", "b", "t1", None, "active", {}, {}, {}, 1),
     Q("body", "b", "t1", None, "active", {}, {}, {}, 1),
     Q("lineage", "b", "t1", None, "active", {}, {}, {}, 1),
     Q("current", "b", None, None, "active", {}, {}, {}, 1)}
=============================================================================

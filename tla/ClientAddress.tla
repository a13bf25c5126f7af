---------------------------- MODULE ClientAddress ----------------------------
(***************************************************************************)
(* Which address a per-IP limiter keys a request on.  A front `f' has      *)
(*   mode     rate_limit.forwarded_header_trust                            *)
(*   trusted  the addresses inside rate_limit.trusted_proxies              *)
(*   skip     rate_limit.forwarded_skip_rightmost                          *)
(* A hop is an address, Garbage when it does not parse, or Binary when its *)
(* header line is not ASCII.                                               *)
(***************************************************************************)
EXTENDS Integers, Sequences, SequencesExt

Garbage == "garbage"

Binary == "binary"

\* TrustedProxies::contains.
Trusts(f, hop) == hop \in f.trusted

\* The first test of resolve_client_ip_skipping.
PeerTrusted(f, peer) == f.mode = "any_peer" \/ Trusts(f, peer)

\* resolve_client_ip_skipping, over the hops nearest first.  A chain with
\* no usable client falls back to the peer.
ResolveClientIp(f, peer, hops) ==
    LET skipped   == SubSeq(hops, 1, f.skip)
        untrusted == {i \in (f.skip + 1)..Len(hops) : ~ Trusts(f, hops[i])}
        client    == CHOOSE i \in untrusted : \A j \in untrusted : i <= j
    IN  IF \/ ~ PeerTrusted(f, peer)
           \/ Garbage \in ToSet(skipped)
           \/ untrusted = {}
           \/ hops[client] = Garbage
        THEN peer
        ELSE hops[client]

\* Mutant: only the first X-Forwarded-For line is read.
ClientIp_FirstLine(f, peer, lines) ==
    IF lines = <<>> \/ Binary \in ToSet(lines[1]) THEN peer
    ELSE ResolveClientIp(f, peer, Reverse(lines[1]))

\* AppStateInner::client_ip: every X-Forwarded-For line, folded into one list.
ClientIp(f, peer, lines) ==
    LET folded == FlattenSeq(lines)
    IN  IF Binary \in ToSet(folded) THEN peer
        ELSE ResolveClientIp(f, peer, Reverse(folded))

=============================================================================

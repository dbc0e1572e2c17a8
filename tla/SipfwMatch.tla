----------------------------- MODULE SipfwMatch -----------------------------
(***************************************************************************)
(* How SIPFW decides whether a rule applies to a packet. A field of a rule *)
(* that is Wild (0 in the code, an empty interface name) takes every value. *)
(***************************************************************************)
EXTENDS Integers, Sequences

Input == 0
Output == 1
Forward == 2
Chain == {Input, Output, Forward}
Drop == 0
Accept == 1
Action == 0..5
Wild == "any"

Fits(wanted, value) == wanted \in {Wild, value}

IsIfnameMatch(c, r, p) ==
  \/ r.ifname = Wild
  \/ c \in {Input, Forward} /\ p.in = r.ifname
  \/ c \in {Output, Forward} /\ p.out = r.ifname

IsIPMatch(r, p) == Fits(r.dest, p.daddr) /\ Fits(r.source, p.saddr) /\ Fits(r.protocol, p.protocol)

(* Only TCP and UDP have ports, and UDP nothing else; a rule without extra *)
(* conditions takes any flags or type. Other protocols match no rule.      *)
IsAddtionMatch(r, p) ==
  /\ p.protocol \in {"tcp", "udp", "icmp", "igmp"}
  /\ p.protocol \in {"tcp", "udp"} => Fits(r.sport, p.source) /\ Fits(r.dport, p.dest)
  /\ p.protocol # "udp" => Fits(r.addtion, p.addtion)

Matches(c, rules, p) ==
  {i \in DOMAIN rules : IsIfnameMatch(c, rules[i], p) /\ IsIPMatch(rules[i], p) /\ IsAddtionMatch(rules[i], p)}

(* A packet too short for its headers matches nothing. *)
HeadersPresent(p) == p.whole

IsMatch(c, rules, p) == HeadersPresent(p) /\ Matches(c, rules, p) # {}

FirstMatch(c, rules, p) ==
  rules[CHOOSE i \in Matches(c, rules, p) : \A j \in Matches(c, rules, p) : i <= j]

=============================================================================

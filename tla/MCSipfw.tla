------------------------------ MODULE MCSipfw -------------------------------
EXTENDS Sipfw, TLC

CONSTANTS c1, c2

Web == [protocol |-> "tcp", dport |-> "80", flags |-> "syn", action |-> Accept]
Lan == [source |-> "a", interface |-> "eth0", action |-> Drop]

Line(op, chain) == [op |-> op, chain |-> chain]
Numbered(op, chain, number) == [op |-> op, chain |-> chain, number |-> number]

(* One client gives every kind of command, the other some that meet them. *)
MCCommandLine ==
  c1 :> {Line("APPEND", "INPUT") @@ Web, Numbered("INSERT", "FORWARD", 1) @@ Web,
         Numbered("INSERT", "FORWARD", 9) @@ Web, Numbered("INSERT", "FORWARD", 0) @@ Web,
         Numbered("REPLACE", "FORWARD", 1) @@ Web, Numbered("DELETE", "FORWARD", 1),
         Line("DELETE", "INPUT") @@ Web, Line("FLUSH", "misspelt"), Line("APPEND", "misspelt") @@ Web,
         [op |-> "LIST"]} @@
  c2 :> {Line("APPEND", "FORWARD") @@ Web, Numbered("DELETE", "FORWARD", 1), Line("LIST", "FORWARD")}

Syn == [in |-> "eth0", out |-> "eth1", saddr |-> "a", daddr |-> "b", protocol |-> "tcp",
        source |-> "1024", dest |-> "80", addtion |-> "syn", whole |-> TRUE]
MCPacket ==
  {Syn, [Syn EXCEPT !.in = "eth1"], [Syn EXCEPT !.protocol = "udp", !.saddr = "b"],
   [Syn EXCEPT !.protocol = "icmp"], [Syn EXCEPT !.whole = FALSE]}

MCFiles ==
  {<<RecordFromRule(Input, ParseCommand(Line("APPEND", "INPUT") @@ Web).rule),
     RecordFromRule(Forward, ParseCommand(Line("APPEND", "FORWARD") @@ Lan).rule)>>}

MCConf == {<<>>, [DefaultAction |-> "DROP", RulesFile |-> ""]}

=============================================================================

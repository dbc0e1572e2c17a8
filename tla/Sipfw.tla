------------------------------- MODULE Sipfw --------------------------------
(***************************************************************************)
(* The SIPFW kernel module and its command-line client: the rule chains,   *)
(* the commands the clients send over netlink, the rules file, the packet  *)
(* hooks and the life of the module.                                       *)
(*                                                                         *)
(* A command runs in the kernel on the thread of its sender, so the        *)
(* commands of two clients interleave at every lock they release: each     *)
(* locked section is one step, and so is each record written to the file.  *)
(* The hooks and the saves read a published copy of a chain and take no    *)
(* lock.                                                                   *)
(***************************************************************************)
EXTENDS SipfwMatch, FiniteSets, SequencesExt

CONSTANTS
  Client,       \* the processes that run the sipfw command
  CommandLine,  \* client -> the commands it gives, as their options
  Packet,       \* the packets the hooks see
  Files,        \* what the rules file may hold at first
  Conf,         \* what /etc/sipfw.conf may say
  SockCap,      \* messages a client's socket holds
  MaxRules, MaxCommands, MaxFaults, MaxRestarts    \* bounds of the model

VARIABLES
  tables,       \* sipfw_tables: chain -> [rule, number, snapshot]
  nodes,        \* rule structures allocated and not freed
  leaked,       \* history: those a failed SIPFW_Init left behind
  file,         \* the records of the rules file
  cf,           \* the configuration: [DefaultAction, RulesFile]
  module,       \* how far SIPFW_Init has come
  cmd,          \* what each client's command is doing
  sock,         \* client -> [queue, err]: its netlink socket
  issued, faults, restarts,   \* counts for the bounds
  goal,         \* history: the chains as the last save found them
  mixed,        \* history: another command ran beside the last save
  saved,        \* history: the last save wrote everything
  before        \* history: [lists, orderly]: the chains when the module last went

vars == <<tables, nodes, leaked, file, cf, module, cmd, sock, issued, faults, restarts, goal, mixed, saved, before>>
life == <<leaked, cf, module, restarts, before>>

All == 3
None == [op |-> "none"]
Garbage == 1279869254    \* the bytes FAIL read as a count

(* What a hole in the file reads as: chain 0, action 0, every field any. *)
ZeroRule ==
  [source |-> Wild, dest |-> Wild, protocol |-> Wild, sport |-> Wild, dport |-> Wild,
   ifname |-> Wild, addtion |-> Wild, action |-> Drop]
Zero == [chain |-> Input, rule |-> ZeroRule]
Torn == [chain |-> -1, rule |-> ZeroRule]    \* part of a record

RecordFromRule(chain, rule) == [chain |-> chain, rule |-> rule]

Lists == [c \in Chain |-> tables[c].rule]
EmptyTables == [c \in Chain |-> [rule |-> <<>>, number |-> 0, snapshot |-> <<>>]]

(* The settings /etc/sipfw.conf gives, with the built-in ones for the      *)
(* rest; RulesFile is whether there is a path for the rules.               *)
HandleConf(o) ==
  [DefaultAction |-> IF "DefaultAction" \in DOMAIN o /\ o.DefaultAction = "DROP" THEN Drop ELSE Accept,
   RulesFile |-> "RulesFile" \notin DOMAIN o \/ o.RulesFile # ""]

(* What the hook of chain c returns for p when it reads these rules. *)
Verdict(c, rules, p) == IF IsMatch(c, rules, p) THEN FirstMatch(c, rules, p).action ELSE cf.DefaultAction

-----------------------------------------------------------------------------
(* The rule chains *)

(* The copy takes as many rules as number says. *)
Publish(l) == [l EXCEPT !.snapshot = SubSeq(l.rule, 1, IF l.number < Len(l.rule) THEN l.number ELSE Len(l.rule))]

(* Mutant: the count is set after the copy is published. *)
CommitLate(l, rules) == [Publish([l EXCEPT !.rule = rules]) EXCEPT !.number = Len(rules)]

Commit(l, rules) == Publish([l EXCEPT !.rule = rules, !.number = Len(rules)])

(* What each handler makes of a chain, and whether it finds the position.  *)
RuleAppend(l, m) == [ok |-> TRUE, rules |-> Append(l.rule, m.rule)]

(* An insert past the end appends. *)
RuleInsert(l, m) ==
  [ok |-> m.number > 0,
   rules |-> IF m.number \in 1..Len(l.rule) THEN InsertAt(l.rule, m.number, m.rule) ELSE Append(l.rule, m.rule)]

RuleReplace(l, m) ==
  [ok |-> m.number \in 1..l.number,
   rules |-> [i \in DOMAIN l.rule |-> IF i = m.number THEN m.rule ELSE l.rule[i]]]

(* The victim is at the number given, or else the first equal rule. *)
RuleDelete(l, m) ==
  LET at == {i \in 1..l.number : IF m.number # -1 THEN i = m.number ELSE l.rule[i] = m.rule}
  IN  [ok |-> at # {},
       rules |-> IF at = {} THEN l.rule ELSE RemoveAt(l.rule, CHOOSE i \in at : \A j \in at : i <= j)]

DoAction(l, m) ==
  CASE m.op = "APPEND" -> RuleAppend(l, m)
    [] m.op = "INSERT" -> RuleInsert(l, m)
    [] m.op = "REPLACE" -> RuleReplace(l, m)
    [] m.op = "DELETE" -> RuleDelete(l, m)

(* Mutant: replacing forgets to free the old rule. *)
NodesLeakReplaced(m) == IF m.op = "DELETE" THEN -1 ELSE 1

(* Rules allocated less rules freed by a change: an insert keeps the rule  *)
(* it was given, a replace frees the old one, a delete frees the victim    *)
(* and the rule it was given.                                              *)
NodesKept(m) == CASE m.op \in {"APPEND", "INSERT"} -> 1 [] m.op = "REPLACE" -> 0 [] m.op = "DELETE" -> -1

-----------------------------------------------------------------------------
(* A command: what the client sends, and the answers it gets *)

Idle == [pc |-> "idle", m |-> None, i |-> 0, count |-> 0, pos |-> 0, copy |-> <<>>, excused |-> FALSE]

InKernel(c) == cmd[c].pc \notin {"idle", "recv", "rules"}
Saving(c) == cmd[c].pc \in {"chain", "write"}
OthersSaving(c) == \E d \in Client \ {c} : Saving(d)
Total == tables[Input].number + tables[Output].number + tables[Forward].number

Option(o, name, default) == IF name \in DOMAIN o THEN o[name] ELSE default

(* A chain that is not known by name means all of them. *)
ParseOpt(name) ==
  CASE name = "INPUT" -> Input [] name = "OUTPUT" -> Output [] name = "FORWARD" -> Forward [] OTHER -> All

(* The command line; what is not given takes any value, the number is -1,  *)
(* and listing and flushing are for all chains.                            *)
ParseCommand(o) ==
  [op |-> o.op,
   chain |-> IF "chain" \in DOMAIN o THEN ParseOpt(o.chain) ELSE All,
   number |-> Option(o, "number", -1),
   rule |-> [source |-> Option(o, "source", Wild), dest |-> Option(o, "dest", Wild),
             protocol |-> Option(o, "protocol", Wild), sport |-> Option(o, "sport", Wild),
             dport |-> Option(o, "dport", Wild), ifname |-> Option(o, "interface", Wild),
             addtion |-> Option(o, "flags", Wild), action |-> Option(o, "action", -1)]]

(* What the client's own check lets through. *)
JudgeCommand(m) ==
  CASE m.op = "APPEND" -> m.chain \in Chain /\ m.rule.action # -1
    [] m.op = "DELETE" -> m.chain \in Chain
    [] m.op \in {"INSERT", "REPLACE"} -> m.chain \in Chain /\ m.number # -1 /\ m.rule.action \in Action
    [] m.op \in {"FLUSH", "LIST"} -> m.chain \in Chain \cup {All}

(* The commands that reach the kernel. *)
Asked == [c \in Client |-> {m \in {ParseCommand(o) : o \in CommandLine[c]} : JudgeCommand(m)}]

FirstChain(m) == IF m.chain = All THEN Input ELSE m.chain
LastChain(m) == IF m.chain = All THEN Forward ELSE m.chain

Success == <<[type |-> "SUCCESS", count |-> 0]>>
Failure == <<[type |-> "FAILURE", count |-> Garbage]>>

(* The netlink socket of a client that is still inside its send: a message *)
(* that does not fit is dropped, and so is every later one; the first      *)
(* receive then fails.                                                     *)
Deliver(s, msg) ==
  IF s.err \/ Len(s.queue) >= SockCap THEN [s EXCEPT !.err = TRUE] ELSE [s EXCEPT !.queue = Append(@, msg)]

NLSendToUser(c, msgs) == sock' = [sock EXCEPT ![c] = FoldLeft(Deliver, @, msgs)]

(* A message for which there is no memory is lost without a trace. *)
LoseOne(c, msgs) ==
  /\ faults < MaxFaults /\ faults' = faults + 1
  /\ \E i \in DOMAIN msgs : NLSendToUser(c, RemoveAt(msgs, i))

(* The command's thread leaves the kernel with these answers queued. *)
Answer(c, msgs) ==
  \/ /\ NLSendToUser(c, msgs)
     /\ cmd' = [cmd EXCEPT ![c].pc = "recv"]
     /\ UNCHANGED faults
  \/ LoseOne(c, msgs) /\ cmd' = [cmd EXCEPT ![c].pc = "recv", ![c].excused = TRUE]

(* An answer after something failed, which counts as the fault. *)
AnswerFailure(c, excused) ==
  /\ faults < MaxFaults /\ faults' = faults + 1
  /\ NLSendToUser(c, Failure)
  /\ cmd' = [cmd EXCEPT ![c].pc = "recv", ![c].excused = excused]

(* The client sends a command. *)
Sends(c, m) ==
  /\ cmd[c].pc = "idle" /\ module = "up" /\ issued < MaxCommands
  /\ issued' = issued + 1
  /\ m.op \in {"APPEND", "INSERT"} => Total < MaxRules

(* There is no memory for the rule, and the client is sent nothing. *)
NoMemory(c) ==
  \E m \in Asked[c] :
    /\ Sends(c, m)
    /\ faults < MaxFaults /\ faults' = faults + 1
    /\ cmd' = [cmd EXCEPT ![c] = [Idle EXCEPT !.pc = "recv", !.excused = TRUE]]
    /\ UNCHANGED <<tables, nodes, file, sock, life, goal, mixed, saved>>

(* RuleAppend, RuleInsert, RuleReplace and RuleDelete: one locked section. *)
Change(c) ==
  \E m \in Asked[c] :
    /\ m.op \in {"APPEND", "INSERT", "REPLACE", "DELETE"}
    /\ Sends(c, m)
    /\ DoAction(tables[m.chain], m).ok
    /\ tables' = [tables EXCEPT ![m.chain] = Commit(@, DoAction(@, m).rules)]
    /\ nodes' = nodes + NodesKept(m)
    /\ cmd' = [cmd EXCEPT ![c] = [Idle EXCEPT !.pc = "open"]]
    /\ mixed' = (mixed \/ OthersSaving(c))
    /\ saved' = FALSE
    /\ UNCHANGED <<file, sock, faults, life, goal>>

(* The same when the position does not exist, or there is no memory for    *)
(* the new copy: nothing changes.                                          *)
Refuse(c) ==
  \E m \in Asked[c] :
    /\ m.op \in {"APPEND", "INSERT", "REPLACE", "DELETE"}
    /\ Sends(c, m)
    /\ \/ ~DoAction(tables[m.chain], m).ok /\ UNCHANGED faults
       \/ /\ DoAction(tables[m.chain], m).ok /\ DoAction(tables[m.chain], m).rules # <<>>
          /\ faults < MaxFaults /\ faults' = faults + 1
    /\ NLSendToUser(c, Failure)
    /\ cmd' = [cmd EXCEPT ![c] = [Idle EXCEPT !.pc = "recv"]]
    /\ UNCHANGED <<tables, nodes, file, life, goal, mixed, saved>>

(* Flushing and listing go through the chains one lock at a time. *)
Start(c) ==
  \E m \in Asked[c] :
    /\ m.op \in {"FLUSH", "LIST"}
    /\ Sends(c, m)
    /\ nodes' = nodes + 1
    /\ cmd' = [cmd EXCEPT ![c] = [Idle EXCEPT !.pc = m.op, !.m = m, !.i = FirstChain(m)]]
    /\ UNCHANGED <<tables, file, sock, faults, life, goal, mixed, saved>>

FlushChain(c) ==
  /\ cmd[c].pc = "FLUSH"
  /\ tables' = [tables EXCEPT ![cmd[c].i] = Commit(@, <<>>)]
  /\ LET last == cmd[c].i = LastChain(cmd[c].m) IN
       /\ nodes' = nodes - Len(tables[cmd[c].i].rule) - (IF last THEN 1 ELSE 0)
       /\ cmd' = [cmd EXCEPT ![c] = IF last THEN [Idle EXCEPT !.pc = "open"] ELSE [@ EXCEPT !.i = @ + 1]]
  /\ mixed' = (mixed \/ OthersSaving(c))
  /\ saved' = FALSE
  /\ UNCHANGED <<file, sock, issued, faults, life, goal>>

-----------------------------------------------------------------------------
(* Listing *)

(* The number of rules, and a rule, whose first word is its chain: that is *)
(* all that is kept of what the client prints.                             *)
Count(n) == [type |-> "RULE", count |-> n]
RuleMsg(chain) == [type |-> "RULE", count |-> chain]

(* Counts the rules of one chain; after the last, nothing to list is       *)
(* answered at once.                                                       *)
ListCount(c) ==
  /\ cmd[c].pc = "LIST"
  /\ LET count == cmd[c].count + tables[cmd[c].i].number
         last == cmd[c].i = LastChain(cmd[c].m)
     IN
     \/ /\ ~last
        /\ cmd' = [cmd EXCEPT ![c].count = count, ![c].i = @ + 1]
        /\ UNCHANGED <<nodes, sock, faults>>
     \/ last /\ count = 0 /\ nodes' = nodes - 1 /\ Answer(c, <<Count(0)>>)
     \/ /\ last /\ count > 0
        /\ cmd' = [cmd EXCEPT ![c].count = count, ![c].i = FirstChain(cmd[c].m), ![c].pc = "copy"]
        /\ UNCHANGED <<nodes, sock, faults>>
     \/ last /\ count > 0 /\ nodes' = nodes - 1 /\ AnswerFailure(c, TRUE)
  /\ UNCHANGED <<tables, file, issued, life, goal, mixed, saved>>

(* Mutant: the first message carries the number counted, not copied. *)
ListMessagesCounted(count, copy) == <<Count(count)>> \o [i \in DOMAIN copy |-> RuleMsg(copy[i])]

ListMessages(count, copy) == <<Count(Len(copy))>> \o [i \in DOMAIN copy |-> RuleMsg(copy[i])]

(* Copies the rules of one chain while there is room for them. *)
ListCopy(c) ==
  /\ cmd[c].pc = "copy"
  /\ LET all == cmd[c].copy \o [k \in DOMAIN tables[cmd[c].i].rule |-> cmd[c].i]
         copy == SubSeq(all, 1, IF Len(all) < cmd[c].count THEN Len(all) ELSE cmd[c].count)
     IN
     \/ /\ cmd[c].i # LastChain(cmd[c].m)
        /\ cmd' = [cmd EXCEPT ![c].copy = copy, ![c].i = @ + 1]
        /\ UNCHANGED <<nodes, sock, faults>>
     \/ /\ cmd[c].i = LastChain(cmd[c].m)
        /\ nodes' = nodes - 1
        /\ Answer(c, ListMessages(cmd[c].count, copy))
  /\ UNCHANGED <<tables, file, issued, life, goal, mixed, saved>>

-----------------------------------------------------------------------------
(* Saving the rules, which every successful change does without a lock *)

SaveOpen(c) ==
  /\ cmd[c].pc = "open"
  /\ \/ ~cf.RulesFile /\ Answer(c, Success) /\ UNCHANGED <<file, goal, mixed>>
     \/ cf.RulesFile /\ AnswerFailure(c, FALSE) /\ UNCHANGED <<file, goal, mixed>>
     \/ /\ cf.RulesFile
        /\ file' = <<>>
        /\ cmd' = [cmd EXCEPT ![c].pc = "chain", ![c].i = Input, ![c].pos = 1]
        /\ goal' = Lists
        /\ mixed' = OthersSaving(c)
        /\ UNCHANGED <<sock, faults>>
  /\ saved' = FALSE
  /\ UNCHANGED <<tables, nodes, issued, life>>

(* Mutant: an empty chain ends the save. *)
AfterEmptyStops(i) == Forward + 1

AfterEmpty(i) == i + 1

(* Copies a published chain to write it; after the last, closes. *)
SaveChain(c) ==
  /\ cmd[c].pc = "chain"
  /\ LET i == cmd[c].i IN
     \/ i > Forward /\ saved' = TRUE /\ Answer(c, Success)
     \/ /\ i <= Forward /\ tables[i].snapshot = <<>>
        /\ cmd' = [cmd EXCEPT ![c].i = AfterEmpty(i)]
        /\ UNCHANGED <<sock, faults, saved>>
     \/ /\ i <= Forward /\ tables[i].snapshot # <<>>
        /\ cmd' = [cmd EXCEPT ![c].copy = tables[i].snapshot, ![c].pc = "write"]
        /\ UNCHANGED <<sock, faults, saved>>
     \/ /\ i <= Forward /\ tables[i].snapshot # <<>>
        /\ AnswerFailure(c, FALSE)
        /\ UNCHANGED saved
  /\ UNCHANGED <<tables, nodes, file, issued, life, goal, mixed>>

(* A write at a position past the end leaves a hole of zeros. *)
WriteAt(f, pos, rec) ==
  [k \in 1..(IF pos > Len(f) THEN pos ELSE Len(f)) |->
     IF k = pos THEN rec ELSE IF k <= Len(f) THEN f[k] ELSE Zero]

SaveWrite(c) ==
  /\ cmd[c].pc = "write"
  /\ file' = WriteAt(file, cmd[c].pos, RecordFromRule(cmd[c].i, Head(cmd[c].copy)))
  /\ LET done == Len(cmd[c].copy) = 1 IN
       cmd' = [cmd EXCEPT ![c].pos = @ + 1, ![c].copy = Tail(@),
                          ![c].i = IF done THEN @ + 1 ELSE @, ![c].pc = IF done THEN "chain" ELSE "write"]
  /\ UNCHANGED <<tables, nodes, sock, issued, faults, life, goal, mixed, saved>>

(* The disk is full: nothing, or only a part of the record, is written,    *)
(* and the file is closed. (A part only where no other save can write over *)
(* the rest of it.)                                                        *)
SaveWriteFails(c) ==
  /\ cmd[c].pc = "write"
  /\ \/ UNCHANGED file
     \/ ~OthersSaving(c) /\ cmd[c].pos = Len(file) + 1 /\ file' = Append(file, Torn)
  /\ AnswerFailure(c, FALSE)
  /\ UNCHANGED <<tables, nodes, issued, life, goal, mixed, saved>>

-----------------------------------------------------------------------------
(* The client waits for its answers *)

Ends(c) == cmd' = [cmd EXCEPT ![c] = Idle] /\ sock' = [sock EXCEPT ![c] = [queue |-> <<>>, err |-> FALSE]]

(* The first message; its type is not looked at, so a list takes whatever  *)
(* comes for the number of rules.                                          *)
Receive(c) ==
  /\ cmd[c].pc = "recv"
  /\ \/ sock[c].err /\ Ends(c)
     \/ /\ ~sock[c].err /\ sock[c].queue # <<>>
        /\ IF cmd[c].m.op # "LIST" \/ Head(sock[c].queue).count = 0 THEN Ends(c)
           ELSE /\ cmd' = [cmd EXCEPT ![c].pc = "rules", ![c].count = Head(sock[c].queue).count, ![c].copy = <<>>]
                /\ sock' = [sock EXCEPT ![c].queue = Tail(@)]
  /\ UNCHANGED <<tables, nodes, file, issued, faults, life, goal, mixed, saved>>

ReceiveRule(c) ==
  /\ cmd[c].pc = "rules" /\ sock[c].queue # <<>>
  /\ IF cmd[c].count = 1 THEN Ends(c)
     ELSE cmd' = [cmd EXCEPT ![c].count = @ - 1] /\ sock' = [sock EXCEPT ![c].queue = Tail(@)]
  /\ UNCHANGED <<tables, nodes, file, issued, faults, life, goal, mixed, saved>>

(* SIGINT: the kernel ignores the client's farewell. *)
Interrupt(c) ==
  /\ cmd[c].pc \in {"recv", "rules"}
  /\ Ends(c)
  /\ UNCHANGED <<tables, nodes, file, issued, faults, life, goal, mixed, saved>>

-----------------------------------------------------------------------------
(* The life of the module *)

Records(c) == SelectSeq(file, LAMBDA r : r.chain = c)
Decoded == [c \in Chain |-> [i \in DOMAIN Records(c) |-> Records(c)[i].rule]]
Readable == \A i \in DOMAIN file : file[i] # Torn

(* SIPFW_Init up to the rules: a record that cannot be read, or no memory, *)
(* leaves every chain empty, and loading goes on.                          *)
Load ==
  /\ module = "out"
  /\ module' = "loaded"
  /\ \/ /\ cf.RulesFile /\ Readable
        /\ tables' = [c \in Chain |-> Commit(EmptyTables[c], Decoded[c])]
        /\ nodes' = nodes + Len(file)
        /\ goal' = Decoded /\ mixed' = FALSE /\ saved' = TRUE
        /\ UNCHANGED faults
     \/ /\ ~(cf.RulesFile /\ Readable)
        /\ tables' = EmptyTables
        /\ saved' = FALSE
        /\ UNCHANGED <<nodes, faults, goal, mixed>>
     \/ /\ cf.RulesFile /\ file # <<>> /\ faults < MaxFaults /\ faults' = faults + 1
        /\ tables' = EmptyTables
        /\ saved' = FALSE
        /\ UNCHANGED <<nodes, goal, mixed>>
  /\ UNCHANGED <<leaked, file, cf, cmd, sock, issued, restarts, before>>

(* The netlink socket, the /proc files and the hooks. *)
Register ==
  /\ module = "loaded"
  /\ module' = "up"
  /\ UNCHANGED <<tables, nodes, leaked, file, cf, cmd, sock, issued, faults, restarts, goal, mixed, saved, before>>

(* One of them fails: what came before is taken back, except the rules.    *)
RegisterFails ==
  /\ module = "loaded"
  /\ faults < MaxFaults /\ faults' = faults + 1
  /\ module' = "out"
  /\ tables' = EmptyTables
  /\ leaked' = leaked + Total
  /\ before' = [lists |-> Lists, orderly |-> TRUE]
  /\ UNCHANGED <<nodes, file, cf, cmd, sock, issued, restarts, goal, mixed, saved>>

(* The hooks, the socket, the /proc files and the chains go, with no       *)
(* command inside the kernel.                                              *)
Exit ==
  /\ module = "up" /\ restarts < MaxRestarts
  /\ \A c \in Client : ~InKernel(c)
  /\ module' = "out" /\ restarts' = restarts + 1
  /\ before' = [lists |-> Lists, orderly |-> TRUE]
  /\ tables' = EmptyTables
  /\ nodes' = nodes - Total
  /\ UNCHANGED <<leaked, file, cf, cmd, sock, issued, faults, goal, mixed, saved>>

(* The machine stops; the file was never synced, so a part of it from the  *)
(* start is what the disk has.                                             *)
Crash ==
  /\ module # "out" /\ restarts < MaxRestarts
  /\ module' = "out" /\ restarts' = restarts + 1
  /\ \E n \in 0..Len(file) : file' = SubSeq(file, 1, n)
  /\ before' = [lists |-> Lists, orderly |-> FALSE]
  /\ tables' = EmptyTables /\ nodes' = 0 /\ leaked' = 0
  /\ cmd' = [c \in Client |-> Idle]
  /\ sock' = [c \in Client |-> [queue |-> <<>>, err |-> FALSE]]
  /\ UNCHANGED <<cf, issued, faults, goal, mixed, saved>>

-----------------------------------------------------------------------------
Init ==
  /\ tables = EmptyTables /\ nodes = 0 /\ leaked = 0
  /\ file \in Files /\ cf \in {HandleConf(o) : o \in Conf} /\ module = "out"
  /\ cmd = [c \in Client |-> Idle]
  /\ sock = [c \in Client |-> [queue |-> <<>>, err |-> FALSE]]
  /\ issued = 0 /\ faults = 0 /\ restarts = 0
  /\ goal = Decoded /\ mixed = FALSE /\ saved = TRUE /\ before = [lists |-> Decoded, orderly |-> TRUE]

KernelStep(c) == FlushChain(c) \/ ListCount(c) \/ ListCopy(c) \/ SaveOpen(c) \/ SaveChain(c) \/ SaveWrite(c)
ClientStep(c) == Receive(c) \/ ReceiveRule(c)

Next ==
  \/ \E c \in Client :
       \/ NoMemory(c) \/ Change(c) \/ Refuse(c) \/ Start(c)
       \/ KernelStep(c) \/ SaveWriteFails(c)
       \/ ClientStep(c) \/ Interrupt(c)
  \/ Load \/ Register \/ RegisterFails \/ Exit \/ Crash

(* The thread of a command goes on, in the kernel and in the client. *)
Spec == Init /\ [][Next]_vars /\ \A c \in Client : WF_vars(KernelStep(c)) /\ WF_vars(ClientStep(c))

-----------------------------------------------------------------------------
(* Every packet gets, from the copy its hook reads without a lock, the     *)
(* verdict of the rules a listing shows: the copy always has every rule of *)
(* its chain, in order (SIPFW_CommitRuleUpdateLocked,                      *)
(* SIPFW_PublishRuleSnapshotLocked, SIPFW_LoadRuleFile).                   *)
ListedIsEnforced ==
  \A c \in Chain : \A p \in Packet : Verdict(c, tables[c].snapshot, p) = Verdict(c, tables[c].rule, p)

(* Every rule structure is in a chain, held by a running command, or was   *)
(* left behind by a failed SIPFW_Init: no path of a handler frees one      *)
(* twice or forgets one, and an orderly exit leaves none.                  *)
NodesExact ==
  nodes = Total + leaked + Cardinality({c \in Client : cmd[c].pc \in {"FLUSH", "LIST", "copy"}})

(* What SIPFW_LoadRuleFile restores, when the last save had no other       *)
(* command beside it: each chain from its start as that save found it,     *)
(* however the machine stopped or the save failed; and after a complete    *)
(* save and an orderly exit, exactly the chains at that exit.              *)
RestoredAfterRestart ==
  [][(Load /\ cf.RulesFile /\ ~mixed) =>
       /\ \A c \in Chain : IsPrefix(tables'[c].rule, goal[c])
       /\ (saved /\ before.orderly /\ UNCHANGED faults) => \A c \in Chain : tables'[c].rule = before.lists[c]]_vars

(* A client always comes to an end, whatever the other clients change      *)
(* between the passes of its listing and however many rules there are,     *)
(* unless memory ran out for one of its answers, its rule or its list:     *)
(* SIPFW_NLRecvRuleList waits for exactly the messages that were sent.     *)
Answered == \A c \in Client : (cmd[c].pc # "idle") ~> (cmd[c].pc = "idle" \/ cmd[c].excused)

=============================================================================

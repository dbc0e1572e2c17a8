----------------------------- MODULE SipfwProc ------------------------------
(***************************************************************************)
(* The settings of SIPFW: the files under /proc/sipfw that read and write  *)
(* them, and the packet hooks that obey them.                              *)
(*                                                                         *)
(* A write to any of the files first copies its text to cookie_pot, which  *)
(* all of them share, and then reads it from there; nothing locks it. The  *)
(* hooks run on every CPU and read each setting when they need it.         *)
(***************************************************************************)
EXTENDS SipfwMatch

CONSTANTS
  Writer,       \* processes that write to the files
  Text,         \* what they write
  Cpu, Packet,  \* where the hooks run, and what they see
  Rules,        \* chain -> the rules in force
  MaxWrites, MaxPackets    \* bounds of the model

VARIABLES
  cf,           \* [DefaultAction, Invalid, LogPause, HitNumber]
  pot,          \* cookie_pot
  writer,       \* writer -> [pc, name, text]
  cpu,          \* cpu -> [pc, chain, packet, hits]: the hook it runs
  log,          \* lines in the log file
  verdicts,     \* what the hooks returned last: cpu -> action
  writes, packets    \* counts for the bounds

vars == <<cf, pot, writer, cpu, log, verdicts, writes, packets>>
settings == <<pot, writer, writes>>
hooks == <<cpu, log, verdicts, packets>>

File == {"logpause", "invalid", "defaultaction"}
Number == [t \in {"0", "1"} |-> IF t = "1" THEN 1 ELSE 0]
ActionName == <<"DROP", "ACCEPT", "STOLEN", "QUEUE", "REPEAT", "STOP">>

-----------------------------------------------------------------------------
(* SIPFW_ProcReadInput: the text goes to the shared buffer. *)
ReadInput(w) ==
  /\ writer[w].pc = "idle" /\ writes < MaxWrites
  /\ \E n \in File, t \in Text :
       /\ writer' = [writer EXCEPT ![w] = [pc |-> "parse", name |-> n, text |-> t]]
       /\ pot' = t
  /\ writes' = writes + 1
  /\ UNCHANGED <<cf, hooks>>

(* What each file makes of the buffer's text; -EINVAL changes nothing. *)
LogWrite(t) == IF t \in DOMAIN Number THEN [cf EXCEPT !.LogPause = Number[t]] ELSE cf

InvalidWrite(t) == IF t \in DOMAIN Number THEN [cf EXCEPT !.Invalid = Number[t]] ELSE cf

ActionWrite(t) ==
  LET named == {a \in Action : ActionName[a + 1] = t}
  IN  IF named = {} THEN cf ELSE [cf EXCEPT !.DefaultAction = CHOOSE a \in named : TRUE]

Parsed(n, t) ==
  CASE n = "logpause" -> LogWrite(t)
    [] n = "invalid" -> InvalidWrite(t)
    [] n = "defaultaction" -> ActionWrite(t)

(* The second half of a write. *)
Parse(w) ==
  /\ writer[w].pc = "parse"
  /\ cf' = Parsed(writer[w].name, pot)
  /\ writer' = [writer EXCEPT ![w].pc = "idle"]
  /\ UNCHANGED <<pot, writes, hooks>>

-----------------------------------------------------------------------------
(* SIPFW_ApplyChain, for the hook of chain c: switched off, it lets the    *)
(* packet pass.                                                            *)
Hook(u) ==
  /\ cpu[u].pc = "idle" /\ packets < MaxPackets
  /\ packets' = packets + 1
  /\ \E c \in Chain, p \in Packet :
       IF cf.Invalid # 0
       THEN verdicts' = [verdicts EXCEPT ![u] = Accept] /\ UNCHANGED cpu
       ELSE /\ cpu' = [cpu EXCEPT ![u] = [pc |-> "match", chain |-> c, packet |-> p, hits |-> 0]]
            /\ UNCHANGED verdicts
  /\ UNCHANGED <<cf, settings, log>>

LogAppend == IF cf.LogPause = 0 THEN log + 1 ELSE log

(* A match is logged unless the log is paused; without one the default     *)
(* action is taken as it is now.                                           *)
HookMatch(u) ==
  /\ cpu[u].pc = "match"
  /\ IF IsMatch(cpu[u].chain, Rules[cpu[u].chain], cpu[u].packet)
     THEN /\ log' = LogAppend
          /\ cpu' = [cpu EXCEPT ![u].pc = "hit", ![u].hits = cf.HitNumber]
          /\ UNCHANGED verdicts
     ELSE /\ verdicts' = [verdicts EXCEPT ![u] = cf.DefaultAction]
          /\ cpu' = [cpu EXCEPT ![u].pc = "idle"]
          /\ UNCHANGED log
  /\ UNCHANGED <<cf, settings, packets>>

(* HitNumber++ is a read and a write, and two CPUs may do both at once. *)
HookHit(u) ==
  /\ cpu[u].pc = "hit"
  /\ cf' = [cf EXCEPT !.HitNumber = cpu[u].hits + 1]
  /\ verdicts' = [verdicts EXCEPT ![u] = FirstMatch(cpu[u].chain, Rules[cpu[u].chain], cpu[u].packet).action]
  /\ cpu' = [cpu EXCEPT ![u].pc = "idle"]
  /\ UNCHANGED <<settings, log, packets>>

-----------------------------------------------------------------------------
Init ==
  /\ cf = [DefaultAction |-> Accept, Invalid |-> 0, LogPause |-> 0, HitNumber |-> 0]
  /\ pot = "" /\ log = 0 /\ writes = 0 /\ packets = 0
  /\ writer = [w \in Writer |-> [pc |-> "idle", name |-> "", text |-> ""]]
  /\ cpu = [u \in Cpu |-> [pc |-> "idle"]]
  /\ verdicts = [u \in Cpu |-> Accept]

Next ==
  \/ \E w \in Writer : ReadInput(w) \/ Parse(w)
  \/ \E u \in Cpu : Hook(u) \/ HookMatch(u) \/ HookHit(u)

Spec == Init /\ [][Next]_vars

-----------------------------------------------------------------------------
(* The number written to /proc/sipfw/logpause is parsed into cf.LogPause,  *)
(* as the comment on SIPFW_ProcLogWrite says, when no one else writes to   *)
(* that file. It need not be: a write to another of the files between the  *)
(* copy and the parse replaces the text.                                   *)
WrittenIsSet ==
  [][\A w \in Writer :
       (/\ Parse(w) /\ writer[w].name = "logpause" /\ writer[w].text \in DOMAIN Number
        /\ \A v \in Writer \ {w} : writer[v].name # "logpause") =>
         cf'.LogPause = Number[writer[w].text]]_vars

=============================================================================

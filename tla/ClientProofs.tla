---------------------------- MODULE ClientProofs ----------------------------
(***************************************************************************)
(* The clients of the dashboard API do what was confirmed and reviewed, on *)
(* the state that was on screen, and show only what the session may see:   *)
(* for any number of reviews, requests, faults, lost answers and changes   *)
(* by others.  Each client is proved about on its own; its variables are   *)
(* not touched by the others, so the results hold of them side by side.    *)
(***************************************************************************)
EXTENDS MCClients, FiniteSetTheorems, TLAPS

(***************************************************************************)
(* The commands of the CLI.                                                *)
(***************************************************************************)
\* No option is looked for after something was written.
OptionsFirst(p) ==
  /\ Len(p) \in Nat \ {0}
  /\ \A i, j \in 1 .. Len(p) : i < j /\ p[j][1] = "need" => p[i][1] # "put"

LEMMA ServiceOptions == \A p \in Plans(ServiceCommand) : OptionsFirst(p)
<1>1. /\ OptionsFirst(ServiceCommand.list) /\ OptionsFirst(ServiceCommand.enable)
      /\ OptionsFirst(ServiceCommand.disable) /\ OptionsFirst(ServiceCommand.credentials)
  BY DEF OptionsFirst, ServiceCommand, Need, Get, Put, Save
<1>2. DOMAIN ServiceCommand = {"list", "enable", "disable", "credentials"}
  BY DEF ServiceCommand
<1> QED
  BY <1>1, <1>2 DEF Plans

LEMMA HardwareOptions == \A p \in Plans(HardwareCommand) : OptionsFirst(p)
<1>1. /\ OptionsFirst(HardwareCommand.list) /\ OptionsFirst(HardwareCommand.profile)
      /\ OptionsFirst(HardwareCommand.validate)
  BY DEF OptionsFirst, HardwareCommand, Need, Get, Put, Save
<1>2. DOMAIN HardwareCommand = {"list", "profile", "validate"}
  BY DEF HardwareCommand
<1> QED
  BY <1>1, <1>2 DEF Plans

LEMMA LicenseOptions == \A p \in Plans(LicenseCommand) : OptionsFirst(p)
<1>1. /\ OptionsFirst(LicenseCommand.status) /\ OptionsFirst(LicenseCommand.export)
      /\ OptionsFirst(LicenseCommand.inspect) /\ OptionsFirst(LicenseCommand.import)
  BY DEF OptionsFirst, LicenseCommand, Need, Get, Put, Save
<1>2. DOMAIN LicenseCommand = {"status", "export", "inspect", "import"}
  BY DEF LicenseCommand
<1> QED
  BY <1>1, <1>2 DEF Plans

LEMMA InstanceOptions == \A p \in Plans(InstanceCommand) : OptionsFirst(p)
<1>1. /\ OptionsFirst(InstanceCommand.principals) /\ OptionsFirst(InstanceCommand.list)
      /\ OptionsFirst(InstanceCommand.create) /\ OptionsFirst(InstanceCommand.access)
      /\ OptionsFirst(InstanceCommand.share) /\ OptionsFirst(InstanceCommand.remove)
      /\ OptionsFirst(InstanceCommand.credentials)
  BY DEF OptionsFirst, InstanceCommand, Need, Get, Put, Save
<1>2. DOMAIN InstanceCommand = {"principals", "list", "create", "access", "share", "remove", "credentials"}
  BY DEF InstanceCommand
<1> QED
  BY <1>1, <1>2 DEF Plans

LEMMA ModelOptions == \A p \in Plans(ModelCommand) : OptionsFirst(p)
<1>1. /\ OptionsFirst(ModelCommand.list) /\ OptionsFirst(ModelCommand.search)
      /\ OptionsFirst(ModelCommand.estimate) /\ OptionsFirst(ModelCommand.create)
      /\ OptionsFirst(ModelCommand.remove) /\ OptionsFirst(ModelCommand.cleanup)
  BY DEF OptionsFirst, ModelCommand, Need, Get, Put, Save
<1>2. DOMAIN ModelCommand = {"list", "search", "estimate", "create", "remove", "cleanup"}
  BY DEF ModelCommand
<1> QED
  BY <1>1, <1>2 DEF Plans

LEMMA SettingsOptions == \A p \in Plans(SettingsCommand) : OptionsFirst(p)
<1>1. /\ OptionsFirst(SettingsCommand.get) /\ OptionsFirst(SettingsCommand.public)
      /\ OptionsFirst(SettingsCommand.mdns)
  BY DEF OptionsFirst, SettingsCommand, Need, Get, Put, Save
<1>2. DOMAIN SettingsCommand = {"get", "public", "mdns"}
  BY DEF SettingsCommand
<1> QED
  BY <1>1, <1>2 DEF Plans

LEMMA UserOptions == \A p \in Plans(UserCommand) : OptionsFirst(p)
<1>1. /\ OptionsFirst(UserCommand.list) /\ OptionsFirst(UserCommand.create)
      /\ OptionsFirst(UserCommand.update) /\ OptionsFirst(UserCommand.role)
      /\ OptionsFirst(UserCommand.enable) /\ OptionsFirst(UserCommand.password)
      /\ OptionsFirst(UserCommand.delete)
  BY DEF OptionsFirst, UserCommand, Need, Get, Put, Save
<1>2. DOMAIN UserCommand = {"list", "create", "update", "role", "enable", "password", "delete"}
  BY DEF UserCommand
<1> QED
  BY <1>1, <1>2 DEF Plans

LEMMA ApiKeyOptions == \A p \in Plans(ApiKeyCommand) : OptionsFirst(p)
<1>1. /\ OptionsFirst(ApiKeyCommand.list) /\ OptionsFirst(ApiKeyCommand.create)
      /\ OptionsFirst(ApiKeyCommand.revoke)
  BY DEF OptionsFirst, ApiKeyCommand, Need, Get, Put, Save
<1>2. DOMAIN ApiKeyCommand = {"list", "create", "revoke"}
  BY DEF ApiKeyCommand
<1> QED
  BY <1>1, <1>2 DEF Plans

LEMMA KubernetesOptions == \A p \in Plans(KubernetesCommand) : OptionsFirst(p)
<1>1. /\ OptionsFirst(KubernetesCommand.list) /\ OptionsFirst(KubernetesCommand.set)
      /\ OptionsFirst(KubernetesCommand.kubeconfig)
  BY DEF OptionsFirst, KubernetesCommand, Need, Get, Put, Save
<1>2. DOMAIN KubernetesCommand = {"list", "set", "kubeconfig"}
  BY DEF KubernetesCommand
<1> QED
  BY <1>1, <1>2 DEF Plans

LEMMA EveryOptionFirst == \A p \in RunCli : OptionsFirst(p)
<1>1. OptionsFirst(Summary) /\ OptionsFirst(StatusCommand)
  BY DEF OptionsFirst, Summary, StatusCommand, Get
<1> QED
  BY <1>1, ServiceOptions, HardwareOptions, LicenseOptions, InstanceOptions, ModelOptions,
     SettingsOptions,
     UserOptions, ApiKeyOptions, KubernetesOptions DEF RunCli

\* A command knows whether it has written; one that has is past its options.
Texts == {"old", "new"}
Exits == {"none", "ok", "error", "usage"}
ServerStates ==
  [license : Nat, policy : Nat, public : Texts, mdns : Texts, profile : Texts, other : Nat]
CommandStates ==
  [plan : RunCli \cup {<<>>}, step : Nat, seen : ServerStates, exit : Exits, puts : Nat]
WrittenAfterOptions(k) ==
  /\ k.plan = <<>> => k.step = 0
  /\ k.step <= Len(k.plan)
  /\ k.step > 0 => k.exit = "none"
  /\ k.exit = "usage" => k.puts = 0
  /\ k.step > 0 /\ k.puts > 0 => \E i \in 1 .. k.step - 1 : k.plan[i][1] = "put"
CommandInv ==
  /\ server \in ServerStates
  /\ cmd \in [Shells -> CommandStates]
  /\ \A c \in Shells : WrittenAfterOptions(cmd[c])

LEMMA CommandsStart == CommandInit => CommandInv
<1> SUFFICES ASSUME CommandInit PROVE CommandInv
  OBVIOUS
<1>1. Server0 \in ServerStates
  BY DEF Server0, ServerStates, Texts
<1>2. NoCommand \in CommandStates
  BY <1>1 DEF NoCommand, CommandStates, Exits
<1>3. WrittenAfterOptions(NoCommand)
  BY DEF NoCommand, WrittenAfterOptions
<1> QED
  BY <1>1, <1>2, <1>3 DEF CommandInit, CommandInv

\* One shell goes on while the others wait.
LEMMA CommandMoves ==
  ASSUME CommandInv, NEW c \in Shells, NEW k \in CommandStates, WrittenAfterOptions(k),
         cmd' = [cmd EXCEPT ![c] = k], server' \in ServerStates
  PROVE  CommandInv'
  BY DEF CommandInv

\* What a step leaves of a command: it ends with an error, ends, or goes on.
LEMMA ErrorFields ==
  ASSUME NEW k \in CommandStates, NEW why \in Exits, NEW n \in Nat
  PROVE  LET e == [k EXCEPT !.step = 0, !.exit = why, !.puts = n]
         IN  e \in CommandStates /\ e.plan = k.plan /\ e.step = 0 /\ e.exit = why /\ e.puts = n
  BY DEF CommandStates

LEMMA EndFields ==
  ASSUME NEW k \in CommandStates
  PROVE  LET e == [k EXCEPT !.step = 0, !.exit = "ok"]
         IN  e \in CommandStates /\ e.plan = k.plan /\ e.step = 0 /\ e.exit = "ok" /\ e.puts = k.puts
  BY DEF CommandStates, Exits

\* Going on: the next step, or the end of the command.
LEMMA AdvanceFields ==
  ASSUME NEW c \in Shells, cmd[c] \in CommandStates
  PROVE  /\ Advance(c) \in CommandStates
         /\ Advance(c).plan = cmd[c].plan /\ Advance(c).puts = cmd[c].puts
         /\ \/ Advance(c).step = 0 /\ Advance(c).exit = "ok"
            \/ cmd[c].step # Len(cmd[c].plan) /\ Advance(c).step = cmd[c].step + 1 /\ Advance(c).exit = cmd[c].exit
<1>1. cmd[c].step \in Nat /\ cmd[c].step + 1 \in Nat
  BY DEF CommandStates
<1>2. CASE cmd[c].step = Len(cmd[c].plan)
  <2>1. Advance(c) = [cmd[c] EXCEPT !.step = 0, !.exit = "ok"]
    BY <1>2 DEF Advance
  <2> QED
    BY <2>1, EndFields
<1>3. CASE cmd[c].step # Len(cmd[c].plan)
  <2> DEFINE n == cmd[c].step + 1
  <2>1. Advance(c) = [cmd[c] EXCEPT !.step = n]
    BY <1>3 DEF Advance
  <2> HIDE DEF n
  <2>2. Advance(c) \in CommandStates /\ Advance(c).plan = cmd[c].plan /\ Advance(c).puts = cmd[c].puts
        /\ Advance(c).step = n /\ Advance(c).exit = cmd[c].exit
    BY <1>1, <2>1 DEF CommandStates, n
  <2> QED
    BY <1>3, <2>2 DEF n
<1> QED
  BY <1>2, <1>3

LEMMA ReadFields ==
  ASSUME NEW k \in CommandStates, NEW what \in ServerStates
  PROVE  LET e == [k EXCEPT !.seen = what]
         IN  e \in CommandStates /\ e.plan = k.plan /\ e.step = k.step /\ e.exit = k.exit /\ e.puts = k.puts
  BY DEF CommandStates

LEMMA WriteFields ==
  ASSUME NEW k \in CommandStates
  PROVE  LET e == [k EXCEPT !.puts = @ + 1]
         IN  e \in CommandStates /\ e.plan = k.plan /\ e.step = k.step /\ e.exit = k.exit /\ e.puts = k.puts + 1
<1>1. k.puts \in Nat /\ k.puts + 1 \in Nat
  BY DEF CommandStates
<1> DEFINE n == k.puts + 1
<1>2. n \in Nat
  BY <1>1
<1> HIDE DEF n
<1>3. [k EXCEPT !.puts = n] \in CommandStates
  BY <1>2 DEF CommandStates
<1>4. LET e == [k EXCEPT !.puts = n] IN e.plan = k.plan /\ e.step = k.step /\ e.exit = k.exit /\ e.puts = n
  BY DEF CommandStates
<1> QED
  BY <1>3, <1>4 DEF n

\* The two ways of going on after the options: at the next step or the end, with
\* at most one more write, and with an error.
LEMMA GoesOn ==
  ASSUME CommandInv, NEW c \in Shells, cmd[c].step > 0, NEW k \in CommandStates,
         k.plan = cmd[c].plan,
         \/ k.step = 0 /\ k.exit = "ok"
         \/ cmd[c].step # Len(cmd[c].plan) /\ k.step = cmd[c].step + 1 /\ k.exit = cmd[c].exit,
         \/ k.puts = cmd[c].puts
         \/ k.puts = cmd[c].puts + 1 /\ At(c, "put")
  PROVE  WrittenAfterOptions(k)
<1>1. cmd[c] \in CommandStates /\ WrittenAfterOptions(cmd[c])
  BY DEF CommandInv
<1>2. Len(k.plan) \in Nat /\ cmd[c].step \in Nat /\ cmd[c].puts \in Nat /\ cmd[c].exit = "none"
  BY <1>1, EveryOptionFirst DEF CommandStates, OptionsFirst, WrittenAfterOptions
<1>3. (k.plan = <<>> => k.step = 0) /\ k.step <= Len(k.plan)
  BY <1>1, <1>2 DEF WrittenAfterOptions
<1>4. (k.step > 0 => k.exit = "none") /\ k.exit # "usage"
  BY <1>2
<1>5. ASSUME k.step > 0, k.puts > 0
      PROVE  \E i \in 1 .. k.step - 1 : k.plan[i][1] = "put"
  <2>1. k.step = cmd[c].step + 1
    BY <1>5
  <2>2. CASE At(c, "put")
    BY <1>2, <2>1, <2>2 DEF At
  <2>3. CASE k.puts = cmd[c].puts
    <3>1. PICK i \in 1 .. cmd[c].step - 1 : cmd[c].plan[i][1] = "put"
      BY <1>1, <1>5, <2>3 DEF WrittenAfterOptions
    <3> QED
      BY <1>2, <2>1, <3>1
  <2> QED
    BY <2>2, <2>3
<1> QED
  BY <1>3, <1>4, <1>5 DEF WrittenAfterOptions

LEMMA EndsInError ==
  ASSUME NEW k \in CommandStates, NEW why \in {"usage", "error"}, NEW n \in Nat, why = "usage" => n = 0
  PROVE  LET e == [k EXCEPT !.step = 0, !.exit = why, !.puts = n]
         IN  e \in CommandStates /\ WrittenAfterOptions(e)
<1> DEFINE e == [k EXCEPT !.step = 0, !.exit = why, !.puts = n]
<1>1. why \in Exits
  BY DEF Exits
<1>2. e \in CommandStates /\ e.plan = k.plan /\ e.step = 0 /\ e.exit = why /\ e.puts = n
  BY <1>1 DEF CommandStates
<1>3. Len(e.plan) \in Nat
  BY <1>2, EveryOptionFirst DEF CommandStates, OptionsFirst
<1> HIDE DEF e
<1>4. WrittenAfterOptions(e)
  BY <1>2, <1>3 DEF WrittenAfterOptions
<1> QED
  BY <1>2, <1>4 DEF e

\* What a write leaves on the server; a guarded setting is only replaced itself.
LEMMA ServerWritten ==
  ASSUME CommandInv, NEW c \in Shells
  PROVE  /\ Written(c) \in ServerStates
         /\ \A doc \in {"license", "policy"} : Written(c)[doc] # server[doc] => Of(c) = doc
<1>1. server \in ServerStates /\ cmd[c].seen \in ServerStates
  BY DEF CommandInv, CommandStates
<1>2. server.license \in Nat /\ server.policy \in Nat
  BY <1>1 DEF ServerStates
<1>3. CASE Of(c) \in {"license", "policy"}
  <2>1. Written(c) = [server EXCEPT ![Of(c)] = @ + 1]
    BY <1>3 DEF Written
  <2>2. CASE Of(c) = "license"
    BY <1>1, <1>2, <2>1, <2>2 DEF ServerStates
  <2>3. CASE Of(c) = "policy"
    BY <1>1, <1>2, <2>1, <2>3 DEF ServerStates
  <2> QED
    BY <1>3, <2>2, <2>3
<1>4. CASE Of(c) \notin {"license", "policy"}
  <2>1. /\ "new" \in Texts /\ 1 \in Nat
        /\ server.public \in Texts /\ server.mdns \in Texts /\ server.profile \in Texts /\ server.other \in Nat
        /\ cmd[c].seen.public \in Texts /\ cmd[c].seen.mdns \in Texts /\ cmd[c].seen.profile \in Texts
    BY <1>1 DEF ServerStates, Texts
  <2>2. \/ Written(c) = [server EXCEPT !.public = "new", !.mdns = cmd[c].seen.mdns]
        \/ Written(c) = [server EXCEPT !.mdns = "new", !.public = cmd[c].seen.public]
        \/ Written(c) = [server EXCEPT !.profile = "new"]
        \/ Written(c) = [server EXCEPT !.profile = cmd[c].seen.profile]
        \/ Written(c) = [server EXCEPT !.other = 1]
    BY <1>4 DEF Written
  <2> QED
    BY <1>1, <1>2, <2>1, <2>2 DEF ServerStates
<1> QED
  BY <1>3, <1>4

\* A license or a policy changes only through a command that had read the
\* revision it replaces, and a file that was saved stays.
FileNow == paths # "none" => paths' = paths

LEMMA FailedCommand ==
  ASSUME CommandInv, NEW c \in Shells, CommandFails(c, "error"), server' = server
  PROVE  CommandInv'
<1> DEFINE k == cmd[c]
           n == k.puts
           e == [k EXCEPT !.step = 0, !.exit = "error", !.puts = n]
<1>1. k \in CommandStates /\ cmd \in [Shells -> CommandStates] /\ server \in ServerStates /\ n \in Nat
  BY DEF CommandInv, CommandStates
<1>2. e \in CommandStates /\ WrittenAfterOptions(e)
  BY <1>1, EndsInError
<1>3. cmd' = [cmd EXCEPT ![c] = e]
  BY <1>1 DEF CommandFails, CommandStates
<1> HIDE DEF e
<1> QED
  BY <1>1, <1>2, <1>3, CommandMoves

LEMMA CommandsStep ==
  ASSUME CommandInv, CommandNext
  PROVE  CommandInv' /\ GuardedNow /\ FileNow
<1> PICK c \in Shells : StartCommand(c) \/ Required(c) \/ Reads(c) \/ Writes(c) \/ CallLost(c) \/ Saves(c)
  BY DEF CommandNext
<1> DEFINE k == cmd[c]
<1>0. /\ cmd \in [Shells -> CommandStates] /\ k \in CommandStates /\ WrittenAfterOptions(k)
      /\ server \in ServerStates /\ k.seen \in ServerStates /\ k.puts \in Nat /\ k.puts + 1 \in Nat
  BY DEF CommandInv, CommandStates
<1>a. /\ Advance(c) \in CommandStates
      /\ Advance(c).plan = k.plan /\ Advance(c).puts = k.puts
      /\ \/ Advance(c).step = 0 /\ Advance(c).exit = "ok"
         \/ k.step # Len(k.plan) /\ Advance(c).step = k.step + 1 /\ Advance(c).exit = k.exit
  BY <1>0, AdvanceFields
<1>s. server' = server => GuardedNow
  BY DEF GuardedNow
<1>g. k.step > 0 => WrittenAfterOptions(Advance(c))
  BY <1>a, GoesOn
<1>m. ASSUME cmd' = [cmd EXCEPT ![c] = Advance(c)], server' = server, k.step > 0
      PROVE  CommandInv'
  <2>1. server' \in ServerStates
    BY <1>0, <1>m
  <2>2. WrittenAfterOptions(Advance(c))
    BY <1>g, <1>m
  <2> QED
    BY <1>a, <1>m, <2>1, <2>2, CommandMoves
<1>f. ASSUME CommandFails(c, "error"), server' = server
      PROVE  CommandInv'
  BY <1>f, FailedCommand
<1>1. CASE StartCommand(c)
  <2>1. PICK p \in RunCli : cmd' = [cmd EXCEPT ![c] = [NoCommand EXCEPT !.plan = p, !.step = 1]]
    BY <1>1 DEF StartCommand
  <2> DEFINE e == [NoCommand EXCEPT !.plan = p, !.step = 1]
  <2>2. Len(p) \in Nat \ {0}
    BY EveryOptionFirst DEF OptionsFirst
  <2>3. Server0 \in ServerStates
    BY DEF Server0, ServerStates, Texts
  <2>4. e \in CommandStates /\ e.plan = p /\ e.step = 1 /\ e.exit = "none" /\ e.puts = 0
    BY <2>3 DEF NoCommand, CommandStates, Exits
  <2> HIDE DEF e
  <2>5. WrittenAfterOptions(e)
    BY <2>2, <2>4 DEF WrittenAfterOptions
  <2>6. CommandInv'
    BY <1>0, <1>1, <2>1, <2>4, <2>5, CommandMoves DEF StartCommand, e
  <2> QED
    BY <1>1, <1>s, <2>6 DEF StartCommand, FileNow
<1>2. CASE Required(c)
  <2>1. At(c, "need") /\ server' = server /\ paths' = paths
    BY <1>2 DEF Required
  <2>2. k.puts = 0
    <3>1. k.step > 0 /\ k.plan[k.step][1] = "need" /\ k.plan \in RunCli
      BY <1>0, <2>1 DEF At, WrittenAfterOptions, CommandStates
    <3>2. OptionsFirst(k.plan)
      BY <3>1, EveryOptionFirst
    <3>3. \A i \in 1 .. k.step - 1 : k.plan[i][1] # "put"
      BY <1>0, <3>1, <3>2 DEF OptionsFirst, WrittenAfterOptions, CommandStates
    <3> QED
      BY <1>0, <3>1, <3>3 DEF WrittenAfterOptions, CommandStates
  <2>3. ASSUME cmd' = [cmd EXCEPT ![c] = Advance(c)]
        PROVE  CommandInv'
    BY <1>m, <2>1, <2>3 DEF At
  <2>4. ASSUME CommandFails(c, "usage")
        PROVE  CommandInv'
    <3> DEFINE e == [k EXCEPT !.step = 0, !.exit = "usage", !.puts = 0]
    <3>1. e \in CommandStates /\ WrittenAfterOptions(e)
      BY <1>0, EndsInError
    <3>2. cmd' = [cmd EXCEPT ![c] = e]
      BY <1>0, <2>2, <2>4 DEF CommandFails, CommandStates
    <3>3. server' \in ServerStates
      BY <1>0, <2>1
    <3> HIDE DEF e
    <3> QED
      BY <3>1, <3>2, <3>3, CommandMoves
  <2>5. CommandInv'
    BY <1>2, <2>3, <2>4 DEF Required
  <2> QED
    BY <1>s, <2>1, <2>5 DEF FileNow
<1>3. CASE Reads(c)
  <2> DEFINE e == [Advance(c) EXCEPT !.seen = server]
  <2>1. e \in CommandStates /\ e.plan = Advance(c).plan /\ e.step = Advance(c).step
        /\ e.exit = Advance(c).exit /\ e.puts = Advance(c).puts
    BY <1>0, <1>a, ReadFields
  <2>2. cmd' = [cmd EXCEPT ![c] = e] /\ k.step > 0 /\ server' = server /\ paths' = paths
    BY <1>3 DEF Reads, At
  <2> HIDE DEF e
  <2>3. WrittenAfterOptions(e)
    BY <1>a, <2>1, <2>2, GoesOn
  <2>4. CommandInv'
    BY <1>0, <2>1, <2>2, <2>3, CommandMoves
  <2> QED
    BY <1>s, <2>2, <2>4 DEF FileNow
<1>4. CASE Writes(c)
  <2>1. At(c, "put") /\ paths' = paths /\ k.step > 0
    BY <1>4 DEF Writes, At
  <2>2. CASE Accepted(c)
    <3> DEFINE e == [Advance(c) EXCEPT !.puts = @ + 1]
    <3>1. e \in CommandStates /\ e.plan = Advance(c).plan /\ e.step = Advance(c).step
          /\ e.exit = Advance(c).exit /\ e.puts = Advance(c).puts + 1
      BY <1>a, WriteFields
    <3>2. cmd' = [cmd EXCEPT ![c] = e] /\ server' = Written(c)
      BY <1>4, <2>2 DEF Writes
    <3> HIDE DEF e
    <3>3. WrittenAfterOptions(e)
      BY <1>a, <2>1, <3>1, GoesOn
    <3>4. CommandInv'
      BY <3>1, <3>2, <3>3, ServerWritten, CommandMoves
    <3>5. cmd'[c] # k
      BY <1>0, <1>a, <3>1, <3>2
    <3>6. GuardedNow
      BY <2>2, <3>2, <3>5, ServerWritten DEF GuardedNow, Accepted, ExpectedRevision
    <3> QED
      BY <2>1, <3>4, <3>6 DEF FileNow
  <2>3. CASE ~Accepted(c)
    <3>1. CommandFails(c, "error") /\ server' = server
      BY <1>4, <2>3 DEF Writes
    <3> QED
      BY <1>s, <2>1, <3>1, FailedCommand DEF FileNow
  <2> QED
    BY <2>2, <2>3
<1>5. CASE CallLost(c)
  <2>1. paths' = paths
    BY <1>5 DEF CallLost
  <2>2. CASE CommandFails(c, "error") /\ UNCHANGED server
    BY <1>s, <2>1, <2>2, FailedCommand DEF FileNow
  <2>3. CASE /\ At(c, "put") /\ Accepted(c) /\ server' = Written(c)
             /\ cmd' = [cmd EXCEPT ![c].step = 0, ![c].exit = "error", ![c].puts = @ + 1]
    <3> DEFINE n == k.puts + 1
               e == [k EXCEPT !.step = 0, !.exit = "error", !.puts = n]
    <3>1. cmd' = [cmd EXCEPT ![c] = e]
      BY <1>0, <2>3
    <3>2. e \in CommandStates /\ WrittenAfterOptions(e)
      BY <1>0, EndsInError
    <3>3. e.puts = k.puts + 1
      BY <1>0 DEF CommandStates
    <3> HIDE DEF e, n
    <3>4. CommandInv'
      BY <2>3, <3>1, <3>2, ServerWritten, CommandMoves
    <3>5. cmd'[c] # k
      BY <1>0, <3>1, <3>3
    <3>6. GuardedNow
      BY <2>3, <3>5, ServerWritten DEF GuardedNow, Accepted, ExpectedRevision
    <3> QED
      BY <2>1, <3>4, <3>6 DEF FileNow
  <2> QED
    BY <1>5, <2>2, <2>3 DEF CallLost
<1>6. CASE Saves(c)
  <2>1. server' = server /\ k.step > 0
    BY <1>6 DEF Saves, At
  <2>2. ASSUME cmd' = [cmd EXCEPT ![c] = Advance(c)]
        PROVE  CommandInv'
    BY <1>m, <2>1, <2>2
  <2>3. ASSUME CommandFails(c, "error")
        PROVE  CommandInv'
    BY <1>f, <2>1, <2>3
  <2>4. CommandInv'
    BY <1>6, <2>2, <2>3 DEF Saves, SaveLicenseFile
  <2>5. FileNow
    BY <1>6 DEF Saves, SaveLicenseFile, FileNow
  <2> QED
    BY <1>s, <2>1, <2>4, <2>5
<1> QED
  BY <1>1, <1>2, <1>3, <1>4, <1>5, <1>6

(***************************************************************************)
(* The terminal client.                                                    *)
(***************************************************************************)

\* An operation is one call: it holds the screen from the key that began it until
\* its reload is over, and what it was begun with is what the dialog showed.
TerminalInv ==
  /\ ui = [tab |-> ui.tab, sel |-> ui.sel, overlay |-> ui.overlay, loading |-> ui.loading]
  /\ sent = [open |-> sent.open, item |-> sent.item, accepted |-> sent.accepted,
             reviewed |-> sent.reviewed, replaced |-> sent.replaced]
  /\ job = [pc |-> job.pc, act |-> job.act, item |-> job.item, rev |-> job.rev, origin |-> job.origin]
  /\ ui.loading \in BOOLEAN /\ job.pc \in {"none", "sent", "done"}
  /\ sent.open = (IF job.pc = "none" THEN 0 ELSE 1)
  /\ sent.item = sent.accepted /\ sent.replaced = sent.reviewed
  /\ job.pc = "sent" => load.pc = "none"
  /\ job.pc = "done" => load.pc # "none"
  /\ job.pc # "none" \/ load.pc # "none" => ui.loading
  /\ job.pc # "none" => job.rev = job.origin.rev /\ job.origin.act # "secret" /\ secret # "shown"
  /\ ui.overlay.act = "secret" => ui.overlay.kind = "message"
  /\ secret = "shown" => ui.overlay.act = "secret"

LEMMA DialogsOffered == \A o \in Dialogs : o.act # "secret"
<1> TAKE o \in Dialogs
<1>1. Note.act = "note"
  BY DEF Note, Message, Dialog
<1>2. \A k, a, i : Dialog(k, a, i).act = a
  BY DEF Dialog
<1>3. CASE o \in {Note}
  BY <1>1, <1>3
<1>4. CASE o \in ServiceDialogs(SelectedEntity)
  BY <1>1, <1>2, <1>4 DEF ServiceDialogs
<1>5. CASE o \in ModelDialogs(SelectedEntity)
  <2>1. "add model" # "secret" /\ "remove" # "secret"
    OBVIOUS
  <2>2. \/ o = Dialog("menu", "add model", NoItem)
        \/ o = Dialog("confirm", "remove", SelectedEntity)
    BY <1>5, Zenon DEF ModelDialogs
  <2>3. o.act = "add model" \/ o.act = "remove"
    <3>1. CASE o = Dialog("menu", "add model", NoItem)
      BY <1>2, <3>1, Zenon
    <3>2. CASE o = Dialog("confirm", "remove", SelectedEntity)
      BY <1>2, <3>2, Zenon
    <3> QED
      BY <2>2, <3>1, <3>2
  <2> QED
    BY <2>1, <2>3, Zenon
<1>6. CASE o \in UserDialogs(SelectedEntity)
  BY <1>1, <1>2, <1>6 DEF UserDialogs, CreateUser, DeleteUser
<1>7. CASE o \in KeyDialogs(SelectedEntity)
  BY <1>2, <1>7 DEF KeyDialogs
<1>8. CASE o \in LicenseDialogs
  BY <1>2, <1>8 DEF LicenseDialogs
<1>9. CASE o \in KubernetesDialogs(SelectedEntity)
  BY <1>1, <1>2, <1>9 DEF KubernetesDialogs
<1>10. CASE o \in HardwareDialogs
  BY <1>2, <1>10 DEF HardwareDialogs
<1> QED
  BY <1>3, <1>4, <1>5, <1>6, <1>7, <1>8, <1>9, <1>10 DEF Dialogs

\* What a step leaves of the screen.
UiShape(u) == u = [tab |-> u.tab, sel |-> u.sel, overlay |-> u.overlay, loading |-> u.loading]

LEMMA ShowsOverlay ==
  ASSUME TerminalInv, NEW o, OverlayShows(o)
  PROVE  UiShape(ui') /\ ui'.overlay = o /\ ui'.loading = ui.loading
  BY DEF TerminalInv, OverlayShows, UiShape

\* A step that does not end or begin a call.
LEMMA ScreenMoves ==
  ASSUME TerminalInv, UiShape(ui'), ui'.loading = ui.loading, job' = job, sent' = sent,
         load'.pc = load.pc,
         ui'.overlay.act = "secret" => ui'.overlay.kind = "message",
         secret' = "shown" => ui'.overlay.act = "secret" /\ secret = "shown"
  PROVE  TerminalInv'
  BY DEF TerminalInv, UiShape

LEMMA NothingMoves ==
  ASSUME TerminalInv, UNCHANGED <<ui, job, load, historyVars>>
  PROVE  TerminalInv'
  BY DEF TerminalInv, historyVars

LEMMA KeysStep ==
  ASSUME TerminalInv, NEW step \in {1, -1}, KeyTab(step) \/ KeyRow(step)
  PROVE  TerminalInv'
<1>1. UiShape(ui)
  BY DEF TerminalInv, UiShape
<1>2. UiShape(ui') /\ ui'.overlay = ui.overlay /\ ui'.loading = ui.loading
  <2>1. CASE KeyTab(step)
    BY <1>1, <2>1 DEF KeyTab, UiShape
  <2>2. CASE KeyRow(step)
    BY <1>1, <2>2 DEF KeyRow, UiShape
  <2> QED
    BY <2>1, <2>2
<1>3. UNCHANGED <<job, load, sent, secret>>
  BY DEF KeyTab, KeyRow, historyVars
<1> QED
  BY <1>2, <1>3, ScreenMoves DEF TerminalInv

LEMMA OfferStep ==
  ASSUME TerminalInv, BrowseAction \/ KeySignOut \/ KeyMenu \/ CloseDialog
  PROVE  TerminalInv'
<1>1. CASE BrowseAction
  <2>1. PICK o \in Dialogs : OverlayShows(o)
    BY <1>1 DEF BrowseAction
  <2>2. ui.overlay.act = "none" /\ UNCHANGED <<job, load, sent, secret>>
    BY <1>1 DEF BrowseAction, Browsing, NoDialog, Dialog, historyVars
  <2>3. secret # "shown"
    BY <2>2 DEF TerminalInv
  <2> QED
    BY <2>1, <2>2, <2>3, ShowsOverlay, DialogsOffered, ScreenMoves
<1>2. CASE KeySignOut
  <2> DEFINE o == Dialog("confirm", "sign out", NoItem)
  <2>1. OverlayShows(o) /\ UNCHANGED <<job, load, sent, secret>>
    BY <1>2, Zenon DEF KeySignOut, historyVars
  <2>a. Browsing
    BY <1>2, Zenon DEF KeySignOut
  <2>2. ui.overlay.act = "none"
    BY <2>a DEF Browsing, NoDialog, Dialog
  <2>3. o.act = "sign out" /\ "sign out" # "secret"
    BY Zenon DEF Dialog
  <2> HIDE DEF o
  <2>4. o.act # "secret"
    BY <2>3, Zenon
  <2>5. secret # "shown"
    BY <2>2 DEF TerminalInv
  <2> QED
    BY <2>1, <2>4, <2>5, ShowsOverlay, ScreenMoves
<1>3. CASE KeyMenu
  <2>1. PICK o \in IF ui.overlay.act = "manage" THEN ManageUser(ui.overlay.item) ELSE AddModel : OverlayShows(o)
    BY <1>3 DEF KeyMenu
  <2>2. ui.overlay.kind = "menu" /\ UNCHANGED <<job, load, sent, secret>>
    BY <1>3 DEF KeyMenu, historyVars
  <2>3. o.act # "secret"
    BY <2>1 DEF ManageUser, AddModel, AddLocalModel, AddExternalModel, Note, Message, Dialog
  <2>4. secret # "shown"
    BY <2>2 DEF TerminalInv
  <2> QED
    BY <2>1, <2>2, <2>3, <2>4, ShowsOverlay, ScreenMoves
<1>4. CASE CloseDialog
  <2>1. OverlayShows(NoDialog) /\ SecretSeen /\ UNCHANGED <<job, load, sent>>
    BY <1>4 DEF CloseDialog
  <2>2. NoDialog.act = "none"
    BY DEF NoDialog, Dialog
  <2>3. secret' # "shown"
    BY <2>1 DEF SecretSeen, TerminalInv
  <2> QED
    BY <2>1, <2>2, <2>3, ShowsOverlay, ScreenMoves
<1> QED
  BY <1>1, <1>2, <1>3, <1>4

\* A call begins with what the dialog shows.
LEMMA PerformStep ==
  ASSUME TerminalInv, NEW act, NEW item, NEW rev, Perform(act, item, rev), UNCHANGED <<load, secret>>,
         ui.overlay.kind # "message", act # "secret", item = Named, rev = ui.overlay.rev
  PROVE  TerminalInv'
<1>1. CASE ui.loading
  BY <1>1 DEF Perform, TerminalInv
<1>2. CASE ~ui.loading
  <2>1. BeginOperation(act, item, rev)
    BY <1>2 DEF Perform
  <2>2. job.pc = "none" /\ load.pc = "none" /\ sent.open = 0
    BY <1>2 DEF TerminalInv
  <2>3. ui.overlay.act # "secret" /\ secret # "shown"
    BY DEF TerminalInv
  <2>4. UiShape(ui') /\ ui'.loading = TRUE /\ ui'.overlay = Dialog("busy", act, NoItem)
    BY <2>1 DEF BeginOperation, TerminalInv, UiShape
  <2>5. /\ sent' = [open |-> sent'.open, item |-> sent'.item, accepted |-> sent'.accepted,
                    reviewed |-> sent'.reviewed, replaced |-> sent'.replaced]
        /\ sent'.open = 1 /\ sent'.item = item /\ sent'.accepted = item
        /\ sent'.reviewed = sent'.replaced
    <3>1. sent' = [sent EXCEPT !.open = 1, !.item = item, !.accepted = item]
      <4>1. sent' = [sent EXCEPT !.open = @ + 1, !.item = item, !.accepted = item]
        BY <2>1 DEF BeginOperation
      <4>2. sent.open + 1 = 1
        BY <2>2
      <4> QED
        BY <4>1, <4>2
    <3>2. sent = [open |-> sent.open, item |-> sent.item, accepted |-> sent.accepted,
                  reviewed |-> sent.reviewed, replaced |-> sent.replaced] /\ sent.replaced = sent.reviewed
      BY DEF TerminalInv
    <3> QED
      BY <3>1, <3>2
  <2>6. job' = [pc |-> "sent", act |-> act, item |-> item, rev |-> rev, origin |-> ui.overlay]
    BY <2>1 DEF BeginOperation
  <2>7. Dialog("busy", act, NoItem).act = act
    BY DEF Dialog
  <2> QED
    BY <2>2, <2>3, <2>4, <2>5, <2>6, <2>7 DEF TerminalInv, UiShape
<1> QED
  BY <1>1, <1>2 DEF TerminalInv

LEMMA KeyConfirmStep ==
  ASSUME TerminalInv, KeyConfirm \/ SubmitDialogForm \/ CopyKubeconfig
  PROVE  TerminalInv'
<1>1. CASE KeyConfirm \/ SubmitDialogForm
  <2>1. UNCHANGED <<load, secret>> /\ ui.overlay.kind \in {"confirm", "form"}
        /\ Perform(ui.overlay.act, ui.overlay.item, ui.overlay.rev)
    BY <1>1, Zenon DEF KeyConfirm, SubmitDialogForm
  <2>2. NoDialog.kind = "none"
    BY DEF NoDialog, Dialog
  <2>3. ui.overlay.kind # "message" /\ ui.overlay.act # "secret" /\ ui.overlay.item = Named
    BY <2>1, <2>2 DEF Named, TerminalInv
  <2> QED
    BY <2>1, <2>3, PerformStep
<1>2. CASE CopyKubeconfig
  <2> DEFINE e == SelectedEntity
  <2>1. ui.overlay = NoDialog /\ Perform("copy", e, 0) /\ UNCHANGED <<load, secret>>
    BY <1>2, Zenon DEF CopyKubeconfig, Browsing
  <2>2. NoDialog.kind = "none" /\ NoDialog.rev = 0
    BY DEF NoDialog, Dialog
  <2>3. e = Named
    BY <2>1 DEF Named
  <2>4. ui.overlay.kind # "message" /\ ui.overlay.rev = 0 /\ "copy" # "secret"
    BY <2>1, <2>2
  <2> HIDE DEF e
  <2> QED
    BY <2>1, <2>3, <2>4, PerformStep
<1> QED
  BY <1>1, <1>2

LEMMA InspectionStep ==
  ASSUME TerminalInv, InspectionAnswers
  PROVE  TerminalInv'
<1> DEFINE preview == [Dialog("confirm", "activate", NoItem) EXCEPT !.rev = appliance.lic]
<1>1. PICK o \in {preview, Note} : OverlayShows(o)
  BY DEF InspectionAnswers
<1>2. o.act # "secret"
  BY DEF Note, Message, Dialog
<1>3. UNCHANGED <<job, load, sent>>
  BY DEF InspectionAnswers
<1>4. secret' # "shown"
  BY DEF InspectionAnswers, TerminalInv
<1> HIDE DEF preview
<1> QED
  BY <1>1, <1>2, <1>3, <1>4, ShowsOverlay, ScreenMoves

\* What is recorded of a call when it is over.
LEMMA OverFields ==
  ASSUME TerminalInv, OperationOver
  PROVE  /\ sent' = [open |-> sent'.open, item |-> sent'.item, accepted |-> sent'.accepted,
                     reviewed |-> sent'.reviewed, replaced |-> sent'.replaced]
         /\ job.pc # "none" => sent'.open = 0
         /\ sent'.item = sent'.accepted /\ sent'.reviewed = sent'.replaced
<1>1. sent = [open |-> sent.open, item |-> sent.item, accepted |-> sent.accepted,
              reviewed |-> sent.reviewed, replaced |-> sent.replaced]
  BY DEF TerminalInv
<1>2. sent' = [sent EXCEPT !.open = @ - 1, !.item = NoItem, !.accepted = NoItem, !.reviewed = 0, !.replaced = 0]
  BY DEF OperationOver
<1> DEFINE n == sent.open - 1
<1>3. sent' = [sent EXCEPT !.open = n, !.item = NoItem, !.accepted = NoItem, !.reviewed = 0, !.replaced = 0]
  BY <1>2
<1>4. job.pc # "none" => n = 0
  BY DEF TerminalInv
<1> HIDE DEF n
<1> QED
  BY <1>1, <1>3, <1>4

\* The call is answered, or it fails and its form comes back.
LEMMA ApiStep ==
  ASSUME TerminalInv, ApiDone \/ ApiFails
  PROVE  TerminalInv'
<1>1. job.pc = "sent" /\ load.pc = "none" /\ ui.loading /\ secret # "shown" /\ job.origin.act # "secret"
      /\ job.rev = job.origin.rev
  BY DEF ApiDone, ApiFails, TerminalInv
<1>2. CASE ApiDone
  <2>1. ~Refused /\ UNCHANGED <<ui, secret>> /\ load'.pc = "session"
    BY <1>2 DEF ApiDone, NoLoad
  <2>2. /\ job' = [pc |-> job'.pc, act |-> job'.act, item |-> job'.item, rev |-> job'.rev, origin |-> job'.origin]
        /\ job'.pc = "done" /\ job'.rev = job.rev /\ job'.origin = job.origin
    BY <1>2 DEF ApiDone, TerminalInv
  <2>3. /\ sent' = [open |-> sent'.open, item |-> sent'.item, accepted |-> sent'.accepted,
                    reviewed |-> sent'.reviewed, replaced |-> sent'.replaced]
        /\ sent'.open = sent.open /\ sent'.item = sent.item /\ sent'.accepted = sent.accepted
        /\ sent'.replaced = sent'.reviewed
    <3>1. CASE job.act = "activate"
      <4>1. sent' = [sent EXCEPT !.replaced = appliance.lic, !.reviewed = job.origin.rev]
        BY <1>2, <3>1 DEF ApiDone
      <4>2. job.origin.rev = appliance.lic
        BY <1>1, <2>1, <3>1 DEF Refused
      <4> QED
        BY <4>1, <4>2 DEF TerminalInv
    <3>2. CASE job.act # "activate"
      BY <1>2, <3>2 DEF ApiDone, TerminalInv
    <3> QED
      BY <3>1, <3>2
  <2> QED
    BY <1>1, <2>1, <2>2, <2>3 DEF TerminalInv
<1>3. CASE ApiFails
  <2>1. job' = NoJob /\ OperationFailed /\ UNCHANGED <<load, secret>>
    BY <1>3 DEF ApiFails
  <2>2. PICK o : /\ o = IF job.origin.kind = "form" THEN job.origin ELSE Note
                 /\ ui' = [ui EXCEPT !.loading = FALSE, !.overlay = o]
    BY <2>1 DEF OperationFailed
  <2>3. UiShape(ui') /\ ui'.overlay = o /\ ui'.loading = FALSE
    BY <2>2 DEF TerminalInv, UiShape
  <2>4. o.act # "secret"
    BY <1>1, <2>2 DEF Note, Message, Dialog
  <2>5. OperationOver
    BY <2>1 DEF OperationFailed
  <2>6. NoJob = [pc |-> NoJob.pc, act |-> NoJob.act, item |-> NoJob.item, rev |-> NoJob.rev, origin |-> NoJob.origin]
        /\ NoJob.pc = "none"
    BY DEF NoJob
  <2> QED
    BY <1>1, <2>1, <2>3, <2>4, <2>5, <2>6, OverFields DEF TerminalInv, UiShape
<1> QED
  BY <1>2, <1>3

\* A reload is over, and with it the call it belongs to.
LEMMA SettledStep ==
  ASSUME TerminalInv, NEW ok \in BOOLEAN, LoadSettled(ok), load.pc # "none"
  PROVE  TerminalInv'
<1>1. load' = NoLoad /\ job' = NoJob /\ NoLoad.pc = "none"
  BY DEF LoadSettled, NoLoad
<1>2. NoJob = [pc |-> NoJob.pc, act |-> NoJob.act, item |-> NoJob.item, rev |-> NoJob.rev, origin |-> NoJob.origin]
      /\ NoJob.pc = "none"
  BY DEF NoJob
<1>3. job.pc # "sent"
  BY DEF TerminalInv
<1>4. UiShape(ui)
  BY DEF TerminalInv, UiShape
<1>5. CASE job.pc = "done"
  <2>1. PICK s : ui' = [ui EXCEPT !.loading = FALSE, !.overlay = Reported(job.act), !.sel = s]
    BY <1>5 DEF LoadSettled
  <2>2. UiShape(ui') /\ ui'.overlay = Reported(job.act) /\ ui'.loading = FALSE
    BY <1>4, <2>1 DEF UiShape
  <2>3. /\ Reported(job.act).kind = "message"
        /\ job.act = "key" => Reported(job.act).act = "secret"
    BY DEF Reported, Note, Message, Dialog
  <2>4. secret' = "shown" => job.act = "key"
    BY <1>5 DEF LoadSettled, TerminalInv
  <2>5. OperationOver
    BY <1>5 DEF LoadSettled
  <2> QED
    BY <1>1, <1>2, <1>5, <2>2, <2>3, <2>4, <2>5, OverFields DEF TerminalInv, UiShape
<1>6. CASE job.pc = "none"
  <2>1. PICK s : ui' = [ui EXCEPT !.loading = FALSE, !.sel = s]
    BY <1>6 DEF LoadSettled
  <2>2. UiShape(ui') /\ ui'.overlay = ui.overlay /\ ui'.loading = FALSE
    BY <1>4, <2>1 DEF UiShape
  <2>3. sent' = sent /\ secret' = secret
    BY <1>6 DEF LoadSettled, historyVars
  <2> QED
    BY <1>1, <1>2, <1>6, <2>2, <2>3 DEF TerminalInv, UiShape
<1> QED
  BY <1>3, <1>5, <1>6 DEF TerminalInv

LEMMA LoadStep ==
  ASSUME TerminalInv, LoadSession \/ LoadLists \/ LoadFails \/ RefreshStarts
  PROVE  TerminalInv'
<1>1. CASE LoadSession
  <2>1. UNCHANGED <<ui, job, sent, secret>> /\ load.pc = "session" /\ load'.pc = "lists"
    BY <1>1 DEF LoadSession, historyVars
  <2> QED
    BY <2>1 DEF TerminalInv
<1>2. CASE LoadLists
  BY <1>2, SettledStep DEF LoadLists
<1>3. CASE LoadFails
  BY <1>3, SettledStep DEF LoadFails
<1>4. CASE RefreshStarts
  <2>1. ui' = [ui EXCEPT !.loading = TRUE] /\ load'.pc = "session" /\ UNCHANGED <<job, sent, secret>> /\ ~ui.loading
    BY <1>4 DEF RefreshStarts, NoLoad, historyVars
  <2>2. UiShape(ui') /\ ui'.overlay = ui.overlay /\ ui'.loading = TRUE
    BY <2>1 DEF TerminalInv, UiShape
  <2> QED
    BY <2>1, <2>2 DEF TerminalInv, UiShape
<1> QED
  BY <1>1, <1>2, <1>3, <1>4

LEMMA ElsewhereStep ==
  ASSUME TerminalInv, SubmitLicense \/ SignOut \/ Quit \/ ConsoleSteps \/ TokenSteps \/ ClearSession \/ TokenExpires \/ OthersChange
  PROVE  TerminalInv'
<1>1. ASSUME SubmitLicense \/ SignOut \/ Quit \/ ClearSession \/ TokenExpires \/ OthersChange
      PROVE  UNCHANGED <<ui, job, load, historyVars>>
  BY <1>1, Zenon DEF SubmitLicense, SignOut, Quit, ClearSession, TokenExpires, OthersChange,
     screenVars
<1>2. ASSUME ConsoleSteps
      PROVE  UNCHANGED <<ui, job, load, historyVars>>
  BY <1>2, Zenon DEF ConsoleSteps, OpenConsole, ConsoleLogout, RequestDeviceCode,
     DeviceExpired, StartTui, PollDevice, screenVars
<1>3. ASSUME TokenSteps
      PROVE  UNCHANGED <<ui, job, load, historyVars>>
  BY <1>3, Zenon DEF TokenSteps, RefreshSession, RenewalAnswers, WriteSession, screenVars
<1> QED
  BY <1>1, <1>2, <1>3, NothingMoves

LEMMA TerminalStep == TerminalInv /\ [TerminalNext]_terminalVars => TerminalInv'
<1> SUFFICES ASSUME TerminalInv, [TerminalNext]_terminalVars PROVE TerminalInv'
  OBVIOUS
<1>1. CASE UserSteps
  BY <1>1, KeysStep, OfferStep, KeyConfirmStep, ElsewhereStep DEF UserSteps
<1>2. CASE ConsoleSteps \/ TokenSteps \/ ClearSession \/ TokenExpires \/ OthersChange
  BY <1>2, ElsewhereStep
<1>3. CASE AnswerSteps \/ RefreshStarts
  BY <1>3, LoadStep, ApiStep DEF AnswerSteps
<1>4. CASE InspectionAnswers
  BY <1>4, InspectionStep
<1>5. CASE UNCHANGED terminalVars
  BY <1>5, NothingMoves DEF terminalVars, historyVars
<1> QED
  BY <1>1, <1>2, <1>3, <1>4, <1>5 DEF TerminalNext

LEMMA TerminalStarts == TerminalInit => TerminalInv
<1> SUFFICES ASSUME TerminalInit PROVE TerminalInv
  OBVIOUS
<1>1. /\ ui = [tab |-> 1, sel |-> [t \in ListTabs |-> 1], overlay |-> NoDialog, loading |-> FALSE]
      /\ job = NoJob /\ load = NoLoad /\ secret = "none"
      /\ sent = [open |-> 0, item |-> NoItem, accepted |-> NoItem, reviewed |-> 0, replaced |-> 0]
  BY DEF TerminalInit
<1>2. NoDialog.act = "none" /\ NoLoad.pc = "none"
  BY DEF NoDialog, Dialog, NoLoad
<1>3. NoJob = [pc |-> NoJob.pc, act |-> NoJob.act, item |-> NoJob.item, rev |-> NoJob.rev, origin |-> NoJob.origin]
      /\ NoJob.pc = "none"
  BY DEF NoJob
<1> QED
  BY <1>1, <1>2, <1>3 DEF TerminalInv

LEMMA TerminalSound == TerminalInv => TerminalSafe
  BY DEF TerminalInv, TerminalSafe, ActsOnConfirmed, OneOperation, SecretShown, LicenseReviewed

(***************************************************************************)
(* The pages that ask for host operations.                                 *)
(***************************************************************************)
FixedPages == {"power", "prepare", "updates", "memory", "cache"}
ThreeParts(s) == s = <<s[1], s[2], s[3]>>
AskShape(a) == DOMAIN a = {"on", "req", "identity", "shown", "from", "disturbed", "mine", "state"}
ReviewShape(r) == DOMAIN r = {"key", "open", "req", "n", "shown", "state", "accepted", "disturbed"}
HostShape(m) ==
  /\ DOMAIN m = {"boot", "id", "preview", "op"}
  /\ DOMAIN m.op = {"req", "on", "phase", "kept", "from", "asked", "was"}
SeenShape(h) == DOMAIN h = {"boot", "id", "preview", "stale", "op"}

\* A number is not used by requests of another kind: what carries it is the request itself.
OnlyRequest(n) ==
  /\ managed.op.from = n => managed.op.req = n
  /\ \A b \in asks : b.on # "keep" /\ b.from = n => b.req = n
HostOk ==
  /\ HostShape(managed) /\ SeenShape(seenHosts) /\ page \in Pages /\ reviews \in Nat
  /\ managed.op.from \in 0 .. reviews /\ managed.op.kept \in {0, managed.op.req} /\ managed.op.asked = managed.op.was
\* The review on screen is of the form on screen, and of what that shows.
ReviewOk ==
  /\ ReviewShape(review) /\ review.key = Key(page, seenHosts) /\ review.open \in BOOLEAN /\ review.disturbed = FALSE
  /\ review.open =>
       /\ review.req = review.n /\ review.n \in 1 .. reviews /\ ThreeParts(review.shown)
       /\ page \in {"network", "memory"} => review.shown[1] = seenHosts.boot /\ review.shown[2] = seenHosts.id
       /\ page \in FixedPages => OnlyRequest(review.n)
       /\ page \notin FixedPages => \A a \in asks : a.on \in FixedPages => a.from # review.n
\* A request names what its review showed.
AskOk(a) ==
  /\ AskShape(a) /\ ThreeParts(a.shown) /\ a.identity[1] = a.shown[1] /\ a.identity[2] = a.shown[2]
  /\ a.on = "software" => a.identity[3] = a.shown[3]
  /\ a.on = "memory" => a.disturbed = FALSE
  /\ a.from \in 0 .. reviews
  /\ a.on \in FixedPages => a.from # 0 /\ a.req = a.from /\ OnlyRequest(a.from)
PagesInv == HostOk /\ ReviewOk /\ \A a \in asks : AskOk(a)

SameAsk(a, b) ==
  /\ AskShape(b) /\ b.on = a.on /\ b.req = a.req /\ b.identity = a.identity /\ b.shown = a.shown
  /\ b.from = a.from /\ b.disturbed = a.disturbed
SameReview ==
  /\ ReviewShape(review') /\ review'.disturbed = FALSE /\ review'.open \in BOOLEAN
  /\ review'.open => /\ review.open /\ review'.req = review.req /\ review'.n = review.n /\ review'.shown = review.shown
                     /\ page' = page
                     /\ page \in {"network", "memory"} => seenHosts'.boot = seenHosts.boot /\ seenHosts'.id = seenHosts.id

\* A step that asks for nothing new.
LEMMA PagesMove ==
  ASSUME PagesInv, HostOk', reviews' = reviews,
         (managed'.op.from = managed.op.from /\ managed'.op.req = managed.op.req) \/ managed'.op.from = 0,
         \A b \in asks' : \E a \in asks : SameAsk(a, b),
         SameReview, review'.key = Key(page', seenHosts')
  PROVE  PagesInv'
<1>1. \A n : n # 0 /\ OnlyRequest(n) => OnlyRequest(n)'
  BY DEF OnlyRequest, SameAsk
<1>2. ASSUME NEW b \in asks'
      PROVE  AskOk(b)'
  <2>1. PICK a \in asks : SameAsk(a, b)
    BY <1>2
  <2> QED
    BY <1>1, <2>1 DEF PagesInv, AskOk, SameAsk
<1>3. ReviewOk'
  <2>2. ASSUME review'.open
        PROVE  /\ review.open /\ review'.req = review'.n /\ review'.n \in 1 .. reviews' /\ ThreeParts(review'.shown)
               /\ page' \in {"network", "memory"} => review'.shown[1] = seenHosts'.boot /\ review'.shown[2] = seenHosts'.id
               /\ page' = page /\ review'.n = review.n /\ review.n # 0
    BY <2>2 DEF PagesInv, ReviewOk, SameReview, HostOk
  <2>3. ASSUME review'.open, page' \in FixedPages
        PROVE  OnlyRequest(review.n)'
    <3>1. OnlyRequest(review.n)
      BY <2>2, <2>3 DEF PagesInv, ReviewOk
    <3>2. OnlyRequest(review'.n)
      BY <2>2, <2>3, <3>1
    <3> QED
      BY <1>1, <2>2, <2>3, <3>2 DEF OnlyRequest
  <2>4. ASSUME review'.open, page' \notin FixedPages, NEW b \in asks', b.on \in FixedPages
        PROVE  b.from # review'.n
    BY <2>2, <2>4 DEF PagesInv, ReviewOk, SameAsk
  <2> QED
    BY <2>2, <2>3, <2>4 DEF ReviewOk, SameReview
<1> QED
  BY <1>2, <1>3 DEF PagesInv

LEMMA ClosedReview ==
  ASSUME NEW r, ReviewShape(r)
  PROVE  Close(r).key = r.key /\ Close(r).open = FALSE /\ Close(r).disturbed = FALSE /\ ReviewShape(Close(r))
  BY DEF Close, ReviewShape

\* What a poll makes of the review.
LEMMA UpdatedReview ==
  ASSUME NEW host, NEW r, ReviewShape(r), r.disturbed = FALSE, r.open \in BOOLEAN
  PROVE  LET u == Updated(host, r)
         IN  /\ ReviewShape(u) /\ u.disturbed = FALSE /\ u.open \in BOOLEAN /\ u.key = r.key
             /\ u.open => r.open /\ u.req = r.req /\ u.n = r.n /\ u.shown = r.shown
<1> DEFINE u == Updated(host, r)
           d == [r EXCEPT !.disturbed = @ \/ (r.open /\ r.state = "idle")]
<1>1. CASE u = r
  BY <1>1
<1>2. CASE u = MemoryReviewDropped(d)
  <2>1. ReviewShape(d) /\ d.key = r.key /\ d.state = r.state /\ d.open = r.open /\ d.req = r.req /\ d.n = r.n /\ d.shown = r.shown
    BY DEF ReviewShape
  <2>2. r.state # "idle" => d.disturbed = FALSE
    BY DEF ReviewShape
  <2> HIDE DEF d
  <2>3. CASE r.state = "idle"
    <3>1. u = Close(d)
      BY <1>2, <2>1, <2>3 DEF MemoryReviewDropped
    <3>2. Close(d).key = d.key /\ Close(d).open = FALSE /\ Close(d).disturbed = FALSE /\ ReviewShape(Close(d))
      BY <2>1, ClosedReview
    <3> QED
      BY <2>1, <3>1, <3>2
  <2>4. CASE r.state # "idle"
    BY <1>2, <2>1, <2>2, <2>4 DEF MemoryReviewDropped
  <2> QED
    BY <2>3, <2>4
<1> QED
  BY <1>1, <1>2 DEF Updated

LEMMA PanelFixed ==
  ASSUME NEW p \in Pages
  PROVE  /\ Fixed(p, "request") <=> p \in FixedPages
         /\ Fixed(p, "identity") => p \in {"power", "prepare", "updates", "cache"}
         /\ p \in {"power", "prepare", "updates", "cache"} => Fixed(p, "identity")
<1>1. \A h : /\ HostPowerPanel(h).fixed = {"request", "identity"} /\ HostPreparation(h).fixed = {"request", "identity"}
             /\ NetworkEditor(h).fixed = {} /\ HostUpdateEditor(h).fixed = {"request", "identity"}
             /\ SoftwareChannelEditor(h).fixed = {} /\ MemoryControls(h).fixed = {"request"}
             /\ CachePanel(h).fixed = {"request", "identity"}
  BY DEF HostPowerPanel, HostPreparation, NetworkEditor, HostUpdateEditor,
     SoftwareChannelEditor, MemoryControls, CachePanel
<1> QED
  BY <1>1 DEF Fixed, PanelOf, Pages, FixedPages

\* The forms are keyed by what they change.
LEMMA KeyIdentity ==
  ASSUME NEW p \in {"network", "memory"}, NEW g, NEW h, Key(p, g) = Key(p, h)
  PROVE  g.boot = h.boot /\ g.id = h.id
  BY DEF Key

LEMMA SameAsks ==
  ASSUME PagesInv
  PROVE  /\ \A b \in Abandoned : \E a \in asks : SameAsk(a, b)
         /\ \A a \in asks : SameAsk(a, a)
         /\ \A a \in asks : \A s : SameAsk(a, [a EXCEPT !.state = s])
<1>1. \A a \in asks : AskShape(a)
  BY DEF PagesInv, AskOk
<1>2. \A a \in asks : SameAsk(a, [a EXCEPT !.mine = FALSE])
  BY <1>1 DEF SameAsk, AskShape
<1>3. \A b \in Abandoned : \E a \in asks : SameAsk(a, b)
  BY <1>2 DEF Abandoned
<1>4. \A a \in asks : SameAsk(a, a)
  BY <1>1 DEF SameAsk
<1>5. \A a \in asks : \A s : SameAsk(a, [a EXCEPT !.state = s])
  BY <1>1 DEF SameAsk, AskShape
<1> QED
  BY <1>3, <1>4, <1>5

LEMMA NewReviewShape ==
  ASSUME NEW p, NEW h
  PROVE  LET r == NoReview(p, h)
         IN  ReviewShape(r) /\ r.key = Key(p, h) /\ r.open = FALSE /\ r.disturbed = FALSE
  BY DEF NoReview, ReviewShape

\* Polling.
LEMMA PollStep ==
  ASSUME PagesInv, UseHosts \/ PollFails
  PROVE  PagesInv'
<1>1. /\ ReviewShape(Refetched) /\ Refetched.disturbed = FALSE /\ Refetched.open = review.open /\ Refetched.key = review.key
      /\ Refetched.req = review.req /\ Refetched.n = review.n /\ Refetched.shown = review.shown
  BY DEF Refetched, PagesInv, ReviewOk, ReviewShape
<1>2. Refetched.open \in BOOLEAN
  BY <1>1 DEF PagesInv, ReviewOk
<1>3. UNCHANGED <<managed, page, reviews>>
  BY DEF UseHosts, PollFails
<1>4. CASE UseHosts
  <2>1. Render(Fresh(managed), Refetched)
    BY <1>4 DEF UseHosts
  <2>2. seenHosts' = Fresh(managed) /\ SeenShape(Fresh(managed))
    BY <2>1 DEF Render, Fresh, SeenShape
  <2>3. HostOk'
    BY <1>3, <2>2 DEF PagesInv, HostOk
  <2>4. CASE Key(page, Fresh(managed)) # Refetched.key
    <3>1. review' = NoReview(page, Fresh(managed)) /\ asks' = Abandoned
      BY <2>1, <2>4 DEF Render
    <3>2. SameReview /\ review'.key = Key(page', seenHosts')
      BY <1>3, <2>2, <3>1, NewReviewShape DEF SameReview
    <3> QED
      BY <1>3, <2>3, <3>1, <3>2, SameAsks, PagesMove
  <2>5. CASE Key(page, Fresh(managed)) = Refetched.key
    <3>1. review' = Updated(Fresh(managed), Refetched) /\ asks' = asks
      BY <2>1, <2>5 DEF Render
    <3>2. /\ ReviewShape(review') /\ review'.disturbed = FALSE /\ review'.open \in BOOLEAN /\ review'.key = Refetched.key
          /\ review'.open => review.open /\ review'.req = review.req /\ review'.n = review.n /\ review'.shown = review.shown
      BY <1>1, <1>2, <3>1, UpdatedReview
    <3>3. page \in {"network", "memory"} => seenHosts'.boot = seenHosts.boot /\ seenHosts'.id = seenHosts.id
      BY <1>1, <2>2, <2>5, KeyIdentity DEF PagesInv, ReviewOk
    <3>4. SameReview /\ review'.key = Key(page', seenHosts')
      BY <1>3, <2>2, <2>5, <3>2, <3>3 DEF SameReview
    <3> QED
      BY <1>3, <2>3, <3>1, <3>4, SameAsks, PagesMove
  <2> QED
    BY <2>4, <2>5
<1>5. CASE PollFails
  <2>1. seenHosts' = [seenHosts EXCEPT !.stale = TRUE] /\ review' = Updated(seenHosts', Refetched) /\ asks' = asks
    BY <1>5 DEF PollFails
  <2>2. SeenShape(seenHosts') /\ seenHosts'.boot = seenHosts.boot /\ seenHosts'.id = seenHosts.id
    BY <2>1 DEF PagesInv, HostOk, SeenShape
  <2>3. HostOk'
    BY <1>3, <2>2 DEF PagesInv, HostOk
  <2>4. /\ ReviewShape(review') /\ review'.disturbed = FALSE /\ review'.open \in BOOLEAN /\ review'.key = Refetched.key
        /\ review'.open => review.open /\ review'.req = review.req /\ review'.n = review.n /\ review'.shown = review.shown
    BY <1>1, <1>2, <2>1, UpdatedReview
  <2>5. Key(page, seenHosts') = Key(page, seenHosts)
    BY <2>2 DEF Key
  <2>6. SameReview /\ review'.key = Key(page', seenHosts')
    BY <1>1, <1>3, <2>2, <2>4, <2>5 DEF SameReview, PagesInv, ReviewOk
  <2> QED
    BY <1>3, <2>1, <2>3, <2>6, SameAsks, PagesMove
<1> QED
  BY <1>4, <1>5

\* A review opens with a number nothing else carries.
LEMMA OpenStep ==
  ASSUME PagesInv, ReviewOpens
  PROVE  PagesInv'
<1>1. UNCHANGED <<managed, seenHosts, page>> /\ reviews' = reviews + 1 /\ reviews \in Nat
  BY DEF ReviewOpens, NewRequest, PagesInv, HostOk
<1>2. HostOk'
  BY <1>1 DEF PagesInv, HostOk
<1>3. /\ ReviewShape(review') /\ review'.key = review.key /\ review'.open = TRUE /\ review'.req = reviews'
      /\ review'.n = reviews' /\ review'.shown = Shown /\ review'.disturbed = FALSE
  BY DEF ReviewOpens, PagesInv, ReviewOk, ReviewShape
<1>4. asks' = Abandoned \/ asks' = asks
  BY DEF ReviewOpens
<1>5. \A b \in asks' : \E a \in asks : SameAsk(a, b)
  BY <1>4, SameAsks
<1>6. \A b \in asks' : b.from \in 0 .. reviews
  BY <1>5 DEF SameAsk, PagesInv, AskOk
<1>7. \A n : OnlyRequest(n) => OnlyRequest(n)'
  BY <1>1, <1>5 DEF OnlyRequest, SameAsk
<1>8. ASSUME NEW b \in asks'
      PROVE  AskOk(b)'
  <2>1. PICK a \in asks : SameAsk(a, b)
    BY <1>5, <1>8
  <2> QED
    BY <1>1, <1>6, <1>7, <1>8, <2>1 DEF PagesInv, AskOk, SameAsk
<1>9. ReviewOk'
  <2>1. ThreeParts(Shown) /\ Shown[1] = seenHosts.boot /\ Shown[2] = seenHosts.id
    BY DEF ThreeParts, Shown
  <2>2. review'.key = Key(page', seenHosts')
    BY <1>1, <1>3 DEF PagesInv, ReviewOk
  <2>3. OnlyRequest(review.n)'
    BY <1>1, <1>3, <1>6 DEF OnlyRequest, PagesInv, HostOk
  <2>4. \A b \in asks' : b.from # review'.n
    BY <1>1, <1>3, <1>6
  <2>5. review'.n \in 1 .. reviews' /\ review'.req = review'.n
    BY <1>1, <1>3
  <2>6. ThreeParts(review'.shown) /\ review'.shown[1] = seenHosts'.boot /\ review'.shown[2] = seenHosts'.id
    BY <1>1, <1>3, <2>1 DEF ThreeParts
  <2> QED
    BY <1>3, <2>2, <2>3, <2>4, <2>5, <2>6 DEF ReviewOk
<1> QED
  BY <1>2, <1>8, <1>9 DEF PagesInv

LEMMA CloseStep ==
  ASSUME PagesInv, ReviewClosed
  PROVE  PagesInv'
<1>1. UNCHANGED <<managed, seenHosts, page, asks, reviews>> /\ review' = Close(review)
  BY DEF ReviewClosed
<1>2. HostOk'
  BY <1>1 DEF PagesInv, HostOk
<1>3. SameReview /\ review'.key = Key(page', seenHosts')
  BY <1>1, ClosedReview DEF SameReview, PagesInv, ReviewOk
<1> QED
  BY <1>1, <1>2, <1>3, SameAsks, PagesMove

\* A new request: what it names is what its review showed, and its number is its own.
LEMMA NewAsk ==
  ASSUME PagesInv, NEW a, asks' = asks \cup {a}, reviews' \in Nat, reviews' >= reviews,
         UNCHANGED <<managed, seenHosts, page>>,
         AskShape(a), ThreeParts(a.shown), a.identity[1] = a.shown[1], a.identity[2] = a.shown[2],
         a.on = "software" => a.identity[3] = a.shown[3],
         a.on = "memory" => a.disturbed = FALSE,
         a.from \in 0 .. reviews',
         a.on \in FixedPages => a.from # 0 /\ a.req = a.from /\ OnlyRequest(a.from),
         a.on \notin FixedPages /\ a.on # "keep" =>
           /\ \A b \in asks : b.on \in FixedPages => b.from # a.from
           /\ review'.open /\ page \in FixedPages => review.n # a.from,
         ReviewShape(review'), review'.key = review.key, review'.open = review.open, review'.req = review.req,
         review'.n = review.n, review'.shown = review.shown, review'.disturbed = review.disturbed,
         review.open /\ page \notin FixedPages /\ a.on \in FixedPages => a.from # review.n
  PROVE  PagesInv'
<1>1. HostOk'
  BY DEF PagesInv, HostOk
<1>2. \A n : OnlyRequest(n) /\ (a.on # "keep" /\ a.from = n => a.req = n) => OnlyRequest(n)'
  BY DEF OnlyRequest
<1>3. ASSUME NEW b \in asks
      PROVE  AskOk(b)'
  <2>1. b.on \in FixedPages => OnlyRequest(b.from)'
    BY <1>2, <1>3 DEF PagesInv, AskOk
  <2> QED
    BY <1>3, <2>1 DEF PagesInv, AskOk, HostOk
<1>4. AskOk(a)'
  BY <1>2 DEF AskOk
<1>5. ReviewOk'
  <2>1. ASSUME review.open, page \in FixedPages
        PROVE  OnlyRequest(review.n)'
    <3>1. OnlyRequest(review.n)
      BY <2>1 DEF PagesInv, ReviewOk
    <3> QED
      BY <1>2, <2>1, <3>1
  <2> QED
    BY <2>1 DEF PagesInv, ReviewOk, HostOk
<1> QED
  BY <1>1, <1>3, <1>4, <1>5 DEF PagesInv

LEMMA ConfirmStep ==
  ASSUME PagesInv, ConfirmReview
  PROVE  PagesInv'
<1> DEFINE req == RequestOf(page)
           identity == IF Fixed(page, "identity") THEN review.shown ELSE Shown
           shown == IF page = "software" THEN Shown ELSE review.shown
           a == Ask(page, req, identity, shown)
<1>0. UNCHANGED <<managed, seenHosts, page>> /\ page \in Pages /\ reviews \in Nat
  BY DEF ConfirmReview, PagesInv, HostOk
<1>1. asks' = asks \cup {a} /\ reviews' = IF req > reviews THEN req ELSE reviews
  BY DEF ConfirmReview
<1>2. /\ AskShape(a) /\ a.on = page /\ a.req = req /\ a.identity = identity /\ a.shown = shown
      /\ a.from = review.n /\ a.disturbed = FALSE
  <2> HIDE DEF req, identity, shown
  <2> QED
    BY DEF Ask, AskShape, PagesInv, ReviewOk
<1>3. /\ review.open /\ review.req = review.n /\ review.n \in 1 .. reviews /\ ThreeParts(review.shown)
      /\ page \in {"network", "memory"} => review.shown[1] = seenHosts.boot /\ review.shown[2] = seenHosts.id
      /\ page \in FixedPages => OnlyRequest(review.n)
      /\ page \notin FixedPages => \A b \in asks : b.on \in FixedPages => b.from # review.n
  BY DEF ConfirmReview, PagesInv, ReviewOk
<1>4. req = (IF page \in FixedPages THEN review.n ELSE reviews + 1)
  BY <1>0, <1>3, PanelFixed DEF RequestOf
<1>5. reviews' \in Nat /\ reviews' >= reviews
  BY <1>0, <1>1, <1>3, <1>4
<1>6. ThreeParts(Shown) /\ Shown[1] = seenHosts.boot /\ Shown[2] = seenHosts.id
  BY DEF ThreeParts, Shown
<1>7. /\ ThreeParts(shown) /\ identity[1] = shown[1] /\ identity[2] = shown[2]
      /\ page = "software" => identity = shown
  <2>1. CASE page = "software"
    BY <1>0, <1>6, <2>1, PanelFixed
  <2>2. CASE page \in {"power", "prepare", "updates", "cache"}
    BY <1>0, <1>3, <2>2, PanelFixed
  <2>3. CASE page \in {"network", "memory"}
    BY <1>0, <1>3, <1>6, <2>3, PanelFixed
  <2> QED
    BY <1>0, <2>1, <2>2, <2>3 DEF Pages
<1>8. /\ ReviewShape(review') /\ review'.key = review.key /\ review'.open = review.open /\ review'.req = review.req
      /\ review'.n = review.n /\ review'.shown = review.shown /\ review'.disturbed = review.disturbed
  BY DEF ConfirmReview, PagesInv, ReviewOk, ReviewShape
<1>9. review.n # 0 /\ review.n \in 0 .. reviews'
  BY <1>0, <1>3, <1>5
<1> HIDE DEF a, req, identity, shown
<1> QED
  BY <1>0, <1>1, <1>2, <1>3, <1>4, <1>5, <1>7, <1>8, <1>9, NewAsk

LEMMA CheckStep ==
  ASSUME PagesInv, RequestCheck
  PROVE  PagesInv'
<1> DEFINE a == [Ask("check", reviews', Shown, Shown) EXCEPT !.from = reviews']
<1>0. UNCHANGED <<managed, seenHosts, page>> /\ reviews \in Nat /\ reviews' = reviews + 1 /\ asks' = asks \cup {a}
      /\ review.open = FALSE
  BY DEF RequestCheck, NewRequest, PagesInv, HostOk, ReviewOk
<1>1. /\ AskShape(a) /\ a.on = "check" /\ a.req = reviews' /\ a.identity = Shown /\ a.shown = Shown /\ a.from = reviews'
  <2> DEFINE b == Ask("check", reviews', Shown, Shown)
  <2>1. AskShape(b) /\ b.on = "check" /\ b.req = reviews' /\ b.identity = Shown /\ b.shown = Shown
    BY DEF Ask, AskShape, PagesInv, ReviewOk
  <2> HIDE DEF b
  <2>2. LET e == [b EXCEPT !.from = reviews'] IN
        AskShape(e) /\ e.on = b.on /\ e.req = b.req /\ e.identity = b.identity /\ e.shown = b.shown /\ e.from = reviews'
    BY <2>1 DEF AskShape
  <2> QED
    BY <2>1, <2>2 DEF b
<1>2. ThreeParts(Shown)
  BY DEF ThreeParts, Shown
<1>3. \A b \in asks : b.from # reviews'
  BY <1>0 DEF PagesInv, AskOk
<1>4. /\ ReviewShape(review') /\ review'.key = review.key /\ review'.open = review.open /\ review'.req = review.req
      /\ review'.n = review.n /\ review'.shown = review.shown /\ review'.disturbed = review.disturbed
  BY DEF RequestCheck, PagesInv, ReviewOk, ReviewShape
<1>5. "check" \notin FixedPages /\ reviews' \in Nat /\ reviews' >= reviews /\ reviews' \in 0 .. reviews'
  BY <1>0 DEF FixedPages
<1> HIDE DEF a
<1> QED
  BY <1>0, <1>1, <1>2, <1>3, <1>4, <1>5, NewAsk

LEMMA KeepStep ==
  ASSUME PagesInv, KeepNetwork
  PROVE  PagesInv'
<1> DEFINE a == [Ask("keep", seenHosts.op.req, Shown, Shown) EXCEPT !.from = 0]
<1>0. UNCHANGED <<managed, seenHosts, page, review>> /\ reviews \in Nat /\ reviews' = reviews /\ asks' = asks \cup {a}
  BY DEF KeepNetwork, PagesInv, HostOk
<1>1. /\ AskShape(a) /\ a.on = "keep" /\ a.identity = Shown /\ a.shown = Shown /\ a.from = 0
  <2> DEFINE b == Ask("keep", seenHosts.op.req, Shown, Shown)
  <2>1. AskShape(b) /\ b.on = "keep" /\ b.identity = Shown /\ b.shown = Shown
    BY DEF Ask, AskShape, PagesInv, ReviewOk
  <2> HIDE DEF b
  <2>2. LET e == [b EXCEPT !.from = 0] IN
        AskShape(e) /\ e.on = b.on /\ e.identity = b.identity /\ e.shown = b.shown /\ e.from = 0
    BY <2>1 DEF AskShape
  <2> QED
    BY <2>1, <2>2 DEF b
<1>2. ThreeParts(Shown)
  BY DEF ThreeParts, Shown
<1>3. "keep" \notin FixedPages /\ reviews' >= reviews /\ 0 \in 0 .. reviews'
  BY <1>0 DEF FixedPages
<1>4. ReviewShape(review)
  BY DEF PagesInv, ReviewOk
<1> HIDE DEF a
<1> QED
  BY <1>0, <1>1, <1>2, <1>3, <1>4, NewAsk

\* Answers leave what was asked for as it was.
LEMMA AnswerAsks ==
  ASSUME PagesInv, NEW a \in asks, NEW state, Answer(a, state)
  PROVE  \A b \in asks' : \E c \in asks : SameAsk(c, b)
  BY SameAsks DEF Answer

LEMMA SameScreen ==
  ASSUME PagesInv, UNCHANGED <<seenHosts, page, review>>
  PROVE  SameReview /\ review'.key = Key(page', seenHosts')
  BY DEF SameReview, PagesInv, ReviewOk, Key

\* The API takes a request whose identity is that of the host now.
LEMMA CreateStep ==
  ASSUME PagesInv, NEW a \in asks, CreateHostOperation(a)
  PROVE  /\ PagesInv'
         /\ managed'.op # managed.op /\ managed'.op.on \in FixedPages => managed'.op.from # managed.op.from
<1>0. UNCHANGED <<seenHosts, page, review, reviews>> /\ AskOk(a)
  BY DEF CreateHostOperation, PagesInv
<1>1. \A b \in asks' : \E c \in asks : SameAsk(c, b)
  BY AnswerAsks DEF CreateHostOperation
<1>2. CASE managed' = managed
  <2>1. HostOk'
    BY <1>0, <1>2 DEF PagesInv, HostOk
  <2> QED
    BY <1>0, <1>1, <1>2, <2>1, SameScreen, PagesMove
<1>3. CASE managed' # managed
  <2> DEFINE o == [req |-> a.req, on |-> a.on, phase |-> "Pending", kept |-> 0, from |-> a.from,
                   asked |-> Reviewed(a.on, a.shown), was |-> Reviewed(a.on, <<managed.boot, managed.id, managed.preview.rev>>)]
  <2>1. CurrentHost(a) /\ managed.op.req # a.req /\ a.on # "keep" /\ managed' = [managed EXCEPT !.op = o]
    BY <1>3 DEF CreateHostOperation
  <2>2. managed'.op = o /\ HostShape(managed')
    BY <2>1 DEF PagesInv, HostOk, HostShape
  <2>3. o.asked = o.was
    <3>1. /\ a.shown[1] = managed.boot
          /\ a.on # "power" => a.shown[2] = managed.id
          /\ a.on = "software" => a.shown[3] = managed.preview.rev
      BY <1>0, <2>1 DEF AskOk, CurrentHost
    <3>2. a.shown = <<a.shown[1], a.shown[2], a.shown[3]>>
      BY <1>0 DEF AskOk, ThreeParts
    <3>3. CASE a.on = "power"
      BY <3>1, <3>3 DEF Reviewed
    <3>4. CASE a.on = "software"
      BY <3>1, <3>2, <3>4 DEF Reviewed
    <3>5. CASE a.on \notin {"power", "software"}
      BY <3>1, <3>5 DEF Reviewed
    <3> QED
      BY <3>3, <3>4, <3>5
  <2>4. o.from = a.from /\ o.req = a.req /\ o.kept = 0 /\ o.on = a.on
    OBVIOUS
  <2> HIDE DEF o
  <2>5. HostOk'
    BY <1>0, <2>2, <2>3, <2>4 DEF PagesInv, HostOk, AskOk
  <2>6. \A n : n # 0 /\ OnlyRequest(n) => OnlyRequest(n)'
    BY <1>1, <2>1, <2>2, <2>4 DEF OnlyRequest, SameAsk
  <2>7. ASSUME NEW b \in asks'
        PROVE  AskOk(b)'
    <3>1. PICK c \in asks : SameAsk(c, b)
      BY <1>1, <2>7
    <3> QED
      BY <1>0, <2>6, <3>1 DEF PagesInv, AskOk, SameAsk
  <2>8. ReviewOk'
    <3>1. ASSUME review.open, page \in FixedPages
          PROVE  OnlyRequest(review.n)'
      <4>1. OnlyRequest(review.n) /\ review.n # 0
        BY <3>1 DEF PagesInv, ReviewOk, HostOk
      <4> QED
        BY <1>0, <2>6, <4>1 DEF OnlyRequest
    <3>2. page \notin FixedPages /\ review.open => \A b \in asks' : b.on \in FixedPages => b.from # review.n
      BY <1>1 DEF PagesInv, ReviewOk, SameAsk
    <3> QED
      BY <1>0, <3>1, <3>2 DEF PagesInv, ReviewOk, Key
  <2>9. a.on \in FixedPages => managed.op.from # a.from
    BY <1>0, <2>1 DEF AskOk, OnlyRequest
  <2> QED
    BY <2>2, <2>4, <2>5, <2>7, <2>8, <2>9 DEF PagesInv
<1> QED
  BY <1>2, <1>3

LEMMA KeepHostStep ==
  ASSUME PagesInv, NEW a \in asks, ConfirmHostNetwork(a)
  PROVE  PagesInv' /\ (managed'.op # managed.op => managed'.op.phase # "Pending")
<1>0. UNCHANGED <<seenHosts, page, review, reviews>>
  BY DEF ConfirmHostNetwork
<1>1. \A b \in asks' : \E c \in asks : SameAsk(c, b)
  BY AnswerAsks DEF ConfirmHostNetwork
<1>2. /\ HostShape(managed') /\ managed'.op.req = managed.op.req /\ managed'.op.from = managed.op.from
      /\ managed'.op.asked = managed.op.asked /\ managed'.op.was = managed.op.was
      /\ managed'.op.kept \in {managed.op.kept, managed.op.req}
      /\ managed'.op # managed.op => managed'.op.phase # "Pending"
  <2>1. CASE TrialOf(a)
    <3>1. managed' = [managed EXCEPT !.op.kept = a.req] /\ a.req = managed.op.req
          /\ managed.op.phase = "AwaitingConfirmation"
      BY <2>1 DEF ConfirmHostNetwork, TrialOf
    <3> QED
      BY <3>1 DEF PagesInv, HostOk, HostShape
  <2>2. CASE ~TrialOf(a)
    BY <2>2 DEF ConfirmHostNetwork, PagesInv, HostOk
  <2> QED
    BY <2>1, <2>2
<1>3. HostOk'
  BY <1>0, <1>2 DEF PagesInv, HostOk
<1> QED
  BY <1>0, <1>1, <1>2, <1>3, SameScreen, PagesMove

\* The answer arrives, or is lost.
LEMMA AskSettledStep ==
  ASSUME PagesInv, NEW a \in asks, NEW ok, Settled(a, ok), UNCHANGED <<managed, seenHosts, page, reviews>>
  PROVE  PagesInv'
<1>0. AskShape(a) /\ ReviewShape(review) /\ review.disturbed = FALSE /\ review.open \in BOOLEAN
  BY DEF PagesInv, AskOk, ReviewOk
<1>1. \A b \in asks' : \E c \in asks : SameAsk(c, b)
  BY SameAsks DEF Settled
<1>2. HostOk'
  BY DEF PagesInv, HostOk
<1>3. /\ ReviewShape(review') /\ review'.disturbed = FALSE /\ review'.open \in BOOLEAN /\ review'.key = review.key
      /\ review'.open => review.open /\ review'.req = review.req /\ review'.n = review.n /\ review'.shown = review.shown
  <2> DEFINE i == [review EXCEPT !.state = "idle"]
             c == Close(review)
             acc == IF a.on = "memory" THEN a.req ELSE 0
             e == [c EXCEPT !.state = "refetch", !.accepted = acc]
  <2>1. /\ ReviewShape(i) /\ i.disturbed = FALSE /\ i.open = review.open /\ i.key = review.key /\ i.state = "idle"
        /\ i.req = review.req /\ i.n = review.n /\ i.shown = review.shown
    BY <1>0 DEF ReviewShape
  <2>2. c.key = review.key /\ c.open = FALSE /\ c.disturbed = FALSE /\ ReviewShape(c)
    BY <1>0, ClosedReview
  <2> HIDE DEF i, c, acc
  <2>3. e.key = review.key /\ e.open = FALSE /\ e.disturbed = FALSE /\ ReviewShape(e)
    BY <2>2 DEF ReviewShape
  <2> HIDE DEF e
  <2>4. Close(i).key = i.key /\ Close(i).open = FALSE /\ Close(i).disturbed = FALSE /\ ReviewShape(Close(i))
    BY <2>1, ClosedReview
  <2>5. review' \in {review, i, MemoryReviewDropped(i), e}
    BY DEF Settled, i, e, c, acc
  <2>6. MemoryReviewDropped(i) = Close(i)
    BY <2>1 DEF MemoryReviewDropped
  <2>7. CASE review' = Close(i)
    BY <1>0, <2>1, <2>4, <2>7
  <2>8. CASE review' = i
    BY <1>0, <2>1, <2>8
  <2>9. CASE review' = e
    BY <2>3, <2>9
  <2>10. CASE review' = review
    BY <1>0, <2>10
  <2> QED
    BY <2>5, <2>6, <2>7, <2>8, <2>9, <2>10
<1>4. SameReview /\ review'.key = Key(page', seenHosts')
  BY <1>3 DEF SameReview, PagesInv, ReviewOk, Key
<1> QED
  BY <1>1, <1>2, <1>4, PagesMove

\* The host changes, but not what is asked of it.
LEMMA HostMoves ==
  ASSUME PagesInv, NEW m, Host(m), HostShape(m), m.op.kept \in {0, m.op.req}, m.op.asked = m.op.was,
         (m.op.from = managed.op.from /\ m.op.req = managed.op.req) \/ m.op.from = 0
  PROVE  PagesInv'
<1>1. managed' = m /\ UNCHANGED <<seenHosts, page, review, asks, reviews>>
  BY DEF Host
<1>2. HostOk'
  BY <1>1 DEF PagesInv, HostOk
<1> QED
  BY <1>1, <1>2, SameAsks, SameScreen, PagesMove

SameOp(m, n) ==
  /\ HostShape(n) /\ n.op.req = m.op.req /\ n.op.from = m.op.from /\ n.op.kept = m.op.kept
  /\ n.op.asked = m.op.asked /\ n.op.was = m.op.was

LEMMA FinishedOp ==
  ASSUME NEW m, HostShape(m)
  PROVE  SameOp(m, Finished(m)) /\ Finished(m).op.phase = "Succeeded"
<1> DEFINE b == m.boot + 1
           i == m.id + 1
           p == [rev |-> m.preview.rev + 1, for |-> m.id]
           power == [m EXCEPT !.boot = b, !.op.phase = "Succeeded"]
           check == [m EXCEPT !.preview = p, !.op.phase = "Succeeded"]
           other == [m EXCEPT !.id = i, !.op.phase = "Succeeded"]
<1>1. Finished(m) \in {power, check, other}
  BY DEF Finished
<1> HIDE DEF b, i, p
<1>2. \A n \in {power, check, other} : SameOp(m, n) /\ n.op.phase = "Succeeded"
  <2>1. SameOp(m, power) /\ power.op.phase = "Succeeded"
    BY DEF SameOp, HostShape
  <2>2. SameOp(m, check) /\ check.op.phase = "Succeeded"
    BY DEF SameOp, HostShape
  <2>3. SameOp(m, other) /\ other.op.phase = "Succeeded"
    BY DEF SameOp, HostShape
  <2> QED
    BY <2>1, <2>2, <2>3
<1> QED
  BY <1>1, <1>2

LEMMA HostStep ==
  ASSUME PagesInv, HostWorks \/ OthersChangeHost
  PROVE  PagesInv' /\ (managed'.op # managed.op => managed'.op.phase # "Pending")
<1>0. HostShape(managed)
  BY DEF PagesInv, HostOk
<1>1. \A phase \in {"AwaitingConfirmation", "Failed", "RolledBack"} :
        LET n == [managed EXCEPT !.op.phase = phase] IN SameOp(managed, n) /\ n.op.phase = phase
  BY <1>0 DEF SameOp, HostShape
<1>2. LET n == [managed EXCEPT !.id = @ + 1] IN SameOp(managed, n) /\ n.op = managed.op
  <2> DEFINE i == managed.id + 1
  <2> HIDE DEF i
  <2>1. LET n == [managed EXCEPT !.id = i] IN SameOp(managed, n) /\ n.op = managed.op
    BY <1>0 DEF SameOp, HostShape
  <2> QED
    BY <2>1 DEF i
<1>3. SameOp(managed, Finished(managed)) /\ Finished(managed).op.phase = "Succeeded"
  BY <1>0, FinishedOp
<1>4. \E n : Host(n) /\ SameOp(managed, n) /\ (n.op = managed.op \/ n.op.phase # "Pending")
  <2>1. CASE HostWorks
    <3>1. \/ Host([managed EXCEPT !.op.phase = "AwaitingConfirmation"]) \/ Host([managed EXCEPT !.op.phase = "Failed"])
          \/ Host([managed EXCEPT !.op.phase = "RolledBack"]) \/ Host(Finished(managed))
      BY <2>1 DEF HostWorks
    <3> QED
      BY <1>1, <1>3, <3>1
  <2>2. CASE OthersChangeHost
    BY <1>2, <2>2 DEF OthersChangeHost
  <2> QED
    BY <2>1, <2>2
<1>5. PICK n : Host(n) /\ SameOp(managed, n) /\ (n.op = managed.op \/ n.op.phase # "Pending")
  BY <1>4
<1>6. managed.op.kept \in {0, managed.op.req} /\ managed.op.asked = managed.op.was
  BY DEF PagesInv, HostOk
<1>7. PagesInv'
  BY <1>5, <1>6, HostMoves DEF SameOp
<1> QED
  BY <1>5, <1>7 DEF Host

\* Another administrator's operation carries no number of this browser.
LEMMA OthersAskStep ==
  ASSUME PagesInv, OthersAsk
  PROVE  PagesInv' /\ managed'.op.on \notin FixedPages
<1>1. PICK p \in {"network", "check"} :
        Host([managed EXCEPT !.op = [NoOperation EXCEPT !.req = 0 - hostEvents', !.on = p, !.phase = "Pending"]])
  BY DEF OthersAsk
<1> DEFINE q == 0 - hostEvents'
           o == [NoOperation EXCEPT !.req = q, !.on = p, !.phase = "Pending"]
           m == [managed EXCEPT !.op = o]
<1> HIDE DEF q
<1>2. /\ DOMAIN o = {"req", "on", "phase", "kept", "from", "asked", "was"} /\ o.kept = 0 /\ o.from = 0 /\ o.asked = o.was
      /\ o.on = p
  BY DEF NoOperation
<1> HIDE DEF o
<1>3. HostShape(m) /\ m.op = o
  BY <1>2 DEF PagesInv, HostOk, HostShape
<1>4. Host(m)
  BY <1>1 DEF m, o, q
<1> HIDE DEF m
<1>5. PagesInv'
  BY <1>2, <1>3, <1>4, HostMoves
<1> QED
  BY <1>2, <1>3, <1>4, <1>5 DEF Host, FixedPages

LEMMA LeaveStep ==
  ASSUME PagesInv, NEW p \in Pages, NavigateTo(p)
  PROVE  PagesInv'
<1>1. page' = p /\ review' = NoReview(p, seenHosts) /\ asks' = Abandoned /\ UNCHANGED <<managed, seenHosts, reviews>>
  BY DEF NavigateTo
<1>2. HostOk'
  BY <1>1 DEF PagesInv, HostOk
<1>3. SameReview /\ review'.key = Key(page', seenHosts')
  BY <1>1, NewReviewShape DEF SameReview, Key
<1> QED
  BY <1>1, <1>2, <1>3, SameAsks, PagesMove

\* What ConfirmedOnce says of a step.
OnceNow ==
  managed'.op # managed.op /\ managed'.op.phase = "Pending" /\ managed'.op.on \in FixedPages
    => managed'.op.from # managed.op.from

\* Every step of the pages, of the API and of the host.
LEMMA PagesStep ==
  ASSUME PagesInv, [HostPagesNext]_hostPageVars
  PROVE  PagesInv' /\ OnceNow
<1>1. CASE UNCHANGED hostPageVars
  <2>1. UNCHANGED <<managed, seenHosts, page, review, asks, reviews>>
    BY <1>1 DEF hostPageVars
  <2>2. HostOk'
    BY <2>1 DEF PagesInv, HostOk
  <2>3. PagesInv'
    BY <2>1, <2>2, SameAsks, SameScreen, PagesMove
  <2> QED
    BY <2>1, <2>3 DEF OnceNow
<1>2. CASE UseHosts \/ PollFails
  BY <1>2, PollStep DEF UseHosts, PollFails, OnceNow
<1>3. CASE ReviewOpens
  BY <1>3, OpenStep DEF ReviewOpens, OnceNow
<1>4. CASE ReviewClosed
  BY <1>4, CloseStep DEF ReviewClosed, OnceNow
<1>5. CASE ConfirmReview
  BY <1>5, ConfirmStep DEF ConfirmReview, OnceNow
<1>6. CASE RequestCheck
  BY <1>6, CheckStep DEF RequestCheck, OnceNow
<1>7. CASE KeepNetwork
  BY <1>7, KeepStep DEF KeepNetwork, OnceNow
<1>8. ASSUME NEW a \in asks, CreateHostOperation(a)
      PROVE  PagesInv' /\ OnceNow
  BY <1>8, CreateStep DEF OnceNow
<1>9. ASSUME NEW a \in asks, ConfirmHostNetwork(a)
      PROVE  PagesInv' /\ OnceNow
  BY <1>9, KeepHostStep DEF OnceNow
<1>10. ASSUME NEW a \in asks, AskAnswered(a)
       PROVE  PagesInv' /\ OnceNow
  <2>1. Settled(a, a.state = "ok") /\ UNCHANGED <<managed, seenHosts, page, reviews>>
    BY <1>10 DEF AskAnswered
  <2> QED
    BY <2>1, AskSettledStep DEF OnceNow
<1>11. ASSUME NEW a \in asks, AskLost(a)
       PROVE  PagesInv' /\ OnceNow
  <2>1. Settled(a, FALSE) /\ UNCHANGED <<managed, seenHosts, page, reviews>>
    BY <1>11 DEF AskLost
  <2> QED
    BY <2>1, AskSettledStep DEF OnceNow
<1>12. CASE HostWorks \/ OthersChangeHost
  BY <1>12, HostStep DEF OnceNow
<1>13. CASE OthersAsk
  BY <1>13, OthersAskStep DEF OnceNow
<1>14. ASSUME NEW p \in Pages, NavigateTo(p)
       PROVE  PagesInv' /\ OnceNow
  BY <1>14, LeaveStep DEF NavigateTo, OnceNow
<1> QED
  BY <1>1, <1>2, <1>3, <1>4, <1>5, <1>6, <1>7, <1>8, <1>9, <1>10, <1>11, <1>12, <1>13,
     <1>14 DEF HostPagesNext

LEMMA PagesStart ==
  ASSUME HostPagesInit
  PROVE  PagesInv
<1>1. /\ managed = [boot |-> 1, id |-> 1, preview |-> [rev |-> 1, for |-> 1], op |-> NoOperation]
      /\ seenHosts = Fresh(managed) /\ page \in Pages /\ review = NoReview(page, managed) /\ asks = {} /\ reviews = 0
  BY DEF HostPagesInit
<1>2. HostShape(managed) /\ managed.op = NoOperation
  BY <1>1 DEF HostShape, NoOperation
<1>3. SeenShape(seenHosts) /\ seenHosts.boot = managed.boot /\ seenHosts.id = managed.id
  BY <1>1 DEF SeenShape, Fresh
<1>4. HostOk
  <2>1. NoOperation.from = 0 /\ NoOperation.kept = 0 /\ NoOperation.asked = NoOperation.was
    BY DEF NoOperation
  <2> QED
    BY <1>1, <1>2, <1>3, <2>1 DEF HostOk
<1>5. ReviewOk
  <2>1. Key(page, seenHosts) = Key(page, managed)
    BY <1>3 DEF Key
  <2> QED
    BY <1>1, <2>1, NewReviewShape DEF ReviewOk
<1> QED
  BY <1>1, <1>4, <1>5 DEF PagesInv

LEMMA PagesSound ==
  ASSUME PagesInv
  PROVE  AsReviewed /\ MemoryReviewedAgain /\ TrialKept
  BY DEF PagesInv, HostOk, AskOk, AsReviewed, MemoryReviewedAgain, TrialKept

\* On the behaviours of the pages alone: a review that is confirmed again, its
\* answer lost, is not carried out twice in a row (requestId of the review).
THEOREM OnceConfirmed == HostPagesSpec => ConfirmedOnce
<1>1. HostPagesInit => PagesInv
  BY PagesStart
<1>2. PagesInv /\ [HostPagesNext]_hostPageVars => PagesInv'
  BY PagesStep
<1>3. PagesInv /\ [HostPagesNext]_hostPageVars =>
        [managed'.op # managed.op /\ managed'.op.phase = "Pending" /\ managed'.op.on \in {"power", "prepare", "updates", "memory", "cache"}
           => managed'.op.from # managed.op.from]_hostPageVars
  BY PagesStep DEF OnceNow, FixedPages
<1> QED
  BY <1>1, <1>2, <1>3, PTL DEF HostPagesSpec, ConfirmedOnce

(***************************************************************************)
(* The forms that change saved settings.                                   *)
(***************************************************************************)
PagePanels == {"license", "gpu", "profile", "domains", "mesh", "regression", "models"}
UnboundPanels == {"profile", "domains", "user", "mesh"}
PanelNames == PagePanels \cup {"federation", "sharing", "external", "user"}
FormShape(f) == DOMAIN f = {"open", "base", "draft", "reviewed", "picked", "state"}
RequestShape(r) == DOMAIN r = {"what", "value", "token", "shown", "reviewed", "mine", "state", "result"}

LEMMA PanelFacts ==
  /\ DOMAIN Panels = PanelNames
  /\ panel \in PanelNames =>
       /\ Panel.opens = "page" <=> panel \in PagePanels
       /\ Panel.opens = "fetch" => panel = "sharing"
       /\ Panel.bound = "poll" <=> panel \in {"gpu", "models"}
       /\ Panel.bound = "none" <=> panel \in UnboundPanels
       /\ Panel.keyed <=> panel \in {"gpu", "profile", "mesh"}
       /\ Panel.review = "tick" <=> panel = "sharing"
       /\ Panel.review = "server" <=> panel \in {"license", "federation"}
       /\ panel \in {"license", "sharing", "gpu"} => Panel.locked
<1>1. DOMAIN Panels = PanelNames
  BY DEF Panels, PanelNames, PagePanels
<1> DEFINE Says(p) ==
       /\ p.opens = "page" <=> panel \in PagePanels
       /\ p.opens = "fetch" => panel = "sharing"
       /\ p.bound = "poll" <=> panel \in {"gpu", "models"}
       /\ p.bound = "none" <=> panel \in UnboundPanels
       /\ p.keyed <=> panel \in {"gpu", "profile", "mesh"}
       /\ p.review = "tick" <=> panel = "sharing"
       /\ p.review = "server" <=> panel \in {"license", "federation"}
       /\ panel \in {"license", "sharing", "gpu"} => p.locked
<1>2. ASSUME panel \in PanelNames
      PROVE  Says(Panel)
  <2>1. CASE panel = "license"
    BY <2>1 DEF Panel, Panels, LicensePage, PagePanels, UnboundPanels
  <2>2. CASE panel = "federation"
    BY <2>2 DEF Panel, Panels, ProviderDialog, PagePanels, UnboundPanels
  <2>3. CASE panel = "sharing"
    BY <2>3 DEF Panel, Panels, SharingEditor, PagePanels, UnboundPanels
  <2>4. CASE panel = "gpu"
    BY <2>4 DEF Panel, Panels, SharingForm, PagePanels, UnboundPanels
  <2>5. CASE panel = "profile"
    BY <2>5 DEF Panel, Panels, ProfileControls, PagePanels, UnboundPanels
  <2>6. CASE panel = "domains"
    BY <2>6 DEF Panel, Panels, DomainSettings, PagePanels, UnboundPanels
  <2>7. CASE panel = "external"
    BY <2>7 DEF Panel, Panels, ExternalModelEditForm, PagePanels, UnboundPanels
  <2>8. CASE panel = "user"
    BY <2>8 DEF Panel, Panels, AccessDialog, PagePanels, UnboundPanels
  <2>9. CASE panel = "mesh"
    BY <2>9 DEF Panel, Panels, ShareEditor, PagePanels, UnboundPanels
  <2>10. CASE panel = "regression"
    BY <2>10 DEF Panel, Panels, RegressionPage, PagePanels, UnboundPanels
  <2>11. CASE panel = "models"
    BY <2>11 DEF Panel, Panels, ModelsPage, PagePanels, UnboundPanels
  <2> QED
    BY <1>2, <2>1, <2>2, <2>3, <2>4, <2>5, <2>6, <2>7, <2>8, <2>9, <2>10, <2>11 DEF PanelNames,
       PagePanels
<1> QED
  BY <1>1, <1>2

\* What the steps make of a form.
LEMMA NewForms ==
  ASSUME NEW d
  PROVE  LET f == NewForm(d)
         IN  FormShape(f) /\ f.open = TRUE /\ f.base = d /\ f.draft = d.value /\ f.reviewed = <<>> /\ f.picked = 0 /\ f.state = "idle"
  BY DEF NewForm, NotReviewed, FormShape

LEMMA ClosedForm ==
  /\ FormShape(Closed) /\ Closed.open = FALSE /\ Closed.base.rev = 0 /\ Closed.draft = 0 /\ Closed.reviewed = <<>>
  /\ Closed.picked = 0 /\ Closed.state = "idle"
<1> DEFINE d == [rev |-> 0, value |-> 0]
           f == NewForm(d)
<1>1. FormShape(f) /\ f.base = d /\ f.draft = d.value /\ f.reviewed = <<>> /\ f.picked = 0 /\ f.state = "idle"
  BY NewForms
<1>2. d.rev = 0 /\ d.value = 0
  OBVIOUS
<1>3. Closed = [f EXCEPT !.open = FALSE]
  BY DEF Closed
<1> HIDE DEF f, d
<1> QED
  BY <1>1, <1>2, <1>3 DEF FormShape

LEMMA ClearedForm ==
  ASSUME NEW f, FormShape(f)
  PROVE  LET g == NoFile(f)
         IN  FormShape(g) /\ g.open = f.open /\ g.base = f.base /\ g.draft = 0 /\ g.reviewed = <<>>
             /\ g.picked = f.picked /\ g.state = f.state
  BY DEF NoFile, NotReviewed, FormShape

LEMMA TypedForm ==
  ASSUME NEW f, FormShape(f), NEW v
  PROVE  LET g == Typed(f, v)
         IN  FormShape(g) /\ g.open = f.open /\ g.base = f.base /\ g.draft = v /\ g.reviewed = <<>>
             /\ g.picked = f.picked /\ g.state = f.state
  BY DEF Typed, NotReviewed, FormShape

LEMMA BesideForm ==
  ASSUME NEW f, FormShape(f), NEW v
  PROVE  LET g == TypedBeside(f, v)
         IN  FormShape(g) /\ g.open = f.open /\ g.base = f.base
  BY DEF TypedBeside, FormShape

LEMMA FailedForm ==
  ASSUME NEW f, FormShape(f)
  PROVE  LET g == Failed(f)
         IN  FormShape(g) /\ g.open = f.open /\ g.base = f.base /\ g.draft = f.draft
             /\ g.reviewed = (IF panel = "license" THEN <<>> ELSE f.reviewed)
             /\ g.picked = f.picked /\ g.state = "idle"
  BY DEF Failed, NotReviewed, FormShape

LEMMA FollowedForm ==
  ASSUME NEW f, FormShape(f), NEW d
  PROVE  LET g == DomainsFollowed(f, d)
         IN  FormShape(g) /\ g.open = f.open /\ g.base = d
             /\ g.draft = (IF f.draft = f.base.value THEN d.value ELSE f.draft)
             /\ g.reviewed = f.reviewed /\ g.picked = f.picked /\ g.state = f.state
  BY DEF DomainsFollowed, FormShape

\* A revision somebody knows is not ahead of the saved one, and has its value.
Known(s, d) == d.rev \in Nat /\ d.rev <= s.rev /\ (d.rev = s.rev => d.value = s.value)
FormTypes ==
  /\ panel \in PanelNames /\ FormShape(form) /\ DOMAIN lastSave = {"value", "was", "shown", "reviewed", "confirmed"}
  /\ saved.rev \in Nat \ {0} /\ Known(saved, seen) /\ (poll # <<>> => Known(saved, poll[1])) /\ Known(saved, form.base)
  /\ panel \in PagePanels => form.open = TRUE
  /\ panel = "gpu" => form.base = seen
\* A request that names a revision was made for its value; only licenses are read from files.
RequestOk(r) ==
  /\ RequestShape(r) /\ Known(saved, r.result)
  /\ r.what = "save" /\ panel \notin UnboundPanels =>
       r.token \in Nat /\ r.token <= saved.rev /\ (r.token = saved.rev => r.shown = saved.value)
  /\ r.what = "save" /\ panel \in {"license", "sharing", "gpu"} => r.reviewed = <<r.value>>
  /\ r.what = "read" => panel = "license" /\ r.state = "sent" /\ r.mine = TRUE
\* A review is of the draft; a license's draft is the file picked, once that is read.
ReviewedOk ==
  /\ panel \in {"license", "sharing", "gpu"} /\ form.reviewed # <<>> => form.reviewed = <<form.draft>>
  /\ panel = "license" => form.draft \in {0, form.picked} /\ (form.reviewed # <<>> => form.draft = form.picked)
\* The license form waits for one answer at most, and does not change until it arrives.
Waits(r) == r.mine /\ r.what # "read"
LicenseOk ==
  panel = "license" =>
    /\ \A r \in requests : r.what = "check" /\ r.mine => form.state = "checking" /\ r.value = form.draft /\ r.value = form.picked
    /\ \A r \in requests : Waits(r) /\ r.what # "check" => form.state = "sending"
    /\ \A r, q \in requests : Waits(r) /\ Waits(q) => r = q
LastOk ==
  /\ panel \notin UnboundPanels => lastSave.was = lastSave.shown
  /\ panel \in {"license", "sharing", "gpu"} => lastSave.reviewed = <<lastSave.value>>
  /\ lastSave.confirmed \in Nat /\ lastSave.confirmed <= seen.rev /\ (poll # <<>> => lastSave.confirmed <= poll[1].rev)
FormsInv == FormTypes /\ (\A r \in requests : RequestOk(r)) /\ ReviewedOk /\ LicenseOk /\ LastOk

SavedMoves ==
  /\ saved'.rev \in Nat \ {0} /\ Known(saved', saved') /\ \A d : Known(saved, d) => Known(saved', d)
  /\ \A n \in Nat : n <= saved.rev => n <= saved'.rev /\ (n = saved'.rev => n = saved.rev /\ saved'.value = saved.value)

LEMMA SavedSteps ==
  ASSUME FormTypes, saved' = saved \/ \E v : saved' = [rev |-> saved.rev + 1, value |-> v]
  PROVE  SavedMoves
  BY DEF FormTypes, SavedMoves, Known

\* What each step does to the form: nothing, or one of these.
FormMoves(f) ==
  \/ f = form
  \/ FormShape(f) /\ Known(saved, f.base) /\ (panel \in PagePanels => f.open = TRUE)

LEMMA TypesKept ==
  ASSUME FormTypes, SavedMoves, panel' = panel, DOMAIN lastSave' = DOMAIN lastSave,
         Known(saved', seen'), poll' # <<>> => Known(saved', poll'[1]), FormMoves(form'),
         panel = "gpu" => form'.base = seen'
  PROVE  FormTypes'
<1>1. Known(saved', form'.base)
  BY DEF FormTypes, SavedMoves, FormMoves
<1> QED
  BY <1>1 DEF FormTypes, SavedMoves, FormMoves

LEMMA ShowsForm ==
  ASSUME FormTypes, NEW d, Known(saved, d), Shows(d)
  PROVE  FormMoves(form') /\ seen' = d /\ (panel = "gpu" => form'.base = d)
<1>1. FormShape(form) /\ panel \in PanelNames /\ (panel \in PagePanels => form.open = TRUE)
  BY DEF FormTypes
<1>2. seen' = d
  BY DEF Shows
<1>3. CASE form' = NewForm(d)
  BY <1>2, <1>3, NewForms DEF FormMoves
<1>4. CASE form' = DomainsFollowed(form, d) /\ panel = "domains"
  <2>1. FormShape(form') /\ form'.base = d /\ form'.open = form.open
    BY <1>1, <1>4, FollowedForm
  <2> QED
    BY <1>1, <1>2, <1>4, <2>1 DEF FormMoves
<1>5. CASE form' = [form EXCEPT !.base = d]
  <2>1. FormShape(form') /\ form'.base = d /\ form'.open = form.open
    BY <1>1, <1>5 DEF FormShape
  <2> QED
    BY <1>1, <1>2, <2>1 DEF FormMoves
<1>6. CASE form' = form /\ panel # "gpu"
  BY <1>2, <1>6 DEF FormMoves
<1> QED
  BY <1>1, <1>3, <1>4, <1>5, <1>6, PanelFacts DEF Shows

\* The form after an accepted save.
LEMMA AcceptedForm ==
  ASSUME FormTypes, SaveAccepted
  PROVE  /\ FormShape(form') /\ (form'.base = form.base \/ form'.base.rev = 0)
         /\ panel \in PagePanels => form'.base = form.base /\ form'.open = form.open
         /\ form'.reviewed = <<>> /\ form'.state = "idle"
         /\ panel = "license" => form'.draft = 0 /\ form'.picked = form.picked
<1>1. FormShape(form) /\ panel \in PanelNames
  BY DEF FormTypes
<1>2. CASE form' = Closed /\ panel \notin PagePanels
  BY <1>2, ClosedForm DEF PagePanels
<1>3. CASE form' = [NoFile(form) EXCEPT !.state = "idle"]
  <2> DEFINE g == NoFile(form)
  <2>1. FormShape(g) /\ g.open = form.open /\ g.base = form.base /\ g.draft = 0 /\ g.reviewed = <<>> /\ g.picked = form.picked
    BY <1>1, ClearedForm
  <2> HIDE DEF g
  <2>2. form' = [g EXCEPT !.state = "idle"]
    BY <1>3 DEF g
  <2> QED
    BY <2>1, <2>2 DEF FormShape
<1>4. CASE form' = [form EXCEPT !.reviewed = NotReviewed, !.state = "idle"] /\ panel # "license"
  BY <1>1, <1>4 DEF FormShape, NotReviewed
<1> QED
  BY <1>1, <1>2, <1>3, <1>4, PanelFacts DEF SaveAccepted

LEMMA TypesStep ==
  ASSUME FormTypes, \A r \in requests : RequestOk(r), AdminFormsNext
  PROVE  FormTypes' /\ SavedMoves /\ panel' = panel
<1>0. /\ FormShape(form) /\ panel \in PanelNames /\ (panel \in PagePanels => form.open = TRUE)
      /\ saved.rev \in Nat \ {0} /\ Known(saved, seen) /\ (poll # <<>> => Known(saved, poll[1])) /\ Known(saved, form.base)
      /\ (panel = "gpu" => form.base = seen) /\ FormMoves(form)
  BY DEF FormTypes, FormMoves
<1>1. Known(saved, saved)
  BY <1>0 DEF Known
<1>2. ASSUME saved' = saved, panel' = panel, DOMAIN lastSave' = DOMAIN lastSave, Known(saved, seen'),
             poll' # <<>> => Known(saved, poll'[1]), FormMoves(form'), panel = "gpu" => form'.base = seen'
      PROVE  FormTypes' /\ SavedMoves /\ panel' = panel
  <2>1. SavedMoves
    BY <1>2, SavedSteps
  <2>2. Known(saved', seen') /\ (poll' # <<>> => Known(saved', poll'[1]))
    BY <1>2
  <2> QED
    BY <1>2, <2>1, <2>2, TypesKept
<1>3. CASE PollStarts
  BY <1>0, <1>1, <1>2, <1>3 DEF PollStarts, Refresh
<1>4. CASE PollAnswered
  BY <1>0, <1>2, <1>4, ShowsForm DEF PollAnswered
<1>5. CASE PollLost
  BY <1>0, <1>2, <1>5 DEF PollLost
<1>6. CASE OpenForm
  <2>1. PICK d \in {saved, seen} : form' = NewForm(d) /\ (panel = "gpu" => d = seen)
    BY <1>0, <1>6, PanelFacts DEF OpenForm
  <2>2. FormMoves(form') /\ form'.base = d
    BY <1>0, <1>1, <2>1, NewForms DEF FormMoves
  <2> QED
    BY <1>0, <1>2, <1>6, <2>1, <2>2 DEF OpenForm
<1>7. CASE CloseForm
  <2>1. panel \notin PagePanels /\ form' = Closed
    BY <1>0, <1>7, PanelFacts DEF CloseForm
  <2>2. Known(saved, Closed.base)
    BY <1>0, ClosedForm DEF Known
  <2>3. FormMoves(form')
    BY <1>0, <2>1, <2>2, ClosedForm DEF FormMoves
  <2> QED
    BY <1>0, <1>2, <1>7, <2>1, <2>3 DEF CloseForm, PagePanels
<1>8. CASE TypeDraft
  <2>1. FormMoves(form') /\ form'.base = form.base
    BY <1>0, <1>8, TypedForm, BesideForm DEF TypeDraft, FormMoves
  <2> QED
    BY <1>0, <1>2, <1>8, <2>1 DEF TypeDraft
<1>9. CASE SelectFile
  <2> DEFINE g == NoFile(form)
             v == formInputs'
  <2>1. FormShape(g) /\ g.open = form.open /\ g.base = form.base
    BY <1>0, ClearedForm
  <2>2. form' = [g EXCEPT !.picked = v]
    BY <1>9 DEF SelectFile, NewSelection
  <2> HIDE DEF g, v
  <2>3. FormMoves(form') /\ form'.base = form.base
    BY <1>0, <2>1, <2>2 DEF FormMoves, FormShape
  <2> QED
    BY <1>0, <1>2, <1>9, <2>3 DEF SelectFile
<1>10. ASSUME UNCHANGED <<panel, saved, seen, poll, lastSave>>, FormShape(form'), form'.open = form.open, form'.base = form.base
       PROVE  FormTypes' /\ SavedMoves /\ panel' = panel
  <2>1. FormMoves(form')
    BY <1>0, <1>10 DEF FormMoves
  <2> QED
    BY <1>0, <1>2, <1>10, <2>1
<1>11. CASE ReviewDraft
  <2> DEFINE d == form.draft
             o == seen.value
  <2>1. CASE form' = [form EXCEPT !.reviewed = <<d>>]
    <3> HIDE DEF d
    <3>1. FormShape(form') /\ form'.open = form.open /\ form'.base = form.base
      BY <1>0, <2>1 DEF FormShape
    <3> QED
      BY <1>10, <1>11, <3>1 DEF ReviewDraft
  <2>2. CASE form' = [form EXCEPT !.reviewed = <<o>>, !.base = seen]
    <3> HIDE DEF o
    <3>1. FormShape(form') /\ form'.open = form.open /\ form'.base = seen
      BY <1>0, <2>2 DEF FormShape
    <3>2. FormMoves(form')
      BY <1>0, <3>1 DEF FormMoves
    <3> QED
      BY <1>0, <1>2, <1>11, <3>1, <3>2 DEF ReviewDraft
  <2> QED
    BY <1>11, <2>1, <2>2 DEF ReviewDraft
<1>12. CASE ReviewCancelled
  <2>1. FormShape(form') /\ form'.open = form.open /\ form'.base = form.base
    BY <1>0, <1>12 DEF ReviewCancelled, NotReviewed, FormShape
  <2> QED
    BY <1>10, <1>12, <2>1 DEF ReviewCancelled
<1>13. CASE CheckDraft
  <2>1. FormShape(form') /\ form'.open = form.open /\ form'.base = form.base
    <3>1. form' = form \/ form' = [form EXCEPT !.state = "checking"]
      BY <1>13 DEF CheckDraft
    <3> QED
      BY <1>0, <3>1 DEF FormShape
  <2> QED
    BY <1>10, <1>13, <2>1 DEF CheckDraft
<1>14. CASE SubmitForm
  <2>1. FormShape(form') /\ form'.open = form.open /\ form'.base = form.base
    BY <1>0, <1>14 DEF SubmitForm, FormShape
  <2> QED
    BY <1>10, <1>14, <2>1 DEF SubmitForm
<1>15. CASE RunLifecycle
  <2>1. FormShape(form') /\ form'.open = form.open /\ form'.base = form.base
    BY <1>0, <1>15 DEF RunLifecycle, FormShape
  <2>2. FormMoves(form')
    BY <1>0, <2>1 DEF FormMoves
  <2> QED
    BY <1>0, <1>2, <1>15, <2>1, <2>2 DEF RunLifecycle
<1>16. ASSUME NEW r \in requests, FileRead(r)
       PROVE  FormTypes' /\ SavedMoves /\ panel' = panel
  <2>1. FormShape(form') /\ form'.open = form.open /\ form'.base = form.base
    <3> DEFINE v == r.value
    <3>1. form' = form \/ form' = [form EXCEPT !.draft = v]
      BY <1>16 DEF FileRead
    <3> HIDE DEF v
    <3> QED
      BY <1>0, <3>1 DEF FormShape
  <2> QED
    BY <1>10, <1>16, <2>1 DEF FileRead
<1>17. ASSUME NEW r \in requests, ApiSaves(r)
       PROVE  FormTypes' /\ SavedMoves /\ panel' = panel
  <2>1. saved' = saved \/ \E v : saved' = [rev |-> saved.rev + 1, value |-> v]
    BY <1>17 DEF ApiSaves, BreaksOff, Becomes
  <2>2. SavedMoves
    BY <2>1, SavedSteps
  <2>3. DOMAIN lastSave' = DOMAIN lastSave
    BY <1>17 DEF ApiSaves, FormTypes
  <2>4. Known(saved', seen') /\ (poll' # <<>> => Known(saved', poll'[1])) /\ UNCHANGED <<panel, form, seen>>
    BY <1>0, <1>17, <2>2 DEF ApiSaves, SavedMoves
  <2> QED
    BY <1>0, <2>2, <2>3, <2>4, TypesKept
<1>18. ASSUME NEW r \in requests, ApiChecks(r)
       PROVE  FormTypes' /\ SavedMoves /\ panel' = panel
  BY <1>0, <1>10, <1>18 DEF ApiChecks
<1>19. ASSUME NEW r \in requests, SaveAnswered(r)
       PROVE  FormTypes' /\ SavedMoves /\ panel' = panel
  <2>1. FormMoves(form') /\ (panel = "gpu" => form'.base = form.base)
    <3>1. CASE SaveAccepted
      <4>1. Known(saved, form'.base)
        BY <1>0, <3>1, AcceptedForm DEF Known
      <4> QED
        BY <1>0, <3>1, <4>1, AcceptedForm DEF FormMoves, PagePanels
    <3> QED
      BY <1>0, <1>19, <3>1 DEF SaveAnswered
  <2>2. Known(saved, seen') /\ (panel = "gpu" => seen' = seen)
    BY <1>0, <1>19 DEF SaveAnswered, RequestOk
  <2>3. DOMAIN lastSave' = DOMAIN lastSave
    BY <1>19 DEF SaveAnswered, FormTypes
  <2>4. poll' # <<>> => Known(saved, poll'[1])
    BY <1>1, <1>19 DEF SaveAnswered, Refresh
  <2>5. UNCHANGED <<panel, saved>>
    BY <1>19 DEF SaveAnswered
  <2> QED
    BY <1>0, <1>2, <2>1, <2>2, <2>3, <2>4, <2>5
<1>20. ASSUME NEW r \in requests, CheckAnswered(r)
       PROVE  FormTypes' /\ SavedMoves /\ panel' = panel
  <2> DEFINE b == r.result
             v == r.value
             d == form.draft
  <2>1. \/ form' = form
        \/ panel = "license" /\ form' = [form EXCEPT !.base = b, !.reviewed = <<v>>, !.state = "idle"]
        \/ form' = [form EXCEPT !.reviewed = <<d>>]
    BY <1>20 DEF CheckAnswered
  <2>2. Known(saved, b)
    BY <1>20 DEF RequestOk
  <2> HIDE DEF b, v, d
  <2>3. FormShape(form') /\ form'.open = form.open /\ form'.base \in {form.base, b} /\ (panel = "gpu" => form'.base = form.base)
    <3>1. CASE form' = form
      BY <1>0, <3>1
    <3>2. CASE panel = "license" /\ form' = [form EXCEPT !.base = b, !.reviewed = <<v>>, !.state = "idle"]
      BY <1>0, <3>2 DEF FormShape
    <3>3. CASE form' = [form EXCEPT !.reviewed = <<d>>]
      BY <1>0, <3>3 DEF FormShape
    <3> QED
      BY <2>1, <3>1, <3>2, <3>3
  <2>4. FormMoves(form')
    BY <1>0, <2>2, <2>3 DEF FormMoves
  <2> QED
    BY <1>0, <1>2, <1>20, <2>3, <2>4 DEF CheckAnswered
<1>21. ASSUME NEW r \in requests, RequestFails(r)
       PROVE  FormTypes' /\ SavedMoves /\ panel' = panel
  <2>1. FormShape(form') /\ form'.open = form.open /\ form'.base = form.base
    BY <1>0, <1>21, FailedForm DEF RequestFails
  <2> QED
    BY <1>10, <1>21, <2>1 DEF RequestFails
<1>22. CASE OthersEdit
  <2>1. saved' = saved \/ \E v : saved' = [rev |-> saved.rev + 1, value |-> v]
    BY <1>22 DEF OthersEdit, Becomes
  <2>2. SavedMoves
    BY <2>1, SavedSteps
  <2>3. Known(saved', seen') /\ (poll' # <<>> => Known(saved', poll'[1])) /\ UNCHANGED <<panel, form, seen, lastSave>>
    BY <1>0, <1>22, <2>2 DEF OthersEdit, SavedMoves
  <2> QED
    BY <1>0, <2>2, <2>3, TypesKept
<1> QED
  BY <1>3, <1>4, <1>5, <1>6, <1>7, <1>8, <1>9, <1>11, <1>12, <1>13, <1>14, <1>15, <1>16, <1>17,
     <1>18, <1>19, <1>20,
     <1>21, <1>22 DEF AdminFormsNext, FormsRespond, RequestRefused, AnswerLost

LEMMA RequestStays ==
  ASSUME NEW r, RequestOk(r), SavedMoves, panel' = panel
  PROVE  RequestOk(r)'
  BY DEF RequestOk, SavedMoves

SameRequest(r, q) ==
  /\ RequestShape(q) /\ q.what = r.what /\ q.value = r.value /\ q.token = r.token /\ q.shown = r.shown
  /\ q.reviewed = r.reviewed

LEMMA OrphanedRequest ==
  ASSUME NEW r, RequestShape(r)
  PROVE  LET q == [r EXCEPT !.mine = FALSE]
         IN  SameRequest(r, q) /\ q.result = r.result /\ q.mine = FALSE /\ q.state = r.state
  BY DEF SameRequest, RequestShape

\* The form on screen is given up, and nobody waits for its answers.
LEMMA OrphanedOk ==
  ASSUME NEW rs, \A r \in rs : RequestOk(r), panel # "license"
  PROVE  \A q \in Orphaned(rs) : RequestOk(q)
<1>1. ASSUME NEW r \in rs
      PROVE  RequestOk([r EXCEPT !.mine = FALSE])
  <2> DEFINE q == [r EXCEPT !.mine = FALSE]
  <2>1. RequestOk(r) /\ SameRequest(r, q) /\ q.result = r.result /\ q.state = r.state
    BY <1>1, OrphanedRequest DEF RequestOk
  <2> HIDE DEF q
  <2>2. RequestOk(q)
    BY <2>1 DEF RequestOk, SameRequest
  <2> QED
    BY <2>2 DEF q
<1> QED
  BY <1>1 DEF Orphaned

LEMMA RepliedOk ==
  ASSUME NEW r, RequestOk(r), r.what # "read", NEW q, SameRequest(r, q), Known(saved', q.result), panel' = panel, SavedMoves
  PROVE  RequestOk(q)'
<1>1. RequestOk(r)'
  BY RequestStays
<1> QED
  BY <1>1 DEF RequestOk, SameRequest

LEMMA RequestsStep ==
  ASSUME FormsInv, AdminFormsNext, SavedMoves, panel' = panel
  PROVE  \A r \in requests' : RequestOk(r)'
<1>0. /\ \A r \in requests : RequestOk(r)
      /\ \A r \in requests : RequestOk(r)'
      /\ panel \in PanelNames
  BY RequestStays DEF FormsInv, FormTypes
<1>1. CASE requests' \subseteq requests
  BY <1>0, <1>1
<1>2. ASSUME NEW rs \in SUBSET requests, requests' = Orphaned(rs), panel # "license"
      PROVE  \A r \in requests' : RequestOk(r)'
  <2>1. \A q \in Orphaned(rs) : RequestOk(q)
    BY <1>0, <1>2, OrphanedOk
  <2>2. ASSUME NEW q \in Orphaned(rs)
        PROVE  RequestOk(q)'
    BY <2>1, <2>2, RequestStays
  <2> QED
    BY <1>2, <2>2
<1>3. ASSUME NEW q, requests' = requests \cup {q}, RequestOk(q)
      PROVE  \A r \in requests' : RequestOk(r)'
  <2>1. RequestOk(q)'
    BY <1>3, RequestStays
  <2> QED
    BY <1>0, <1>3, <2>1
<1>4. ASSUME NEW r \in requests, NEW state, NEW data, Replied(r, state, data), r.what # "read", Known(saved', data)
      PROVE  \A q \in requests' : RequestOk(q)'
  <2> SUFFICES ASSUME NEW q \in requests'
               PROVE  RequestOk(q)'
    OBVIOUS
  <2>1. CASE q \in requests
    BY <1>0, <2>1
  <2>2. CASE q = [r EXCEPT !.state = state, !.result = data]
    <3>0. RequestShape(r)
      BY <1>0, <1>4 DEF RequestOk
    <3>1. SameRequest(r, q) /\ q.result = data
      BY <2>2, <3>0 DEF SameRequest, RequestShape
    <3> QED
      BY <1>0, <1>4, <3>1, RepliedOk
  <2> QED
    BY <1>4, <2>1, <2>2 DEF Replied
<1>5. Known(saved, saved) /\ Known(saved', saved')
  BY DEF FormsInv, FormTypes, Known, SavedMoves
<1>6. CASE PollAnswered
  <2>1. panel = "license" => requests' = requests
    BY <1>0, <1>6, PanelFacts DEF PollAnswered, Shows
  <2>2. requests' = requests \/ requests' = Orphaned(requests)
    BY <1>6 DEF PollAnswered, Shows
  <2> QED
    BY <1>1, <1>2, <2>1, <2>2
<1>7. CASE CloseForm
  BY <1>0, <1>2, <1>7, PanelFacts DEF CloseForm, PagePanels
<1>8. CASE SelectFile
  <2> DEFINE q == Request("read", formInputs')
  <2>1. RequestShape(q) /\ q.what = "read" /\ q.mine = TRUE /\ q.state = "sent" /\ q.result = saved
    BY DEF Request, RequestShape
  <2>2. panel = "license" /\ requests' = requests \cup {q}
    BY <1>8 DEF SelectFile
  <2> HIDE DEF q
  <2>3. RequestOk(q)
    BY <1>5, <2>1, <2>2 DEF RequestOk
  <2> QED
    BY <1>3, <2>2, <2>3
<1>9. CASE CheckDraft
  <2> DEFINE q == Request("check", form.draft)
  <2>1. RequestShape(q) /\ q.what = "check" /\ q.result = saved
    BY DEF Request, RequestShape
  <2>2. requests' = requests \cup {q}
    BY <1>9 DEF CheckDraft
  <2> HIDE DEF q
  <2>3. RequestOk(q)
    BY <1>5, <2>1 DEF RequestOk
  <2> QED
    BY <1>3, <2>2, <2>3
<1>10. CASE SubmitForm
  <2> DEFINE v == form.draft
             t == Token
             b == form.base.value
             q == [Request("save", v) EXCEPT !.token = t, !.shown = b]
  <2>0. q = [Request("save", v) EXCEPT !.token = t, !.shown = b]
    OBVIOUS
  <2> HIDE DEF q
  <2>1. /\ RequestShape(q) /\ q.what = "save" /\ q.value = v /\ q.reviewed = form.reviewed
        /\ q.result = saved /\ q.token = t /\ q.shown = b
    <3> DEFINE r == Request("save", v)
    <3>1. RequestShape(r) /\ r.what = "save" /\ r.value = v /\ r.reviewed = form.reviewed /\ r.result = saved
      BY DEF Request, RequestShape
    <3> HIDE DEF r, v, t, b
    <3>2. q = [r EXCEPT !.token = t, !.shown = b]
      BY <2>0 DEF r
    <3> QED
      BY <3>1, <3>2 DEF RequestShape
  <2>2. requests' = requests \cup {q}
    BY <1>10 DEF SubmitForm, q
  <2>3. panel \notin UnboundPanels => t \in Nat /\ t <= saved.rev /\ (t = saved.rev => b = saved.value)
    <3>1. CASE panel \in {"gpu", "models"}
      <4>1. panel = "gpu" /\ form.base = seen /\ t = seen.rev /\ Known(saved, seen)
        BY <1>10, <3>1, PanelFacts DEF SubmitForm, FormsInv, FormTypes, Token
      <4> QED
        BY <4>1 DEF Known
    <3>2. CASE panel \notin {"gpu", "models"}
      <4>1. t = form.base.rev /\ Known(saved, form.base)
        BY <1>0, <3>2, PanelFacts DEF FormsInv, FormTypes, Token
      <4> QED
        BY <4>1 DEF Known
    <3> QED
      BY <3>1, <3>2
  <2>4. panel \in {"license", "sharing", "gpu"} => form.reviewed = <<v>>
    BY <1>10 DEF SubmitForm, Ready, NotReviewed, FormsInv, ReviewedOk
  <2> HIDE DEF v, t, b
  <2>5. RequestOk(q)
    BY <1>5, <2>1, <2>3, <2>4 DEF RequestOk
  <2> QED
    BY <1>3, <2>2, <2>5
<1>11. CASE RunLifecycle
  <2> DEFINE v == formInputs'
             t == Token
             b == seen.value
             q == [Request("save", v) EXCEPT !.token = t, !.shown = b]
  <2>0. q = [Request("save", v) EXCEPT !.token = t, !.shown = b]
    OBVIOUS
  <2> HIDE DEF q
  <2>1. /\ RequestShape(q) /\ q.what = "save" /\ q.result = saved /\ q.token = t /\ q.shown = b
    <3> DEFINE r == Request("save", v)
    <3>1. RequestShape(r) /\ r.what = "save" /\ r.value = v /\ r.reviewed = form.reviewed /\ r.result = saved
      BY DEF Request, RequestShape
    <3> HIDE DEF r, v, t, b
    <3>2. q = [r EXCEPT !.token = t, !.shown = b]
      BY <2>0 DEF r
    <3> QED
      BY <3>1, <3>2 DEF RequestShape
  <2>2. requests' = requests \cup {q} /\ panel = "models"
    BY <1>11 DEF RunLifecycle, q
  <2>3. t \in Nat /\ t <= saved.rev /\ (t = saved.rev => b = saved.value)
    <3>1. t = seen.rev /\ Known(saved, seen)
      BY <1>0, <2>2, PanelFacts DEF FormsInv, FormTypes, Token
    <3> QED
      BY <3>1 DEF Known
  <2> HIDE DEF v, t, b
  <2>4. RequestOk(q)
    BY <1>5, <2>1, <2>2, <2>3 DEF RequestOk
  <2> QED
    BY <1>3, <2>2, <2>4
<1>12. ASSUME NEW r \in requests, ApiSaves(r)
       PROVE  \A q \in requests' : RequestOk(q)'
  <2>1. r.what # "read" /\ \E state : Replied(r, state, saved) \/ Replied(r, state, saved')
    BY <1>12 DEF ApiSaves, BreaksOff
  <2>2. Known(saved', saved)
    BY <1>5 DEF SavedMoves
  <2> QED
    BY <1>4, <1>5, <2>1, <2>2
<1>13. ASSUME NEW r \in requests, ApiChecks(r)
       PROVE  \A q \in requests' : RequestOk(q)'
  <2>1. r.what # "read" /\ \E state : Replied(r, state, saved)
    BY <1>13 DEF ApiChecks
  <2>2. Known(saved', saved)
    BY <1>5 DEF SavedMoves
  <2> QED
    BY <1>4, <2>1, <2>2
<1>14. CASE PollStarts \/ PollLost \/ OpenForm \/ TypeDraft \/ ReviewDraft \/ ReviewCancelled \/ OthersEdit
  BY <1>1, <1>14 DEF PollStarts, PollLost, OpenForm, TypeDraft, ReviewDraft, ReviewCancelled,
     OthersEdit
<1>15. ASSUME NEW r \in requests, FileRead(r) \/ CheckAnswered(r) \/ RequestFails(r)
       PROVE  \A q \in requests' : RequestOk(q)'
  BY <1>1, <1>15 DEF FileRead, CheckAnswered, RequestFails
<1>16. ASSUME NEW r \in requests, SaveAnswered(r)
       PROVE  \A q \in requests' : RequestOk(q)'
  <2>1. CASE requests' = requests \ {r}
    BY <1>1, <2>1
  <2>2. CASE requests' = Orphaned(requests \ {r}) /\ Panel.opens # "page"
    <3> DEFINE rs == requests \ {r}
    <3>1. rs \in SUBSET requests /\ requests' = Orphaned(rs)
      BY <2>2
    <3>2. panel # "license"
      BY <1>0, <2>2, PanelFacts DEF PagePanels
    <3> HIDE DEF rs
    <3> QED
      BY <1>2, <3>1, <3>2
  <2> QED
    BY <1>16, <2>1, <2>2 DEF SaveAnswered
<1> QED
  BY <1>6, <1>7, <1>8, <1>9, <1>10, <1>11, <1>12, <1>13, <1>14, <1>15, <1>16
     DEF AdminFormsNext, FormsRespond, RequestRefused, AnswerLost

\* A request whose answer fails is not a file being read.
FailsFor(r) == r.what # "read" /\ RequestFails(r)

LEMMA FormSteps ==
  ASSUME \A r \in requests : RequestOk(r), AdminFormsNext
  PROVE  \/ PollStarts \/ PollAnswered \/ PollLost \/ OpenForm \/ CloseForm \/ TypeDraft \/ SelectFile
         \/ ReviewDraft \/ ReviewCancelled \/ CheckDraft \/ SubmitForm \/ RunLifecycle \/ OthersEdit
         \/ \E r \in requests : \/ FileRead(r) \/ ApiSaves(r) \/ ApiChecks(r) \/ SaveAnswered(r)
                               \/ CheckAnswered(r) \/ FailsFor(r)
<1>1. \A r \in requests : r.state = "refused" => r.what # "read"
  BY DEF RequestOk
<1> QED
  BY <1>1 DEF AdminFormsNext, FormsRespond, RequestRefused, AnswerLost, FailsFor

LEMMA ReviewedStep ==
  ASSUME FormsInv, AdminFormsNext, panel' = panel
  PROVE  ReviewedOk'
<1>0. /\ \A r \in requests : RequestOk(r)
      /\ FormShape(form) /\ panel \in PanelNames /\ (panel \in PagePanels => form.open = TRUE) /\ ReviewedOk
  BY DEF FormsInv, FormTypes
<1>1. CASE form' = form
  BY <1>0, <1>1 DEF ReviewedOk
<1>2. CASE form'.reviewed = <<>> /\ panel # "license"
  BY <1>2 DEF ReviewedOk
<1>3. ASSUME form'.reviewed = form.reviewed, form'.draft = form.draft, form'.picked = form.picked
      PROVE  ReviewedOk'
  BY <1>0, <1>3 DEF ReviewedOk
<1>4. CASE form'.reviewed = <<>> /\ form'.draft = 0
  BY <1>4 DEF ReviewedOk
<1>5. CASE panel # "license" /\ form'.reviewed = <<form'.draft>>
  BY <1>5 DEF ReviewedOk
<1>6. CASE panel \notin {"license", "sharing", "gpu"}
  BY <1>6 DEF ReviewedOk
<1>7. CASE PollAnswered
  <2> DEFINE d == poll[1]
  <2>1. Shows(d)
    BY <1>7 DEF PollAnswered
  <2>2. CASE panel = "gpu"
    <3>1. form' = NewForm(d) \/ form' = [form EXCEPT !.base = d]
      BY <1>0, <2>1, <2>2, PanelFacts DEF Shows
    <3>2. CASE form' = NewForm(d)
      BY <1>2, <2>2, <3>2, NewForms
    <3>3. CASE form' = [form EXCEPT !.base = d]
      <4> HIDE DEF d
      <4> QED
        BY <1>0, <1>3, <3>3 DEF FormShape
    <3> QED
      BY <3>1, <3>2, <3>3
  <2>3. CASE panel \in {"license", "sharing"}
    BY <1>0, <1>1, <2>1, <2>3, PanelFacts DEF Shows
  <2> QED
    BY <1>6, <2>2, <2>3
<1>8. CASE OpenForm
  <2>1. panel # "license"
    BY <1>0, <1>8 DEF OpenForm, PagePanels
  <2>2. \E d \in {saved, seen} : form' = NewForm(d)
    BY <1>8 DEF OpenForm
  <2> QED
    BY <1>2, <2>1, <2>2, NewForms
<1>9. CASE CloseForm
  BY <1>4, <1>9, ClosedForm DEF CloseForm
<1>10. CASE TypeDraft
  BY <1>0, <1>2, <1>6, <1>10, TypedForm DEF TypeDraft
<1>11. CASE SelectFile
  <2> DEFINE g == NoFile(form)
             v == formInputs'
  <2>1. FormShape(g) /\ g.draft = 0 /\ g.reviewed = <<>>
    BY <1>0, ClearedForm
  <2>2. form' = [g EXCEPT !.picked = v]
    BY <1>11 DEF SelectFile, NewSelection
  <2> HIDE DEF g, v
  <2>3. form'.draft = 0 /\ form'.reviewed = <<>>
    BY <2>1, <2>2 DEF FormShape
  <2> QED
    BY <1>4, <2>3
<1>12. CASE ReviewDraft
  <2> DEFINE d == form.draft
  <2>1. panel \in {"sharing", "gpu"} => form' = [form EXCEPT !.reviewed = <<d>>]
    BY <1>12 DEF ReviewDraft
  <2>2. panel # "license"
    BY <1>0, <1>12, PanelFacts DEF ReviewDraft
  <2>3. CASE panel \in {"sharing", "gpu"}
    <3>1. form'.reviewed = <<d>> /\ form'.draft = d
      BY <1>0, <2>1, <2>3 DEF FormShape
    <3> QED
      BY <1>5, <2>2, <3>1
  <2> QED
    BY <1>6, <2>2, <2>3
<1>13. CASE ReviewCancelled
  <2>1. panel # "license"
    BY <1>0, <1>13, PanelFacts DEF ReviewCancelled, Panel, Panels, LicensePage
  <2>2. form'.reviewed = <<>>
    BY <1>0, <1>13 DEF ReviewCancelled, NotReviewed, FormShape
  <2> QED
    BY <1>2, <2>1, <2>2
<1>14. CASE CheckDraft \/ SubmitForm \/ RunLifecycle
  <2>1. form' = form \/ \E state \in {"checking", "sending"} : form' = [form EXCEPT !.state = state]
    BY <1>14 DEF CheckDraft, SubmitForm, RunLifecycle
  <2>2. form'.reviewed = form.reviewed /\ form'.draft = form.draft /\ form'.picked = form.picked
    BY <1>0, <2>1 DEF FormShape
  <2> QED
    BY <1>3, <2>2
<1>15. ASSUME NEW r \in requests, FileRead(r)
       PROVE  ReviewedOk'
  <2>1. panel = "license"
    BY <1>0, <1>15 DEF FileRead, RequestOk
  <2>2. CASE r.value = form.picked
    <3> DEFINE v == r.value
    <3>1. form' = [form EXCEPT !.draft = v]
      BY <1>15, <2>2 DEF FileRead
    <3> HIDE DEF v
    <3>2. form'.reviewed = form.reviewed /\ form'.draft = v /\ form'.picked = form.picked
      BY <1>0, <3>1 DEF FormShape
    <3>3. v = form.picked
      BY <2>2 DEF v
    <3>4. form.reviewed # <<>> => form.reviewed = <<form.draft>> /\ form.draft = form.picked
      BY <1>0, <2>1 DEF ReviewedOk
    <3> QED
      BY <2>1, <3>2, <3>3, <3>4 DEF ReviewedOk
  <2> QED
    BY <1>1, <1>15, <2>2 DEF FileRead
<1>16. ASSUME NEW r \in requests, SaveAnswered(r)
       PROVE  ReviewedOk'
  <2>1. CASE SaveAccepted
    <3>1. form'.reviewed = <<>> /\ (panel = "license" => form'.draft = 0)
      BY <2>1, AcceptedForm DEF FormsInv
    <3> QED
      BY <1>2, <1>4, <3>1
  <2> QED
    BY <1>1, <1>16, <2>1 DEF SaveAnswered
<1>17. ASSUME NEW r \in requests, CheckAnswered(r)
       PROVE  ReviewedOk'
  <2> DEFINE b == r.result
             v == r.value
             d == form.draft
  <2>1. CASE r.mine /\ panel = "license"
    <3>1. form' = [form EXCEPT !.base = b, !.reviewed = <<v>>, !.state = "idle"]
      BY <1>17, <2>1 DEF CheckAnswered
    <3>2. v = d /\ v = form.picked
      BY <1>17, <2>1 DEF CheckAnswered, FormsInv, LicenseOk
    <3> HIDE DEF b, v, d
    <3>3. form'.reviewed = <<v>> /\ form'.draft = form.draft /\ form'.picked = form.picked
      BY <1>0, <3>1 DEF FormShape
    <3> QED
      BY <2>1, <3>2, <3>3 DEF ReviewedOk, d
  <2>2. CASE r.mine /\ panel # "license"
    <3>1. form' = [form EXCEPT !.reviewed = <<d>>]
      BY <1>17, <2>2 DEF CheckAnswered
    <3>2. form'.reviewed = <<d>> /\ form'.draft = d
      BY <1>0, <3>1 DEF FormShape
    <3> QED
      BY <1>5, <2>2, <3>2
  <2>3. CASE ~r.mine
    BY <1>1, <1>17, <2>3 DEF CheckAnswered
  <2> QED
    BY <2>1, <2>2, <2>3
<1>18. ASSUME NEW r \in requests, FailsFor(r)
       PROVE  ReviewedOk'
  <2>1. CASE form' = Failed(form)
    <3>1. /\ form'.draft = form.draft /\ form'.picked = form.picked
          /\ form'.reviewed = (IF panel = "license" THEN <<>> ELSE form.reviewed)
      BY <1>0, <2>1, FailedForm
    <3> QED
      BY <1>0, <3>1 DEF ReviewedOk
  <2> QED
    BY <1>1, <1>18, <2>1 DEF FailsFor, RequestFails
<1>19. CASE PollStarts \/ PollLost \/ OthersEdit
  BY <1>1, <1>19 DEF PollStarts, PollLost, OthersEdit
<1>20. ASSUME NEW r \in requests, ApiSaves(r) \/ ApiChecks(r)
       PROVE  ReviewedOk'
  BY <1>1, <1>20 DEF ApiSaves, ApiChecks
<1> QED
  BY <1>0, <1>7, <1>8, <1>9, <1>10, <1>11, <1>12, <1>13, <1>14, <1>15, <1>16, <1>17, <1>18,
     <1>19, <1>20, FormSteps

\* Once the answer it waits for is there, the license form waits for nothing.
LEMMA NobodyElse ==
  ASSUME LicenseOk, panel = "license", panel' = panel, NEW r \in requests, Waits(r), requests' = requests \ {r}
  PROVE  LicenseOk'
  BY DEF LicenseOk, Waits

LEMMA FewerWait ==
  ASSUME LicenseOk, panel' = panel, requests' \subseteq requests, form' = form
  PROVE  LicenseOk'
  BY DEF LicenseOk, Waits

LEMMA LicenseStep ==
  ASSUME FormsInv, AdminFormsNext, panel' = panel
  PROVE  LicenseOk'
<1> SUFFICES ASSUME panel = "license"
             PROVE  LicenseOk'
  BY DEF LicenseOk
<1>0. /\ \A r \in requests : RequestOk(r)
      /\ FormShape(form) /\ panel \in PanelNames /\ form.open = TRUE /\ ReviewedOk /\ LicenseOk
  BY DEF FormsInv, FormTypes, PagePanels
<1>1. form.state = "idle" => \A r \in requests : ~Waits(r)
  BY <1>0 DEF LicenseOk, Waits
<1>2. CASE PollAnswered
  BY <1>0, <1>2, FewerWait, PanelFacts DEF PollAnswered, Shows
<1>3. CASE OpenForm \/ CloseForm \/ TypeDraft \/ ReviewDraft \/ ReviewCancelled \/ RunLifecycle
  <2>1. ~OpenForm /\ ~TypeDraft /\ ~RunLifecycle
    BY <1>0 DEF OpenForm, TypeDraft, RunLifecycle
  <2>2. Panel.opens = "page" /\ Panel.review = "server"
    BY <1>0, PanelFacts DEF PagePanels
  <2> QED
    BY <1>3, <2>1, <2>2 DEF CloseForm, ReviewDraft, ReviewCancelled
<1>4. CASE SelectFile
  <2> DEFINE q == Request("read", formInputs')
  <2>1. q.what = "read"
    BY DEF Request
  <2>2. requests' = requests \cup {q} /\ form.state = "idle"
    BY <1>0, <1>4, PanelFacts DEF SelectFile, Editable
  <2> HIDE DEF q
  <2>3. \A r \in requests' : ~Waits(r)
    BY <1>1, <2>1, <2>2 DEF Waits
  <2>4. \A r \in requests' : ~(r.what = "check" /\ r.mine)
    BY <2>3 DEF Waits
  <2> QED
    BY <2>3, <2>4 DEF LicenseOk, Waits
<1>5. CASE CheckDraft
  <2> DEFINE d == form.draft
             q == Request("check", d)
  <2>1. q.what = "check" /\ q.value = d
    BY DEF Request
  <2>2. requests' = requests \cup {q} /\ form.state = "idle" /\ form' = [form EXCEPT !.state = "checking"] /\ d # 0
    BY <1>5 DEF CheckDraft
  <2>3. d = form.picked
    BY <1>0, <2>2 DEF ReviewedOk
  <2> HIDE DEF q
  <2>4. form'.state = "checking" /\ form'.draft = d /\ form'.picked = form.picked
    BY <1>0, <2>2 DEF FormShape
  <2> HIDE DEF d
  <2>5. \A r \in requests' : Waits(r) => r = q
    BY <1>1, <2>2 DEF Waits
  <2> QED
    BY <2>1, <2>3, <2>4, <2>5 DEF LicenseOk, Waits
<1>6. CASE SubmitForm
  <2> DEFINE v == form.draft
             t == Token
             b == form.base.value
             q == [Request("save", v) EXCEPT !.token = t, !.shown = b]
  <2>1. q.what = "save"
    <3> HIDE DEF v, t, b
    <3> QED
      BY DEF Request
  <2>2. requests' = requests \cup {q} /\ form.state = "idle" /\ form' = [form EXCEPT !.state = "sending"]
    BY <1>6 DEF SubmitForm
  <2> HIDE DEF q
  <2>3. form'.state = "sending"
    BY <1>0, <2>2 DEF FormShape
  <2>4. \A r \in requests' : Waits(r) => r = q
    BY <1>1, <2>2 DEF Waits
  <2> QED
    BY <2>1, <2>3, <2>4 DEF LicenseOk, Waits
<1>7. ASSUME NEW r \in requests, FileRead(r)
      PROVE  LicenseOk'
  <2>1. requests' = requests \ {r}
    BY <1>7 DEF FileRead
  <2>2. CASE r.value = form.picked
    <3> DEFINE v == r.value
    <3>1. form' = [form EXCEPT !.draft = v]
      BY <1>7, <2>2 DEF FileRead
    <3> HIDE DEF v
    <3>2. form'.state = form.state /\ form'.draft = v /\ form'.picked = form.picked
      BY <1>0, <3>1 DEF FormShape
    <3>3. v = form.picked
      BY <2>2 DEF v
    <3> QED
      BY <1>0, <2>1, <3>2, <3>3 DEF LicenseOk, Waits
  <2> QED
    BY <1>0, <1>7, <2>1, <2>2, FewerWait DEF FileRead
<1>8. ASSUME NEW r \in requests, ApiSaves(r) \/ ApiChecks(r)
      PROVE  LicenseOk'
  <2>1. form' = form
    BY <1>8 DEF ApiSaves, ApiChecks
  <2>2. PICK state, data : Replied(r, state, data)
    BY <1>8 DEF ApiSaves, BreaksOff, ApiChecks
  <2> DEFINE q == [r EXCEPT !.state = state, !.result = data]
  <2>3. RequestShape(r)
    BY <1>0 DEF RequestOk
  <2>4. q.what = r.what /\ q.value = r.value /\ q.mine = r.mine
    BY <2>3 DEF RequestShape
  <2>5. requests' = (requests \ {r}) \cup {q}
    BY <2>2 DEF Replied
  <2> HIDE DEF q
  <2>6. Waits(q) <=> Waits(r)
    BY <2>4 DEF Waits
  <2>7. ASSUME NEW x \in requests', NEW y \in requests', Waits(x), Waits(y)
        PROVE  x = y
    BY <1>0, <2>5, <2>6, <2>7 DEF LicenseOk
  <2>8. ASSUME NEW x \in requests'
        PROVE  /\ x.what = "check" /\ x.mine => form.state = "checking" /\ x.value = form.draft /\ x.value = form.picked
               /\ Waits(x) /\ x.what # "check" => form.state = "sending"
    BY <1>0, <2>4, <2>5, <2>6, <2>8 DEF LicenseOk
  <2> QED
    BY <2>1, <2>7, <2>8 DEF LicenseOk, Waits
<1>9. ASSUME NEW r \in requests, SaveAnswered(r) \/ CheckAnswered(r) \/ FailsFor(r)
      PROVE  LicenseOk'
  <2>1. requests' = requests \ {r} /\ r.what # "read"
    BY <1>0, <1>9, PanelFacts DEF SaveAnswered, CheckAnswered, FailsFor, RequestFails, PagePanels
  <2>2. CASE r.mine
    BY <1>0, <2>1, <2>2, NobodyElse DEF Waits
  <2>3. CASE ~r.mine
    <3>1. form' = form
      BY <1>0, <1>9, <2>3, PanelFacts DEF SaveAnswered, CheckAnswered, FailsFor, RequestFails,
         Awaited, PagePanels
    <3> QED
      BY <1>0, <2>1, <3>1, FewerWait
  <2> QED
    BY <2>2, <2>3
<1>10. CASE PollStarts \/ PollLost \/ OthersEdit
  BY <1>0, <1>10, FewerWait DEF PollStarts, PollLost, OthersEdit
<1> QED
  BY <1>0, <1>2, <1>3, <1>4, <1>5, <1>6, <1>7, <1>8, <1>9, <1>10, FormSteps

LEMMA LastStep ==
  ASSUME FormsInv, AdminFormsNext, panel' = panel
  PROVE  LastOk'
<1>0. /\ \A r \in requests : RequestOk(r)
      /\ LastOk /\ DOMAIN lastSave = {"value", "was", "shown", "reviewed", "confirmed"} /\ panel \in PanelNames
      /\ saved.rev \in Nat /\ Known(saved, seen) /\ (poll # <<>> => Known(saved, poll[1]))
  BY DEF FormsInv, FormTypes
<1>1. ASSUME lastSave' = lastSave, seen' = seen, poll' \in {poll, <<>>}
      PROVE  LastOk'
  BY <1>0, <1>1 DEF LastOk
<1>2. CASE PollStarts
  <2>1. lastSave.confirmed <= saved.rev
    BY <1>0 DEF LastOk, Known
  <2> QED
    BY <1>0, <1>2, <2>1 DEF PollStarts, Refresh, LastOk
<1>3. CASE PollAnswered
  BY <1>0, <1>3 DEF PollAnswered, Shows, LastOk
<1>4. CASE PollLost \/ OpenForm \/ CloseForm \/ TypeDraft \/ SelectFile \/ ReviewDraft \/ ReviewCancelled \/ CheckDraft
           \/ SubmitForm \/ RunLifecycle \/ OthersEdit
  BY <1>1, <1>4 DEF PollLost, OpenForm, CloseForm, TypeDraft, SelectFile, ReviewDraft,
     ReviewCancelled, CheckDraft,
     SubmitForm, RunLifecycle, OthersEdit
<1>5. ASSUME NEW r \in requests, FileRead(r) \/ ApiChecks(r) \/ CheckAnswered(r) \/ FailsFor(r)
      PROVE  LastOk'
  BY <1>1, <1>5 DEF FileRead, ApiChecks, CheckAnswered, FailsFor, RequestFails
<1>6. ASSUME NEW r \in requests, ApiSaves(r)
      PROVE  LastOk'
  <2> DEFINE v == r.value
             o == saved.value
             t == r.shown
             d == r.reviewed
  <2>1. CASE lastSave' = [lastSave EXCEPT !.value = v, !.was = o, !.shown = t, !.reviewed = d]
             /\ (panel \notin UnboundPanels => r.token = saved.rev)
    <3>1. panel \notin UnboundPanels => t = o
      BY <1>0, <1>6, <2>1 DEF ApiSaves, RequestOk
    <3>2. panel \in {"license", "sharing", "gpu"} => d = <<v>>
      BY <1>0, <1>6 DEF ApiSaves, RequestOk
    <3>3. UNCHANGED <<seen, poll>>
      BY <1>6 DEF ApiSaves
    <3> HIDE DEF v, o, t, d
    <3>4. lastSave'.value = v /\ lastSave'.was = o /\ lastSave'.shown = t /\ lastSave'.reviewed = d
          /\ lastSave'.confirmed = lastSave.confirmed
      BY <1>0, <2>1
    <3> QED
      BY <1>0, <3>1, <3>2, <3>3, <3>4 DEF LastOk
  <2>2. CASE lastSave' = lastSave
    BY <1>1, <1>6, <2>2 DEF ApiSaves
  <2> QED
    BY <1>0, <1>6, <2>1, <2>2, PanelFacts DEF ApiSaves
<1>7. ASSUME NEW r \in requests, SaveAnswered(r)
      PROVE  LastOk'
  <2> DEFINE n == r.result.rev
  <2>1. poll' = <<saved>>
    BY <1>7 DEF SaveAnswered, Refresh
  <2>2. CASE panel \in {"license", "models"}
    <3>1. seen' = r.result /\ lastSave' = [lastSave EXCEPT !.confirmed = n]
      BY <1>7, <2>2 DEF SaveAnswered
    <3>2. n \in Nat /\ n <= saved.rev
      BY <1>0, <1>7 DEF RequestOk, Known
    <3>3. seen'.rev = n
      BY <3>1
    <3> HIDE DEF n
    <3>4. lastSave'.value = lastSave.value /\ lastSave'.was = lastSave.was /\ lastSave'.shown = lastSave.shown
          /\ lastSave'.reviewed = lastSave.reviewed /\ lastSave'.confirmed = n
      BY <1>0, <3>1
    <3> QED
      BY <1>0, <2>1, <3>2, <3>3, <3>4 DEF LastOk
  <2>3. CASE panel \notin {"license", "models"}
    <3>1. UNCHANGED <<seen, lastSave>>
      BY <1>7, <2>3 DEF SaveAnswered
    <3>2. lastSave.confirmed <= saved.rev
      BY <1>0 DEF LastOk, Known
    <3> QED
      BY <1>0, <2>1, <3>1, <3>2 DEF LastOk
  <2> QED
    BY <2>2, <2>3
<1> QED
  BY <1>0, <1>2, <1>3, <1>4, <1>5, <1>6, <1>7, FormSteps

\* Every step of a form, of its query and of the API.
LEMMA FormsStep ==
  ASSUME FormsInv, [AdminFormsNext]_formVars
  PROVE  FormsInv'
<1>1. CASE AdminFormsNext
  <2>1. FormTypes' /\ SavedMoves /\ panel' = panel
    BY <1>1, TypesStep DEF FormsInv
  <2>2. \A r \in requests' : RequestOk(r)'
    BY <1>1, <2>1, RequestsStep
  <2>3. ReviewedOk' /\ LicenseOk' /\ LastOk'
    BY <1>1, <2>1, ReviewedStep, LicenseStep, LastStep
  <2> QED
    BY <2>1, <2>2, <2>3 DEF FormsInv
<1>2. CASE UNCHANGED formVars
  <2>1. UNCHANGED <<panel, saved, seen, poll, form, requests, lastSave>>
    BY <1>2 DEF formVars
  <2> QED
    BY <2>1 DEF FormsInv, FormTypes, RequestOk, ReviewedOk, LicenseOk, Waits, LastOk
<1> QED
  BY <1>1, <1>2

LEMMA FormsStart ==
  ASSUME AdminFormsInit
  PROVE  FormsInv
<1>1. /\ panel \in PanelNames /\ saved = [rev |-> 1, value |-> 0] /\ seen = saved /\ poll = <<>> /\ requests = {}
      /\ lastSave = [value |-> 0, was |-> 0, shown |-> 0, reviewed |-> <<0>>, confirmed |-> 0]
      /\ form = IF panel \in PagePanels THEN NewForm(saved) ELSE Closed
  BY PanelFacts DEF AdminFormsInit
<1>2. saved.rev = 1 /\ saved.value = 0
  BY <1>1
<1>3. Known(saved, saved)
  BY <1>2 DEF Known
<1>4. CASE form = NewForm(saved) /\ panel \in PagePanels
  <2>1. FormShape(form) /\ form.open = TRUE /\ form.base = saved /\ form.draft = 0 /\ form.reviewed = <<>>
    BY <1>2, <1>4, NewForms
  <2> QED
    BY <1>1, <1>2, <1>3, <2>1 DEF FormsInv, FormTypes, ReviewedOk, LicenseOk, LastOk
<1>5. CASE form = Closed /\ panel \notin PagePanels
  <2>1. FormShape(form) /\ form.base.rev = 0 /\ form.draft = 0 /\ form.reviewed = <<>> /\ panel # "gpu"
    BY <1>5, ClosedForm DEF PagePanels
  <2>2. Known(saved, form.base)
    BY <1>2, <2>1 DEF Known
  <2> QED
    BY <1>1, <1>2, <1>3, <1>5, <2>1, <2>2 DEF FormsInv, FormTypes, ReviewedOk, LicenseOk, LastOk
<1> QED
  BY <1>1, <1>4, <1>5

LEMMA FormsSound ==
  ASSUME FormsInv
  PROVE  ReplacesShown /\ SavedAsReviewed /\ ConfirmedShown
<1>1. panel \in PanelNames /\ LastOk /\ seen.rev \in Nat
  BY DEF FormsInv, FormTypes, Known
<1>2. ReplacesShown
  BY <1>1, PanelFacts DEF ReplacesShown, LastOk
<1> QED
  BY <1>1, <1>2 DEF SavedAsReviewed, ConfirmedShown, LastOk

\* What TypedKept says of a step.
LEMMA TypedStays ==
  ASSUME FormsInv, AdminFormsNext, panel = "domains", form.draft # form.base.value, seen' # seen
  PROVE  form'.draft = form.draft
<1>1. FormShape(form) /\ \A r \in requests : RequestOk(r)
  BY DEF FormsInv, FormTypes
<1>2. PollAnswered
  BY <1>1, FormSteps DEF PollStarts, PollLost, OpenForm, CloseForm, TypeDraft, SelectFile,
     ReviewDraft, ReviewCancelled,
     CheckDraft, SubmitForm, RunLifecycle, OthersEdit, FileRead, ApiSaves, ApiChecks, SaveAnswered, CheckAnswered,
     FailsFor, RequestFails
<1>3. form' = DomainsFollowed(form, poll[1])
  <2>1. ~Panel.keyed
    BY PanelFacts DEF PanelNames, PagePanels
  <2> QED
    BY <1>2, <2>1 DEF PollAnswered, Shows
<1> QED
  BY <1>1, <1>3 DEF DomainsFollowed, FormShape

\* On the behaviours of the forms alone: what a form saves replaces the revision
\* that was shown and is what was reviewed, a model list does not fall back behind
\* a confirmed start or stop, and typed values are kept when the saved ones change
\* (expectedRevision, the refetch after a lifecycle call, DomainSettings).
THEOREM FormsStaySafe == AdminFormsSpec => [](ReplacesShown /\ SavedAsReviewed /\ ConfirmedShown) /\ TypedKept
<1>1. AdminFormsInit => FormsInv
  BY FormsStart
<1>2. FormsInv /\ [AdminFormsNext]_formVars => FormsInv'
  BY FormsStep
<1>3. FormsInv => ReplacesShown /\ SavedAsReviewed /\ ConfirmedShown
  BY FormsSound
<1>4. FormsInv /\ [AdminFormsNext]_formVars =>
        [panel = "domains" /\ form.draft # form.base.value /\ seen' # seen => form'.draft = form.draft]_formVars
  BY TypedStays
<1> QED
  BY <1>1, <1>2, <1>3, <1>4, PTL DEF AdminFormsSpec, TypedKept

(***************************************************************************)
(* Editing a deployed model.                                               *)
(***************************************************************************)
\* A revision that was opened is not ahead of the stored model; if it is the
\* stored one, the settings that were opened are the stored ones.
OpenedAt(revision, local) ==
  \E u \in Nat, g \in Nat :
     /\ revision = <<u, g>>
     /\ u < model.uid \/ (u = model.uid /\ g < model.gen) \/ (u = model.uid /\ g = model.gen /\ local = model.local)
EditInv ==
  /\ DOMAIN model = {"uid", "gen", "local"} /\ model.uid \in Nat /\ model.gen \in Nat
  /\ DOMAIN editor = {"open", "of", "initial", "draft", "revision"}
  /\ DOMAIN estimated = {"state", "of"} /\ estimated.state \in {"off", "fetching", "ready", "error"} /\ foreignEdits \in Nat
  /\ editor.open => OpenedAt(editor.revision, editor.of) /\ estimated.state # "off"
  /\ saving.on => OpenedAt(saving.revision, saving.from) /\ editor.open
                  /\ saving.meant = editor.draft /\ EstimateKey(estimated.of) = EstimateKey(editor.draft)
  /\ editor.open /\ estimated.state = "ready" => EstimateKey(estimated.of) = EstimateKey(editor.draft)

LEMMA OpenedStays ==
  ASSUME EditInv, NEW r, NEW l, OpenedAt(r, l),
         \/ model' = model
         \/ model'.uid = model.uid /\ model'.gen = model.gen + 1
         \/ model'.uid = model.uid + 1
  PROVE  OpenedAt(r, l)'
  BY DEF EditInv, OpenedAt

\* What EditsKept says of a step.
KeptNow == saving.on /\ model' # model /\ foreignEdits' = foreignEdits => model.local = saving.from

LEMMA EditStep ==
  ASSUME EditInv, [ModelEditNext]_editVars
  PROVE  EditInv' /\ KeptNow
<1>0. /\ DOMAIN model = {"uid", "gen", "local"} /\ model.uid \in Nat /\ model.gen \in Nat
      /\ DOMAIN editor = {"open", "of", "initial", "draft", "revision"}
      /\ DOMAIN estimated = {"state", "of"} /\ estimated.state \in {"off", "fetching", "ready", "error"} /\ foreignEdits \in Nat
  BY DEF EditInv
<1>1. ASSUME model' = model, foreignEdits' = foreignEdits, DOMAIN editor' = DOMAIN editor,
             DOMAIN estimated' = DOMAIN estimated, estimated'.state \in {"off", "fetching", "ready", "error"},
             editor'.open => /\ editor.open /\ editor'.revision = editor.revision /\ editor'.of = editor.of
                             /\ estimated'.state # "off"
                             /\ estimated'.state = "ready" => EstimateKey(estimated'.of) = EstimateKey(editor'.draft),
             saving'.on => /\ saving' = saving /\ editor' = editor
                           /\ EstimateKey(estimated'.of) \in {EstimateKey(estimated.of), EstimateKey(editor.draft)}
      PROVE  EditInv' /\ KeptNow
  <2>1. \A r, l : OpenedAt(r, l) => OpenedAt(r, l)'
    BY <1>1, OpenedStays
  <2>2. editor'.open => OpenedAt(editor.revision, editor.of)'
    BY <1>1, <2>1 DEF EditInv
  <2>3. saving'.on => OpenedAt(saving.revision, saving.from)'
    BY <1>1, <2>1 DEF EditInv
  <2> QED
    BY <1>0, <1>1, <2>2, <2>3 DEF EditInv, OpenedAt, KeptNow
<1>2. CASE OpenEditor
  <2> DEFINE d == InitialLocalModelDraft(model.local)
             r == ModelEditRevision(model)
  <2>1. /\ editor' = [open |-> TRUE, of |-> model.local, initial |-> d, draft |-> d, revision |-> r]
        /\ estimated' = [state |-> "fetching", of |-> d] /\ UNCHANGED <<model, saving, foreignEdits>> /\ ~saving.on
    BY <1>2 DEF OpenEditor
  <2>2. OpenedAt(r, model.local)
    BY <1>0 DEF OpenedAt, ModelEditRevision
  <2>3. OpenedAt(r, model.local)'
    BY <2>1, <2>2, OpenedStays
  <2> HIDE DEF d, r
  <2>4. /\ DOMAIN editor' = DOMAIN editor /\ DOMAIN estimated' = DOMAIN estimated /\ estimated'.state = "fetching"
        /\ editor'.revision = r /\ editor'.of = model.local
    BY <1>0, <2>1
  <2>5. OpenedAt(editor.revision, editor.of)'
    BY <2>1, <2>2, <2>4 DEF OpenedAt
  <2> QED
    BY <1>0, <2>1, <2>4, <2>5 DEF EditInv, KeptNow, OpenedAt
<1>3. CASE CloseEditor
  <2>1. editor' = NoEditor /\ UNCHANGED <<model, saving, foreignEdits>> /\ ~saving.on /\ estimated' = [state |-> "off", of |-> Draft0]
    BY <1>3 DEF CloseEditor
  <2>2. DOMAIN NoEditor = {"open", "of", "initial", "draft", "revision"} /\ NoEditor.open = FALSE
    BY DEF NoEditor
  <2>3. DOMAIN estimated' = {"state", "of"} /\ estimated'.state = "off"
    BY <2>1
  <2> QED
    BY <1>0, <1>1, <2>1, <2>2, <2>3
<1>4. CASE EditDraft
  <2>1. PICK d : UpdateDraft(d)
    BY <1>4 DEF EditDraft, SetField, SelectGpuKeys, SelectDeployment
  <2>2. editor' = [editor EXCEPT !.draft = d] /\ estimated' = EstimateQuery(d) /\ UNCHANGED <<model, saving, foreignEdits>>
        /\ ~saving.on /\ editor.open
    BY <1>4, <2>1 DEF UpdateDraft, EditDraft
  <2>3. DOMAIN editor' = DOMAIN editor /\ editor'.revision = editor.revision /\ editor'.of = editor.of /\ editor'.draft = d
    BY <1>0, <2>2
  <2>4. /\ DOMAIN estimated' = DOMAIN estimated /\ estimated'.state \in {"fetching", "ready", "error"}
        /\ estimated'.state = "ready" => EstimateKey(estimated'.of) = EstimateKey(d)
    <3>1. CASE EstimateKey(d) = EstimateKey(editor.draft)
      BY <1>0, <2>2, <3>1 DEF EstimateQuery, EditInv
    <3>2. CASE EstimateKey(d) # EstimateKey(editor.draft)
      BY <1>0, <2>2, <3>2 DEF EstimateQuery
    <3> QED
      BY <3>1, <3>2
  <2> QED
    BY <1>1, <2>2, <2>3, <2>4
<1>5. CASE EstimateAnswers
  <2>1. /\ DOMAIN estimated' = DOMAIN estimated /\ estimated'.state = "ready" /\ estimated'.of = editor.draft
        /\ UNCHANGED <<model, editor, saving, foreignEdits>>
    BY <1>0, <1>5 DEF EstimateAnswers
  <2> QED
    BY <1>1, <2>1
<1>6. CASE EstimateFails \/ EstimateRefetched
  <2>1. /\ DOMAIN estimated' = DOMAIN estimated /\ estimated'.state \in {"error", "fetching"} /\ estimated'.of = estimated.of
        /\ UNCHANGED <<model, editor, saving, foreignEdits>>
    BY <1>0, <1>6 DEF EstimateFails, EstimateRefetched
  <2> QED
    BY <1>1, <2>1
<1>7. CASE SaveModel
  <2> DEFINE c == Changes
  <2>1. /\ saving' = [on |-> TRUE, revision |-> editor.revision, changes |-> c, from |-> editor.of, meant |-> editor.draft]
        /\ UNCHANGED <<model, editor, estimated, foreignEdits>> /\ editor.open /\ estimated.state \notin {"fetching", "error"} /\ ~saving.on
    BY <1>7 DEF SaveModel, ExpectedModelRevision, Busy
  <2>2. OpenedAt(editor.revision, editor.of) /\ EstimateKey(estimated.of) = EstimateKey(editor.draft)
    BY <2>1 DEF EditInv
  <2> HIDE DEF c
  <2>3. saving'.revision = editor.revision /\ saving'.from = editor.of /\ saving'.meant = editor.draft
    BY <2>1
  <2> QED
    BY <1>0, <2>1, <2>2, <2>3 DEF EditInv, OpenedAt, KeptNow
<1>8. CASE ModelUpdated
  <2> DEFINE p == PatchModelConfiguration(model.local, ModelActivationPayload(MergedLocalModelSettings(model.local, saving.changes)))
             n == model.gen + 1
  <2>1. model' = [model EXCEPT !.gen = n, !.local = p]
    BY <1>8 DEF ModelUpdated
  <2>2. editor' = NoEditor /\ saving' = NoSave /\ estimated' = [state |-> "off", of |-> Draft0]
        /\ foreignEdits' = foreignEdits
    BY <1>8 DEF ModelUpdated
  <2>3. saving.on /\ saving.revision = <<model.uid, model.gen>>
    BY <1>8 DEF ModelUpdated, ModelEditRevision
  <2>4. model.local = saving.from
    BY <1>0, <2>3 DEF EditInv, OpenedAt
  <2> HIDE DEF p
  <2>5. DOMAIN model' = {"uid", "gen", "local"} /\ model'.uid \in Nat /\ model'.gen \in Nat
    BY <1>0, <2>1
  <2>6. DOMAIN NoEditor = {"open", "of", "initial", "draft", "revision"} /\ NoEditor.open = FALSE /\ NoSave.on = FALSE
    BY DEF NoEditor, NoSave
  <2>7. DOMAIN estimated' = {"state", "of"} /\ estimated'.state = "off"
    BY <2>2
  <2> QED
    BY <2>2, <2>4, <2>5, <2>6, <2>7 DEF EditInv, KeptNow
<1>9. CASE ModelConflict \/ ModelRefused
  <2>1. saving' = NoSave /\ UNCHANGED <<model, editor, estimated, foreignEdits>> /\ NoSave.on = FALSE
    BY <1>9 DEF ModelConflict, ModelRefused, NoSave
  <2>2. editor.open => /\ estimated.state # "off"
                       /\ estimated.state = "ready" => EstimateKey(estimated.of) = EstimateKey(editor.draft)
    BY DEF EditInv
  <2> QED
    BY <1>0, <1>1, <2>1, <2>2
<1>10. CASE ForeignChange
  <2> DEFINE o == Over(model.local, Set("contextWindow", 2))
             n == model.gen + 1
  <2>1. model' \in {[model EXCEPT !.gen = n, !.local = o], [uid |-> model.uid + 1, gen |-> 1, local |-> o]}
    BY <1>10 DEF ForeignChange
  <2>2. UNCHANGED <<editor, estimated, saving>> /\ foreignEdits' \in Nat /\ foreignEdits' # foreignEdits
    BY <1>0, <1>10 DEF ForeignChange
  <2> HIDE DEF o
  <2>3. /\ DOMAIN model' = {"uid", "gen", "local"} /\ model'.uid \in Nat /\ model'.gen \in Nat
        /\ (model'.uid = model.uid /\ model'.gen = model.gen + 1) \/ model'.uid = model.uid + 1
    <3>1. CASE model' = [model EXCEPT !.gen = n, !.local = o]
      BY <1>0, <3>1
    <3>2. CASE model' = [uid |-> model.uid + 1, gen |-> 1, local |-> o]
      BY <1>0, <3>2
    <3> QED
      BY <2>1, <3>1, <3>2
  <2>4. \A r, l : OpenedAt(r, l) => OpenedAt(r, l)'
    BY <2>3, OpenedStays
  <2> QED
    BY <2>2, <2>3, <2>4 DEF EditInv, KeptNow, OpenedAt
<1>11. CASE UNCHANGED editVars
  <2>1. UNCHANGED <<model, editor, estimated, saving, foreignEdits>>
    BY <1>11 DEF editVars
  <2> QED
    BY <2>1 DEF EditInv, KeptNow, OpenedAt
<1> QED
  BY <1>2, <1>3, <1>4, <1>5, <1>6, <1>7, <1>8, <1>9, <1>10, <1>11 DEF ModelEditNext

LEMMA EditStart ==
  ASSUME ModelEditInit
  PROVE  EditInv
<1>1. PICK l : model = [uid |-> 1, gen |-> 1, local |-> l]
  BY DEF ModelEditInit
<1>2. editor = NoEditor /\ saving = NoSave /\ estimated = [state |-> "off", of |-> Draft0]
  BY DEF ModelEditInit
<1>3. DOMAIN NoEditor = {"open", "of", "initial", "draft", "revision"} /\ NoEditor.open = FALSE /\ NoSave.on = FALSE
  BY DEF NoEditor, NoSave
<1>4. DOMAIN estimated = {"state", "of"} /\ estimated.state = "off" /\ foreignEdits \in Nat
  BY <1>2 DEF ModelEditInit
<1>5. DOMAIN model = {"uid", "gen", "local"} /\ model.uid \in Nat /\ model.gen \in Nat
  BY <1>1
<1> QED
  BY <1>2, <1>3, <1>4, <1>5 DEF EditInv

LEMMA EditSound ==
  ASSUME EditInv
  PROVE  SavedAsEstimated
  BY DEF EditInv, SavedAsEstimated

\* On the behaviours of the model form alone: a change is applied to the very
\* settings the form was opened with, and its figures are those of the draft that
\* is sent (expectedRevision, useQuery keyed by the draft).
THEOREM EditsStayKept == ModelEditSpec => EditsKept /\ []SavedAsEstimated
<1>1. ModelEditInit => EditInv
  BY EditStart
<1>2. EditInv /\ [ModelEditNext]_editVars => EditInv'
  BY EditStep
<1>3. EditInv /\ [ModelEditNext]_editVars =>
        [saving.on /\ model' # model /\ foreignEdits' = foreignEdits => model.local = saving.from]_editVars
  BY EditStep DEF KeptNow
<1>4. EditInv => SavedAsEstimated
  BY EditSound
<1> QED
  BY <1>1, <1>2, <1>3, <1>4, PTL DEF ModelEditSpec, EditsKept

(***************************************************************************)
(* Drafts, settings and changes of a deployed model.                       *)
(***************************************************************************)
DraftKeys == {"contextWindow", "maxOutputTokens", "cpu", "selectedMi", "hostMemoryMi", "cpuOffloading", "gpuDevices",
              "gpuDeployment", "parallelism", "vision"}
DraftOk(d) ==
  /\ DOMAIN d = DraftKeys /\ d.contextWindow # 0 /\ d.selectedMi # 0 /\ d.cpuOffloading \in BOOLEAN /\ d.gpuDevices \in Lists
LocalOk(l) ==
  /\ "contextWindow" \in DOMAIN l => l["contextWindow"] # 0
  /\ "vramMi" \in DOMAIN l => l["vramMi"] # 0
  /\ "cpuOffloading" \in DOMAIN l => l["cpuOffloading"] \in BOOLEAN
  /\ "gpuDevices" \in DOMAIN l => l["gpuDevices"] \in Lists
  /\ "gpuDevice" \in DOMAIN l => l["gpuDevice"] \in Cards

\* A device list is empty, names one card or two.
LEMMA ListsAre ==
  ASSUME NEW l \in Lists
  PROVE  /\ Len(l) \in {0, 1, 2} /\ (Len(l) = 0 <=> l = <<>>)
         /\ Len(l) = 1 => l[1] \in Cards /\ l = <<l[1]>>
<1>1. CASE l = <<>>
  BY <1>1
<1>2. CASE \E c \in Cards : l = <<c>>
  BY <1>2
<1>3. CASE l \in {p \in Cards \X Cards : p[1] # p[2]}
  <2>1. PICK a, b : l = <<a, b>>
    BY <1>3
  <2> QED
    BY <2>1
<1> QED
  BY <1>1, <1>2, <1>3 DEF Lists

LEMMA OverAt ==
  ASSUME NEW a, NEW b
  PROVE  /\ DOMAIN Over(a, b) = DOMAIN a \cup DOMAIN b
         /\ \A k \in DOMAIN b : Over(a, b)[k] = b[k]
         /\ \A k \in DOMAIN a : k \notin DOMAIN b => Over(a, b)[k] = a[k]
BY DEF Over

LEMMA SetAt == \A k, v : DOMAIN Set(k, v) = {k} /\ Set(k, v)[k] = v
BY DEF Set

LEMMA NoneAt == DOMAIN None = {}
BY DEF None

LEMMA WhenAt ==
  ASSUME NEW c \in BOOLEAN, NEW s
  PROVE  (c => When(c, s) = s) /\ (~c => When(c, s) = None)
BY DEF When

LEMMA ClearAt ==
  ASSUME NEW c \in BOOLEAN, NEW k
  PROVE  (c => Clear(c, k) = {k}) /\ (~c => Clear(c, k) = {})
BY DEF Clear

\* The settings of the devices.
LEMMA GpuAt ==
  ASSUME NEW d, d.gpuDevices \in Lists
  PROVE  LET g == GpuSettings(d) IN
         /\ Len(d.gpuDevices) = 0 => DOMAIN g = {}
         /\ Len(d.gpuDevices) = 1 => DOMAIN g = {"gpuDevice", "gpuDeployment"} /\ g["gpuDevice"] = d.gpuDevices[1]
                                     /\ g["gpuDeployment"] = d.gpuDeployment
         /\ Len(d.gpuDevices) = 2 => DOMAIN g = {"gpuDevices", "gpuDeployment"} /\ g["gpuDevices"] = d.gpuDevices
                                     /\ g["gpuDeployment"] = d.gpuDeployment
<1> DEFINE g == GpuSettings(d)
<1>1. Len(d.gpuDevices) \in {0, 1, 2}
  BY ListsAre
<1>2. CASE Len(d.gpuDevices) = 0
  <2>1. g = None
    BY <1>2 DEF GpuSettings
  <2> QED
    BY <1>2, <2>1, NoneAt
<1>3. CASE Len(d.gpuDevices) = 1
  <2>1. g = Over(Set("gpuDevice", d.gpuDevices[1]), Set("gpuDeployment", d.gpuDeployment))
    BY <1>3 DEF GpuSettings
  <2> DEFINE a == Set("gpuDevice", d.gpuDevices[1])
             b == Set("gpuDeployment", d.gpuDeployment)
  <2>2. DOMAIN a = {"gpuDevice"} /\ a["gpuDevice"] = d.gpuDevices[1] /\ DOMAIN b = {"gpuDeployment"} /\ b["gpuDeployment"] = d.gpuDeployment
    BY SetAt
  <2> HIDE DEF a, b
  <2>3. /\ DOMAIN Over(a, b) = DOMAIN a \cup DOMAIN b /\ \A k \in DOMAIN b : Over(a, b)[k] = b[k]
        /\ \A k \in DOMAIN a : k \notin DOMAIN b => Over(a, b)[k] = a[k]
    BY OverAt
  <2>4. g = Over(a, b)
    BY <2>1 DEF a, b
  <2> HIDE DEF g
  <2> QED
    BY <1>3, <2>2, <2>3, <2>4 DEF g
<1>4. CASE Len(d.gpuDevices) = 2
  <2>1. g = Over(Set("gpuDevices", d.gpuDevices), Set("gpuDeployment", d.gpuDeployment))
    BY <1>4 DEF GpuSettings
  <2> DEFINE a == Set("gpuDevices", d.gpuDevices)
             b == Set("gpuDeployment", d.gpuDeployment)
  <2>2. DOMAIN a = {"gpuDevices"} /\ a["gpuDevices"] = d.gpuDevices /\ DOMAIN b = {"gpuDeployment"} /\ b["gpuDeployment"] = d.gpuDeployment
    BY SetAt
  <2> HIDE DEF a, b
  <2>3. /\ DOMAIN Over(a, b) = DOMAIN a \cup DOMAIN b /\ \A k \in DOMAIN b : Over(a, b)[k] = b[k]
        /\ \A k \in DOMAIN a : k \notin DOMAIN b => Over(a, b)[k] = a[k]
    BY OverAt
  <2>4. g = Over(a, b)
    BY <2>1 DEF a, b
  <2> HIDE DEF g
  <2> QED
    BY <1>4, <2>2, <2>3, <2>4 DEF g
<1> QED
  BY <1>1, <1>2, <1>3, <1>4

LEMMA VllmAt ==
  ASSUME NEW d, d.gpuDevices \in Lists
  PROVE  LET v == VllmSettings(d) IN
         /\ "visionAttention" \in DOMAIN v /\ v["visionAttention"] = d.vision
         /\ "parallelism" \in DOMAIN v <=> Split(d)
         /\ Split(d) => v["parallelism"] = d.parallelism
<1>1. Split(d) \in BOOLEAN
  BY DEF Split
<1>2. CASE Split(d)
  <2>1. VllmSettings(d) = Over(Set("visionAttention", d.vision), Set("parallelism", d.parallelism))
    BY <1>1, <1>2, WhenAt DEF VllmSettings
  <2> DEFINE a == Set("visionAttention", d.vision)
             b == Set("parallelism", d.parallelism)
  <2>2. DOMAIN a = {"visionAttention"} /\ a["visionAttention"] = d.vision /\ DOMAIN b = {"parallelism"} /\ b["parallelism"] = d.parallelism
    BY SetAt
  <2> HIDE DEF a, b
  <2>3. /\ DOMAIN Over(a, b) = DOMAIN a \cup DOMAIN b /\ \A k \in DOMAIN b : Over(a, b)[k] = b[k]
        /\ \A k \in DOMAIN a : k \notin DOMAIN b => Over(a, b)[k] = a[k]
    BY OverAt
  <2>4. VllmSettings(d) = Over(a, b)
    BY <2>1 DEF a, b
  <2> QED
    BY <1>2, <2>2, <2>3, <2>4
<1>3. CASE ~Split(d)
  <2>1. VllmSettings(d) = Over(Set("visionAttention", d.vision), None)
    BY <1>1, <1>3, WhenAt DEF VllmSettings
  <2> DEFINE a == Set("visionAttention", d.vision)
  <2>2. DOMAIN a = {"visionAttention"} /\ a["visionAttention"] = d.vision
    BY SetAt
  <2> HIDE DEF a
  <2>3. /\ DOMAIN Over(a, None) = DOMAIN a \cup DOMAIN None
        /\ \A k \in DOMAIN a : k \notin DOMAIN None => Over(a, None)[k] = a[k]
    BY OverAt
  <2>4. VllmSettings(d) = Over(a, None)
    BY <2>1 DEF a
  <2> QED
    BY <1>3, <2>2, <2>3, <2>4, NoneAt
<1> QED
  BY <1>2, <1>3

\* What the form creates of a draft, key by key.
LEMMA PayloadAt ==
  ASSUME NEW d, DraftOk(d)
  PROVE  LET p == LocalModelCreatePayload(d) IN
         /\ {"contextWindow", "vramMi", "vllm", "cpuOffloading"} \subseteq DOMAIN p
         /\ p["contextWindow"] = d.contextWindow /\ p["vramMi"] = d.selectedMi
         /\ p["vllm"] = VllmSettings(d) /\ p["cpuOffloading"] = d.cpuOffloading
         /\ "gpuDevices" \in DOMAIN p <=> Len(d.gpuDevices) = 2
         /\ "gpuDevice" \in DOMAIN p <=> Len(d.gpuDevices) = 1
         /\ "gpuDeployment" \in DOMAIN p <=> Len(d.gpuDevices) # 0
         /\ Len(d.gpuDevices) = 2 => p["gpuDevices"] = d.gpuDevices
         /\ Len(d.gpuDevices) = 1 => p["gpuDevice"] = d.gpuDevices[1]
         /\ Len(d.gpuDevices) # 0 => p["gpuDeployment"] = d.gpuDeployment
         /\ "memoryRequiredMi" \in DOMAIN p <=> NeedsHostRam(d)
         /\ NeedsHostRam(d) => p["memoryRequiredMi"] = d.hostMemoryMi
         /\ "maxOutputTokens" \in DOMAIN p <=> d.maxOutputTokens # 0
         /\ d.maxOutputTokens # 0 => p["maxOutputTokens"] = d.maxOutputTokens
         /\ "cpuResources" \in DOMAIN p <=> d.cpu # 0
         /\ d.cpu # 0 => p["cpuResources"] = d.cpu
<1> DEFINE r == [contextWindow |-> d.contextWindow, vramMi |-> d.selectedMi,
                 vllm |-> VllmSettings(d), cpuOffloading |-> d.cpuOffloading]
           g == GpuSettings(d)
           h == When(NeedsHostRam(d), Set("memoryRequiredMi", d.hostMemoryMi))
           m == When(d.maxOutputTokens # 0, Set("maxOutputTokens", d.maxOutputTokens))
           c == When(d.cpu # 0, Set("cpuResources", d.cpu))
           p == LocalModelCreatePayload(d)
<1>1. p = Over(Over(Over(Over(r, g), h), m), c)
  BY DEF LocalModelCreatePayload
<1>2. /\ DOMAIN r = {"contextWindow", "vramMi", "vllm", "cpuOffloading"}
      /\ r["contextWindow"] = d.contextWindow /\ r["vramMi"] = d.selectedMi
      /\ r["vllm"] = VllmSettings(d) /\ r["cpuOffloading"] = d.cpuOffloading
  OBVIOUS
<1>3. /\ Len(d.gpuDevices) \in {0, 1, 2}
      /\ Len(d.gpuDevices) = 0 => DOMAIN g = {}
      /\ Len(d.gpuDevices) = 1 => DOMAIN g = {"gpuDevice", "gpuDeployment"} /\ g["gpuDevice"] = d.gpuDevices[1]
                                  /\ g["gpuDeployment"] = d.gpuDeployment
      /\ Len(d.gpuDevices) = 2 => DOMAIN g = {"gpuDevices", "gpuDeployment"} /\ g["gpuDevices"] = d.gpuDevices
                                  /\ g["gpuDeployment"] = d.gpuDeployment
  BY GpuAt, ListsAre DEF DraftOk
<1>4. /\ NeedsHostRam(d) => DOMAIN h = {"memoryRequiredMi"} /\ h["memoryRequiredMi"] = d.hostMemoryMi
      /\ ~NeedsHostRam(d) => DOMAIN h = {}
  <2>1. NeedsHostRam(d) \in BOOLEAN
    BY DEF NeedsHostRam
  <2> QED
    BY <2>1, WhenAt, SetAt, NoneAt
<1>5. /\ d.maxOutputTokens # 0 => DOMAIN m = {"maxOutputTokens"} /\ m["maxOutputTokens"] = d.maxOutputTokens
      /\ ~(d.maxOutputTokens # 0) => DOMAIN m = {}
  BY WhenAt, SetAt, NoneAt
<1>6. /\ d.cpu # 0 => DOMAIN c = {"cpuResources"} /\ c["cpuResources"] = d.cpu
      /\ ~(d.cpu # 0) => DOMAIN c = {}
  BY WhenAt, SetAt, NoneAt
<1> HIDE DEF r, g, h, m, c
<1>7. /\ DOMAIN p = DOMAIN r \cup DOMAIN g \cup DOMAIN h \cup DOMAIN m \cup DOMAIN c
      /\ \A k \in DOMAIN c : p[k] = c[k]
      /\ \A k \in DOMAIN m : k \notin DOMAIN c => p[k] = m[k]
      /\ \A k \in DOMAIN h : k \notin DOMAIN c \cup DOMAIN m => p[k] = h[k]
      /\ \A k \in DOMAIN g : k \notin DOMAIN c \cup DOMAIN m \cup DOMAIN h => p[k] = g[k]
      /\ \A k \in DOMAIN r : k \notin DOMAIN c \cup DOMAIN m \cup DOMAIN h \cup DOMAIN g => p[k] = r[k]
  <2> DEFINE o1 == Over(r, g)
             o2 == Over(o1, h)
             o3 == Over(o2, m)
  <2>1. /\ DOMAIN o1 = DOMAIN r \cup DOMAIN g /\ \A k \in DOMAIN g : o1[k] = g[k]
        /\ \A k \in DOMAIN r : k \notin DOMAIN g => o1[k] = r[k]
    BY OverAt
  <2>2. /\ DOMAIN o2 = DOMAIN o1 \cup DOMAIN h /\ \A k \in DOMAIN h : o2[k] = h[k]
        /\ \A k \in DOMAIN o1 : k \notin DOMAIN h => o2[k] = o1[k]
    BY OverAt
  <2>3. /\ DOMAIN o3 = DOMAIN o2 \cup DOMAIN m /\ \A k \in DOMAIN m : o3[k] = m[k]
        /\ \A k \in DOMAIN o2 : k \notin DOMAIN m => o3[k] = o2[k]
    BY OverAt
  <2>0. p = Over(o3, c)
    BY <1>1
  <2> HIDE DEF o1, o2, o3, p
  <2>5. /\ DOMAIN Over(o3, c) = DOMAIN o3 \cup DOMAIN c /\ \A k \in DOMAIN c : Over(o3, c)[k] = c[k]
        /\ \A k \in DOMAIN o3 : k \notin DOMAIN c => Over(o3, c)[k] = o3[k]
    BY OverAt
  <2>4. /\ DOMAIN p = DOMAIN o3 \cup DOMAIN c /\ \A k \in DOMAIN c : p[k] = c[k]
        /\ \A k \in DOMAIN o3 : k \notin DOMAIN c => p[k] = o3[k]
    BY ONLY <2>0, <2>5
  <2> QED
    BY <2>1, <2>2, <2>3, <2>4
<1> HIDE DEF p
<1>8. DOMAIN h \subseteq {"memoryRequiredMi"} /\ DOMAIN m \subseteq {"maxOutputTokens"} /\ DOMAIN c \subseteq {"cpuResources"}
      /\ DOMAIN g \subseteq {"gpuDevice", "gpuDevices", "gpuDeployment"}
  BY <1>3, <1>4, <1>5, <1>6
<1>9. /\ {"contextWindow", "vramMi", "vllm", "cpuOffloading"} \subseteq DOMAIN p
      /\ p["contextWindow"] = d.contextWindow /\ p["vramMi"] = d.selectedMi
      /\ p["vllm"] = VllmSettings(d) /\ p["cpuOffloading"] = d.cpuOffloading
  BY <1>2, <1>7, <1>8
<1>10. /\ "gpuDevices" \in DOMAIN p <=> Len(d.gpuDevices) = 2
       /\ "gpuDevice" \in DOMAIN p <=> Len(d.gpuDevices) = 1
       /\ "gpuDeployment" \in DOMAIN p <=> Len(d.gpuDevices) # 0
       /\ Len(d.gpuDevices) = 2 => p["gpuDevices"] = d.gpuDevices
       /\ Len(d.gpuDevices) = 1 => p["gpuDevice"] = d.gpuDevices[1]
       /\ Len(d.gpuDevices) # 0 => p["gpuDeployment"] = d.gpuDeployment
  BY <1>2, <1>3, <1>7, <1>8
<1>11. /\ "memoryRequiredMi" \in DOMAIN p <=> NeedsHostRam(d)
       /\ NeedsHostRam(d) => p["memoryRequiredMi"] = d.hostMemoryMi
  BY <1>2, <1>4, <1>7, <1>8
<1>12. /\ "maxOutputTokens" \in DOMAIN p <=> d.maxOutputTokens # 0
       /\ d.maxOutputTokens # 0 => p["maxOutputTokens"] = d.maxOutputTokens
       /\ "cpuResources" \in DOMAIN p <=> d.cpu # 0
       /\ d.cpu # 0 => p["cpuResources"] = d.cpu
  BY <1>2, <1>5, <1>6, <1>7, <1>8
<1> QED
  BY <1>9, <1>10, <1>11, <1>12 DEF p

\* A setting that is sent under a condition.
Offers(s, c, key, value) == DOMAIN s \subseteq {key} /\ (key \in DOMAIN s <=> c) /\ (c => s[key] = value)

LEMMA OffersWhen ==
  ASSUME NEW c \in BOOLEAN, NEW key, NEW value
  PROVE  Offers(When(c, Set(key, value)), c, key, value)
<1>1. CASE c
  <2>1. When(c, Set(key, value)) = Set(key, value)
    BY <1>1, WhenAt
  <2> DEFINE f == Set(key, value)
  <2>2. DOMAIN f = {key} /\ f[key] = value
    BY SetAt
  <2> HIDE DEF f
  <2>3. Offers(f, c, key, value)
    BY <1>1, <2>2 DEF Offers
  <2> QED
    BY <2>1, <2>3 DEF f
<1>2. CASE ~c
  BY <1>2, WhenAt, NoneAt DEF Offers
<1> QED
  BY <1>1, <1>2

\* Settings with no key in common, together.
Joins(s, a, b) ==
  DOMAIN s = DOMAIN a \cup DOMAIN b /\ (\A k \in DOMAIN a : s[k] = a[k]) /\ (\A k \in DOMAIN b : s[k] = b[k])

LEMMA OverApart ==
  ASSUME NEW a, NEW b, DOMAIN a \cap DOMAIN b = {}
  PROVE  Joins(Over(a, b), a, b)
<1>1. /\ DOMAIN Over(a, b) = DOMAIN a \cup DOMAIN b
      /\ \A k \in DOMAIN b : Over(a, b)[k] = b[k]
      /\ \A k \in DOMAIN a : k \notin DOMAIN b => Over(a, b)[k] = a[k]
  BY OverAt
<1> QED
  BY <1>1 DEF Joins

LEMMA BothAt == \A a, b : Both(a, b).set = Over(a.set, b.set) /\ Both(a, b).clear = a.clear \cup b.clear
BY DEF Both, Change

LEMMA ChangeFields == \A s, c : Change(s, c).set = s /\ Change(s, c).clear = c
BY DEF Change

FieldSet(i, d, field, key) == When(d[field] # i[field] /\ d[field] # 0, Set(key, d[field]))
FieldClear(i, d, field, key) == Clear(d[field] # i[field] /\ d[field] = 0, key)

LEMMA FieldAt ==
  ASSUME NEW i, NEW d, NEW field, NEW key
  PROVE  /\ Field(i, d, field, key).set = FieldSet(i, d, field, key)
         /\ Field(i, d, field, key).clear = FieldClear(i, d, field, key)
         /\ Offers(FieldSet(i, d, field, key), d[field] # i[field] /\ d[field] # 0, key, d[field])
         /\ FieldClear(i, d, field, key) \subseteq {key}
         /\ key \in FieldClear(i, d, field, key) <=> d[field] # i[field] /\ d[field] = 0
<1>1. /\ Field(i, d, field, key).set = FieldSet(i, d, field, key)
      /\ Field(i, d, field, key).clear = FieldClear(i, d, field, key)
  BY ChangeFields DEF Field, FieldSet, FieldClear
<1>2. Offers(FieldSet(i, d, field, key), d[field] # i[field] /\ d[field] # 0, key, d[field])
  <2> DEFINE c == d[field] # i[field] /\ d[field] # 0
             v == d[field]
  <2>1. c \in BOOLEAN
    OBVIOUS
  <2> HIDE DEF c, v
  <2>2. Offers(When(c, Set(key, v)), c, key, v)
    BY <2>1, OffersWhen
  <2> QED
    BY <2>2 DEF c, v, FieldSet
<1>3. /\ FieldClear(i, d, field, key) \subseteq {key}
      /\ key \in FieldClear(i, d, field, key) <=> d[field] # i[field] /\ d[field] = 0
  BY DEF FieldClear, Clear
<1> QED
  BY <1>1, <1>2, <1>3

GpuKeys == {"gpuDevices", "gpuDevice", "gpuDeployment"}
GpuSame(i, d) == d.gpuDevices = i.gpuDevices /\ d.gpuDeployment = i.gpuDeployment
HostRamSent(i, d) ==
  NeedsHostRam(d) /\ \E k \in {"hostMemoryMi", "cpuOffloading", "gpuDevices"} : d[k] # i[k]
VllmSent(i, d) ==
  \/ d.vision # i.vision
  \/ /\ \E k \in {"gpuDevices", "gpuDeployment", "parallelism"} : d[k] # i[k]
     /\ Len(d.gpuDevices) > 1 \/ Len(i.gpuDevices) > 1

\* The changes between two drafts, key by key.
ChangeIs(s, c, i, d) ==
  /\ "contextWindow" \in DOMAIN s <=> d.contextWindow # i.contextWindow
  /\ "contextWindow" \in DOMAIN s => s["contextWindow"] = d.contextWindow
  /\ "vramMi" \in DOMAIN s <=> d.selectedMi # i.selectedMi
  /\ "vramMi" \in DOMAIN s => s["vramMi"] = d.selectedMi
  /\ "maxOutputTokens" \in DOMAIN s <=> d.maxOutputTokens # i.maxOutputTokens /\ d.maxOutputTokens # 0
  /\ "maxOutputTokens" \in DOMAIN s => s["maxOutputTokens"] = d.maxOutputTokens
  /\ "maxOutputTokens" \in c <=> d.maxOutputTokens # i.maxOutputTokens /\ d.maxOutputTokens = 0
  /\ "cpuResources" \in DOMAIN s <=> d.cpu # i.cpu /\ d.cpu # 0
  /\ "cpuResources" \in DOMAIN s => s["cpuResources"] = d.cpu
  /\ "cpuResources" \in c <=> d.cpu # i.cpu /\ d.cpu = 0
  /\ "cpuOffloading" \in DOMAIN s <=> d.cpuOffloading # i.cpuOffloading
  /\ "cpuOffloading" \in DOMAIN s => s["cpuOffloading"] = d.cpuOffloading
  /\ \A k \in GpuKeys : k \in DOMAIN s <=> ~GpuSame(i, d) /\ k \in DOMAIN GpuSettings(d)
  /\ \A k \in GpuKeys : k \in DOMAIN s => s[k] = GpuSettings(d)[k]
  /\ "gpuDeployment" \in c <=> ~GpuSame(i, d) /\ Len(d.gpuDevices) = 0
  /\ "gpuDevice" \in c <=> ~GpuSame(i, d) /\ Len(i.gpuDevices) <= 1 /\ Len(d.gpuDevices) # 1
  /\ "gpuDevices" \in c <=> ~GpuSame(i, d) /\ Len(i.gpuDevices) > 1 /\ Len(d.gpuDevices) < 2
  /\ "memoryRequiredMi" \in DOMAIN s <=> HostRamSent(i, d)
  /\ "memoryRequiredMi" \in DOMAIN s => s["memoryRequiredMi"] = d.hostMemoryMi
  /\ "memoryRequiredMi" \in c <=> ~NeedsHostRam(d) /\ NeedsHostRam(i)
  /\ "vllm" \in DOMAIN s <=> VllmSent(i, d)
  /\ "vllm" \in DOMAIN s => s["vllm"] = VllmSettings(d)
  /\ {"contextWindow", "vramMi", "cpuOffloading", "vllm"} \cap c = {}

LEMMA ChangeAt ==
  ASSUME NEW i, NEW d, DraftOk(i), DraftOk(d)
  PROVE  ChangeIs(LocalModelChanges(i, d).set, LocalModelChanges(i, d).clear, i, d)
<1> DEFINE f1 == FieldSet(i, d, "contextWindow", "contextWindow")
           f2 == FieldSet(i, d, "maxOutputTokens", "maxOutputTokens")
           f3 == FieldSet(i, d, "cpu", "cpuResources")
           f4 == FieldSet(i, d, "selectedMi", "vramMi")
           o == When(d.cpuOffloading # i.cpuOffloading, Set("cpuOffloading", d.cpuOffloading))
           g == GpuChanges(i, d).set
           h == When(HostRamSent(i, d), Set("memoryRequiredMi", d.hostMemoryMi))
           v == When(VllmSent(i, d), Set("vllm", VllmSettings(d)))
           c1 == FieldClear(i, d, "contextWindow", "contextWindow")
           c2 == FieldClear(i, d, "maxOutputTokens", "maxOutputTokens")
           c3 == FieldClear(i, d, "cpu", "cpuResources")
           c4 == FieldClear(i, d, "selectedMi", "vramMi")
           cg == GpuChanges(i, d).clear
           ch == Clear(~NeedsHostRam(d) /\ NeedsHostRam(i), "memoryRequiredMi")
           s == LocalModelChanges(i, d).set
           c == LocalModelChanges(i, d).clear
<1> DEFINE fields == Both(Both(Field(i, d, "contextWindow", "contextWindow"), Field(i, d, "maxOutputTokens", "maxOutputTokens")),
                           Both(Field(i, d, "cpu", "cpuResources"), Field(i, d, "selectedMi", "vramMi")))
           offload == Change(o, {})
           ram == HostRamChanges(i, d)
           vllm == VllmChanges(i, d)
<1>31. LocalModelChanges(i, d) = Both(Both(Both(fields, offload), GpuChanges(i, d)), Both(ram, vllm))
  BY DEF LocalModelChanges
<1>32. ram.set = h /\ ram.clear = ch /\ vllm.set = v /\ vllm.clear = {} /\ offload.set = o /\ offload.clear = {}
  BY ChangeFields DEF HostRamChanges, VllmChanges, HostRamSent, VllmSent
<1>33. fields.set = Over(Over(f1, f2), Over(f3, f4)) /\ fields.clear = (c1 \cup c2) \cup (c3 \cup c4)
  <2>1. /\ Field(i, d, "contextWindow", "contextWindow").set = f1 /\ Field(i, d, "contextWindow", "contextWindow").clear = c1
        /\ Field(i, d, "maxOutputTokens", "maxOutputTokens").set = f2 /\ Field(i, d, "maxOutputTokens", "maxOutputTokens").clear = c2
        /\ Field(i, d, "cpu", "cpuResources").set = f3 /\ Field(i, d, "cpu", "cpuResources").clear = c3
        /\ Field(i, d, "selectedMi", "vramMi").set = f4 /\ Field(i, d, "selectedMi", "vramMi").clear = c4
    BY FieldAt
  <2> HIDE DEF f1, f2, f3, f4, c1, c2, c3, c4
  <2> QED
    BY <2>1, BothAt
<1> HIDE DEF fields, offload, ram, vllm
<1>1. s = Over(Over(Over(Over(Over(f1, f2), Over(f3, f4)), o), g), Over(h, v))
  <2> HIDE DEF f1, f2, f3, f4, o, h, v
  <2> QED
    BY <1>31, <1>32, <1>33, BothAt
<1>2. c = ((((c1 \cup c2) \cup (c3 \cup c4)) \cup {}) \cup cg) \cup (ch \cup {})
  <2> HIDE DEF c1, c2, c3, c4, ch
  <2> QED
    BY <1>31, <1>32, <1>33, BothAt
<1>3. /\ Offers(f1, d.contextWindow # i.contextWindow /\ d.contextWindow # 0, "contextWindow", d.contextWindow)
      /\ Offers(f2, d.maxOutputTokens # i.maxOutputTokens /\ d.maxOutputTokens # 0, "maxOutputTokens", d.maxOutputTokens)
      /\ Offers(f3, d.cpu # i.cpu /\ d.cpu # 0, "cpuResources", d.cpu)
      /\ Offers(f4, d.selectedMi # i.selectedMi /\ d.selectedMi # 0, "vramMi", d.selectedMi)
  BY FieldAt
<1>4. /\ c1 \subseteq {"contextWindow"} /\ ("contextWindow" \in c1 <=> d.contextWindow # i.contextWindow /\ d.contextWindow = 0)
      /\ c2 \subseteq {"maxOutputTokens"}
      /\ ("maxOutputTokens" \in c2 <=> d.maxOutputTokens # i.maxOutputTokens /\ d.maxOutputTokens = 0)
      /\ c3 \subseteq {"cpuResources"} /\ ("cpuResources" \in c3 <=> d.cpu # i.cpu /\ d.cpu = 0)
      /\ c4 \subseteq {"vramMi"} /\ ("vramMi" \in c4 <=> d.selectedMi # i.selectedMi /\ d.selectedMi = 0)
  BY FieldAt
<1>5. Offers(o, d.cpuOffloading # i.cpuOffloading, "cpuOffloading", d.cpuOffloading)
  BY OffersWhen
<1>6. Offers(h, HostRamSent(i, d), "memoryRequiredMi", d.hostMemoryMi)
  <2>1. HostRamSent(i, d) \in BOOLEAN
    BY DEF HostRamSent, NeedsHostRam
  <2> QED
    BY <2>1, OffersWhen
<1>7. Offers(v, VllmSent(i, d), "vllm", VllmSettings(d))
  <2>1. VllmSent(i, d) \in BOOLEAN
    BY DEF VllmSent
  <2> QED
    BY <2>1, OffersWhen
<1>8. ch \subseteq {"memoryRequiredMi"} /\ ("memoryRequiredMi" \in ch <=> ~NeedsHostRam(d) /\ NeedsHostRam(i))
  BY DEF Clear
<1>9. /\ DOMAIN g \subseteq GpuKeys
      /\ \A k \in GpuKeys : k \in DOMAIN g <=> ~GpuSame(i, d) /\ k \in DOMAIN GpuSettings(d)
      /\ \A k \in DOMAIN g : g[k] = GpuSettings(d)[k]
  <2>1. DOMAIN GpuSettings(d) \subseteq GpuKeys
    BY GpuAt, ListsAre DEF DraftOk, GpuKeys
  <2>2. CASE GpuSame(i, d)
    <3>1. g = None
      BY <2>2, ChangeFields DEF GpuSame, GpuChanges
    <3> QED
      BY <2>2, <3>1, NoneAt
  <2>3. CASE ~GpuSame(i, d)
    <3>1. g = GpuSettings(d)
      BY <2>3, ChangeFields DEF GpuSame, GpuChanges
    <3> QED
      BY <2>1, <2>3, <3>1
  <2> QED
    BY <2>2, <2>3
<1>10. /\ cg \subseteq GpuKeys
       /\ "gpuDeployment" \in cg <=> ~GpuSame(i, d) /\ Len(d.gpuDevices) = 0
       /\ "gpuDevice" \in cg <=> ~GpuSame(i, d) /\ Len(i.gpuDevices) <= 1 /\ Len(d.gpuDevices) # 1
       /\ "gpuDevices" \in cg <=> ~GpuSame(i, d) /\ Len(i.gpuDevices) > 1 /\ Len(d.gpuDevices) < 2
  <2>2. CASE GpuSame(i, d)
    <3>1. cg = {}
      BY <2>2, ChangeFields DEF GpuSame, GpuChanges
    <3> QED
      BY <2>2, <3>1
  <2>3. CASE ~GpuSame(i, d)
    <3>1. cg = Clear(Len(d.gpuDevices) = 0, "gpuDeployment")
                \cup Clear(Len(i.gpuDevices) <= 1 /\ Len(d.gpuDevices) # 1, "gpuDevice")
                \cup Clear(Len(i.gpuDevices) > 1 /\ Len(d.gpuDevices) < 2, "gpuDevices")
      BY <2>3, ChangeFields DEF GpuSame, GpuChanges
    <3> QED
      BY <2>3, <3>1 DEF Clear, GpuKeys
  <2> QED
    BY <2>2, <2>3
<1> HIDE DEF f1, f2, f3, f4, o, g, h, v, c1, c2, c3, c4, cg, ch, s, c
<1>11. /\ DOMAIN f1 \subseteq {"contextWindow"} /\ DOMAIN f2 \subseteq {"maxOutputTokens"} /\ DOMAIN f3 \subseteq {"cpuResources"}
       /\ DOMAIN f4 \subseteq {"vramMi"} /\ DOMAIN o \subseteq {"cpuOffloading"} /\ DOMAIN g \subseteq GpuKeys
       /\ DOMAIN h \subseteq {"memoryRequiredMi"} /\ DOMAIN v \subseteq {"vllm"}
  BY <1>3, <1>5, <1>6, <1>7, <1>9 DEF Offers
<1> DEFINE s1 == Over(f1, f2)
           s2 == Over(f3, f4)
           s3 == Over(s1, s2)
           s4 == Over(s3, o)
           s5 == Over(s4, g)
           s6 == Over(h, v)
<1>12. s = Over(s5, s6)
  BY <1>1
<1>13. Joins(s1, f1, f2) /\ Joins(s2, f3, f4) /\ Joins(s6, h, v)
  BY <1>11, OverApart
<1> HIDE DEF s1, s2, s6
<1>14. Joins(s3, s1, s2)
  <2>1. DOMAIN s1 \cap DOMAIN s2 = {}
    BY <1>11, <1>13 DEF Joins
  <2> QED
    BY <2>1, OverApart
<1> HIDE DEF s3
<1>15. Joins(s4, s3, o)
  <2>1. DOMAIN s3 \cap DOMAIN o = {}
    BY <1>11, <1>13, <1>14 DEF Joins
  <2> QED
    BY <2>1, OverApart
<1> HIDE DEF s4
<1>16. Joins(s5, s4, g)
  <2>1. DOMAIN s4 \cap DOMAIN g = {}
    BY <1>11, <1>13, <1>14, <1>15 DEF Joins, GpuKeys
  <2> QED
    BY <2>1, OverApart
<1> HIDE DEF s5
<1>17. Joins(s, s5, s6)
  <2>1. DOMAIN s5 \cap DOMAIN s6 = {}
    BY <1>11, <1>13, <1>14, <1>15, <1>16 DEF Joins, GpuKeys
  <2> QED
    BY <1>12, <2>1, OverApart
<1>18. /\ DOMAIN s = DOMAIN f1 \cup DOMAIN f2 \cup DOMAIN f3 \cup DOMAIN f4 \cup DOMAIN o \cup DOMAIN g \cup DOMAIN h \cup DOMAIN v
       /\ (\A k \in DOMAIN f1 : s[k] = f1[k]) /\ (\A k \in DOMAIN f2 : s[k] = f2[k]) /\ (\A k \in DOMAIN f3 : s[k] = f3[k])
       /\ (\A k \in DOMAIN f4 : s[k] = f4[k]) /\ (\A k \in DOMAIN o : s[k] = o[k]) /\ (\A k \in DOMAIN g : s[k] = g[k])
       /\ (\A k \in DOMAIN h : s[k] = h[k]) /\ (\A k \in DOMAIN v : s[k] = v[k])
  BY <1>13, <1>14, <1>15, <1>16, <1>17 DEF Joins
<1>19. d.contextWindow # 0 /\ d.selectedMi # 0
  BY DEF DraftOk
<1> DEFINE fresh == GpuSame(i, d)
           given == GpuSettings(d)
<1>20. /\ "contextWindow" \in DOMAIN s <=> d.contextWindow # i.contextWindow
       /\ "contextWindow" \in DOMAIN s => s["contextWindow"] = d.contextWindow
       /\ "vramMi" \in DOMAIN s <=> d.selectedMi # i.selectedMi
       /\ "vramMi" \in DOMAIN s => s["vramMi"] = d.selectedMi
  BY <1>3, <1>11, <1>18, <1>19 DEF Offers, GpuKeys
<1>21. /\ "maxOutputTokens" \in DOMAIN s <=> d.maxOutputTokens # i.maxOutputTokens /\ d.maxOutputTokens # 0
       /\ "maxOutputTokens" \in DOMAIN s => s["maxOutputTokens"] = d.maxOutputTokens
       /\ "cpuResources" \in DOMAIN s <=> d.cpu # i.cpu /\ d.cpu # 0
       /\ "cpuResources" \in DOMAIN s => s["cpuResources"] = d.cpu
  BY <1>3, <1>11, <1>18 DEF Offers, GpuKeys
<1>22. /\ "cpuOffloading" \in DOMAIN s <=> d.cpuOffloading # i.cpuOffloading
       /\ "cpuOffloading" \in DOMAIN s => s["cpuOffloading"] = d.cpuOffloading
       /\ "memoryRequiredMi" \in DOMAIN s <=> HostRamSent(i, d)
       /\ "memoryRequiredMi" \in DOMAIN s => s["memoryRequiredMi"] = d.hostMemoryMi
       /\ "vllm" \in DOMAIN s <=> VllmSent(i, d)
       /\ "vllm" \in DOMAIN s => s["vllm"] = VllmSettings(d)
  BY <1>5, <1>6, <1>7, <1>11, <1>18 DEF Offers, GpuKeys
<1> HIDE DEF fresh, given
<1>23. /\ \A k \in GpuKeys : k \in DOMAIN s <=> k \in DOMAIN g
       /\ \A k \in GpuKeys : k \in DOMAIN s => s[k] = g[k]
  BY <1>11, <1>18 DEF GpuKeys
<1>24. /\ \A k \in GpuKeys : k \in DOMAIN s <=> ~GpuSame(i, d) /\ k \in DOMAIN GpuSettings(d)
       /\ \A k \in GpuKeys : k \in DOMAIN s => s[k] = GpuSettings(d)[k]
  BY <1>9, <1>23
<1>25. /\ "maxOutputTokens" \in c <=> d.maxOutputTokens # i.maxOutputTokens /\ d.maxOutputTokens = 0
       /\ "cpuResources" \in c <=> d.cpu # i.cpu /\ d.cpu = 0
       /\ "memoryRequiredMi" \in c <=> ~NeedsHostRam(d) /\ NeedsHostRam(i)
       /\ {"contextWindow", "vramMi", "cpuOffloading", "vllm"} \cap c = {}
  BY <1>2, <1>4, <1>8, <1>10, <1>19 DEF GpuKeys
<1>26. /\ "gpuDeployment" \in c <=> ~GpuSame(i, d) /\ Len(d.gpuDevices) = 0
       /\ "gpuDevice" \in c <=> ~GpuSame(i, d) /\ Len(i.gpuDevices) <= 1 /\ Len(d.gpuDevices) # 1
       /\ "gpuDevices" \in c <=> ~GpuSame(i, d) /\ Len(i.gpuDevices) > 1 /\ Len(d.gpuDevices) < 2
  <2>1. \A k \in GpuKeys : k \in c <=> k \in cg
    BY <1>2, <1>4, <1>8 DEF GpuKeys
  <2> QED
    BY <1>10, <2>1 DEF GpuKeys
<1> QED
  BY <1>20, <1>21, <1>22, <1>24, <1>25, <1>26 DEF ChangeIs, s, c

\* Settings that ask for what a draft asks for.
AsksFor(l, d) ==
  /\ {"contextWindow", "vramMi", "cpuOffloading", "vllm"} \subseteq DOMAIN l
  /\ l["contextWindow"] = d.contextWindow /\ l["vramMi"] = d.selectedMi /\ l["cpuOffloading"] = d.cpuOffloading
  /\ "maxOutputTokens" \in DOMAIN l <=> d.maxOutputTokens # 0
  /\ d.maxOutputTokens # 0 => l["maxOutputTokens"] = d.maxOutputTokens
  /\ "cpuResources" \in DOMAIN l <=> d.cpu # 0
  /\ d.cpu # 0 => l["cpuResources"] = d.cpu
  /\ "gpuDevices" \in DOMAIN l <=> Len(d.gpuDevices) = 2
  /\ "gpuDevice" \in DOMAIN l <=> Len(d.gpuDevices) = 1
  /\ "gpuDeployment" \in DOMAIN l <=> Len(d.gpuDevices) # 0
  /\ Len(d.gpuDevices) = 2 => l["gpuDevices"] = d.gpuDevices
  /\ Len(d.gpuDevices) = 1 => l["gpuDevice"] = d.gpuDevices[1]
  /\ Len(d.gpuDevices) # 0 => l["gpuDeployment"] = d.gpuDeployment
  /\ NeedsHostRam(d) => "memoryRequiredMi" \in DOMAIN l /\ l["memoryRequiredMi"] = d.hostMemoryMi
  /\ "visionAttention" \in DOMAIN l["vllm"] /\ l["vllm"]["visionAttention"] = d.vision
  /\ Split(d) => "parallelism" \in DOMAIN l["vllm"] /\ l["vllm"]["parallelism"] = d.parallelism

\* A model that was created asks for what its draft asked for.
LEMMA CreatedAsks ==
  ASSUME NEW d, DraftOk(d)
  PROVE  AsksFor(LocalModelCreatePayload(d), d)
<1>1. d.gpuDevices \in Lists
  BY DEF DraftOk
<1>2. /\ "visionAttention" \in DOMAIN VllmSettings(d) /\ VllmSettings(d)["visionAttention"] = d.vision
      /\ Split(d) => "parallelism" \in DOMAIN VllmSettings(d) /\ VllmSettings(d)["parallelism"] = d.parallelism
  BY <1>1, VllmAt
<1> QED
  BY <1>2, PayloadAt DEF AsksFor

LEMMA SettingAt ==
  ASSUME NEW l, NEW k, NEW v
  PROVE  (k \in DOMAIN l => Setting(l, k, v) = l[k]) /\ (k \notin DOMAIN l => Setting(l, k, v) = v)
BY DEF Setting, Has

LEMMA RestrictAt ==
  ASSUME NEW f, NEW S, S \subseteq DOMAIN f
  PROVE  DOMAIN Restrict(f, S) = S /\ \A k \in S : Restrict(f, S)[k] = f[k]
BY DEF Restrict

\* The draft of settings that ask for what another draft asks for.
LEMMA DraftShows ==
  ASSUME NEW l, NEW d, DraftOk(d), AsksFor(l, d)
  PROVE  Meaning(InitialLocalModelDraft(l)) = Meaning(d)
<1> DEFINE x == InitialLocalModelDraft(l)
<1>1. /\ DOMAIN x = DraftKeys
      /\ x.contextWindow = d.contextWindow /\ x.selectedMi = d.selectedMi /\ x.cpuOffloading = d.cpuOffloading
      /\ x.maxOutputTokens = d.maxOutputTokens /\ x.cpu = d.cpu /\ x.vision = d.vision
  <2>1. DOMAIN x = DraftKeys
    BY DEF InitialLocalModelDraft, DraftKeys
  <2>2. x.contextWindow = d.contextWindow /\ x.selectedMi = d.selectedMi /\ x.cpuOffloading = d.cpuOffloading
    BY DEF InitialLocalModelDraft, AsksFor, Setting, Has
  <2>3. x.maxOutputTokens = d.maxOutputTokens
    BY DEF InitialLocalModelDraft, AsksFor, Setting, Has
  <2>4. x.cpu = d.cpu
    BY DEF InitialLocalModelDraft, AsksFor, Setting, Has
  <2>5. x.vision = d.vision
    BY DEF InitialLocalModelDraft, AsksFor, Setting, Has
  <2> QED
    BY <2>1, <2>2, <2>3, <2>4, <2>5
<1>2. x.gpuDevices = d.gpuDevices
  <2>1. x.gpuDevices = IF "gpuDevices" \in DOMAIN l THEN l["gpuDevices"]
                       ELSE IF "gpuDevice" \in DOMAIN l THEN <<l["gpuDevice"]>> ELSE <<>>
    BY DEF InitialLocalModelDraft, Has
  <2>2. /\ "gpuDevices" \in DOMAIN l <=> Len(d.gpuDevices) = 2
        /\ "gpuDevice" \in DOMAIN l <=> Len(d.gpuDevices) = 1
        /\ Len(d.gpuDevices) = 2 => l["gpuDevices"] = d.gpuDevices
        /\ Len(d.gpuDevices) = 1 => l["gpuDevice"] = d.gpuDevices[1]
    BY DEF AsksFor
  <2>3. /\ Len(d.gpuDevices) \in {0, 1, 2} /\ (Len(d.gpuDevices) = 0 <=> d.gpuDevices = <<>>)
        /\ Len(d.gpuDevices) = 1 => d.gpuDevices = <<d.gpuDevices[1]>>
    BY ListsAre DEF DraftOk
  <2> HIDE DEF x
  <2>4. CASE Len(d.gpuDevices) = 0
    BY <2>1, <2>2, <2>3, <2>4
  <2>5. CASE Len(d.gpuDevices) = 1
    BY <2>1, <2>2, <2>3, <2>5
  <2>6. CASE Len(d.gpuDevices) = 2
    BY <2>1, <2>2, <2>6
  <2> QED
    BY <2>3, <2>4, <2>5, <2>6
<1>3. Len(d.gpuDevices) # 0 => x.gpuDeployment = d.gpuDeployment
  BY DEF InitialLocalModelDraft, AsksFor, Setting, Has
<1>4. NeedsHostRam(d) => x.hostMemoryMi = d.hostMemoryMi
  BY DEF InitialLocalModelDraft, AsksFor, Setting, Has
<1>5. Split(d) => x.parallelism = d.parallelism
  BY DEF InitialLocalModelDraft, AsksFor, Setting, Has
<1> HIDE DEF x
<1>6. NeedsHostRam(x) = NeedsHostRam(d)
  BY <1>1, <1>2 DEF NeedsHostRam
<1>7. Len(d.gpuDevices) \in {0, 1, 2} /\ (Len(d.gpuDevices) = 0 <=> d.gpuDevices = <<>>)
  BY ListsAre DEF DraftOk
<1>8. Split(x) = Split(d)
  BY <1>2, <1>3, <1>7 DEF Split
<1> DEFINE mx == Meaning(x)
           md == Meaning(d)
<1>9. DOMAIN mx = DraftKeys /\ DOMAIN md = DraftKeys
  BY <1>1 DEF Meaning, DraftOk
<1>10. mx = [k \in DraftKeys |-> mx[k]] /\ md = [k \in DraftKeys |-> md[k]]
  <2>1. mx = [k \in DOMAIN mx |-> mx[k]] /\ md = [k \in DOMAIN md |-> md[k]]
    BY DEF Meaning
  <2> QED
    BY <1>9, <2>1
<1>11. /\ mx["hostMemoryMi"] = IF NeedsHostRam(x) THEN x.hostMemoryMi ELSE 0
       /\ mx["parallelism"] = IF Split(x) THEN x.parallelism ELSE "auto"
       /\ mx["gpuDeployment"] = IF x.gpuDevices = <<>> THEN "single" ELSE x.gpuDeployment
       /\ \A k \in DraftKeys \ {"hostMemoryMi", "parallelism", "gpuDeployment"} : mx[k] = x[k]
  BY <1>1 DEF Meaning, DraftKeys
<1>12. /\ md["hostMemoryMi"] = IF NeedsHostRam(d) THEN d.hostMemoryMi ELSE 0
       /\ md["parallelism"] = IF Split(d) THEN d.parallelism ELSE "auto"
       /\ md["gpuDeployment"] = IF d.gpuDevices = <<>> THEN "single" ELSE d.gpuDeployment
       /\ \A k \in DraftKeys \ {"hostMemoryMi", "parallelism", "gpuDeployment"} : md[k] = d[k]
  BY DEF Meaning, DraftKeys, DraftOk
<1> HIDE DEF mx, md
<1>13. mx["hostMemoryMi"] = md["hostMemoryMi"]
  BY <1>4, <1>6, <1>11, <1>12
<1>14. mx["parallelism"] = md["parallelism"]
  BY <1>5, <1>8, <1>11, <1>12
<1>15. mx["gpuDeployment"] = md["gpuDeployment"]
  BY <1>2, <1>3, <1>7, <1>11, <1>12
<1>16. \A k \in DraftKeys \ {"hostMemoryMi", "parallelism", "gpuDeployment"} : mx[k] = md[k]
  BY <1>1, <1>2, <1>11, <1>12 DEF DraftKeys
<1>17. \A k \in DraftKeys : mx[k] = md[k]
  BY <1>13, <1>14, <1>15, <1>16
<1>18. [k \in DraftKeys |-> mx[k]] = [k \in DraftKeys |-> md[k]]
  BY <1>17
<1>19. mx = md
  BY <1>10, <1>18
<1> QED
  BY <1>19 DEF mx, md, x

\* The changes merged into the settings they were made for.
LEMMA MergeAsks ==
  ASSUME NEW l, NEW i, NEW d, DraftOk(i), DraftOk(d), AsksFor(l, i)
  PROVE  AsksFor(ModelActivationPayload(MergedLocalModelSettings(l, LocalModelChanges(i, d))), d)
<1> DEFINE s == LocalModelChanges(i, d).set
           c == LocalModelChanges(i, d).clear
           o == Over(l, s)
           replaced == Clear(Has(s, "gpuDevices"), "gpuDevice") \cup Clear(Has(s, "gpuDevice"), "gpuDevices")
           m == MergedLocalModelSettings(l, LocalModelChanges(i, d))
           p == ModelActivationPayload(m)
<1>1. ChangeIs(s, c, i, d)
  BY ChangeAt
<1>2. m = Restrict(o, DOMAIN o \ (c \cup replaced))
  BY DEF MergedLocalModelSettings
<1>3. /\ replaced \subseteq {"gpuDevice", "gpuDevices"}
      /\ "gpuDevice" \in replaced <=> "gpuDevices" \in DOMAIN s
      /\ "gpuDevices" \in replaced <=> "gpuDevice" \in DOMAIN s
  BY DEF Clear, Has
<1>4. /\ DOMAIN o = DOMAIN l \cup DOMAIN s /\ (\A k \in DOMAIN s : o[k] = s[k])
      /\ (\A k \in DOMAIN l : k \notin DOMAIN s => o[k] = l[k])
  <2> HIDE DEF s
  <2> QED
    BY OverAt
<1>5. p = IF Setting(m, "cpuOffloading", FALSE) \/ ("gpuDevices" \in DOMAIN m /\ Len(m["gpuDevices"]) > 1)
          THEN m ELSE Restrict(m, DOMAIN m \ {"memoryRequiredMi"})
  BY DEF ModelActivationPayload, Has
<1> HIDE DEF s, c, o, replaced, m, p
<1>6. /\ DOMAIN m = (DOMAIN l \cup DOMAIN s) \ (c \cup replaced)
      /\ \A k \in DOMAIN m : k \in DOMAIN s => m[k] = s[k]
      /\ \A k \in DOMAIN m : k \notin DOMAIN s => m[k] = l[k]
  <2> DEFINE S == DOMAIN o \ (c \cup replaced)
  <2>1. S \subseteq DOMAIN o
    OBVIOUS
  <2> HIDE DEF S
  <2>2. DOMAIN Restrict(o, S) = S /\ \A k \in S : Restrict(o, S)[k] = o[k]
    BY <2>1, RestrictAt
  <2>3. m = Restrict(o, S)
    BY <1>2 DEF S
  <2>4. DOMAIN m = S /\ \A k \in S : m[k] = o[k]
    BY ONLY <2>2, <2>3
  <2> QED
    BY <1>4, <2>4 DEF S
<1>7. /\ "contextWindow" \in DOMAIN m /\ m["contextWindow"] = d.contextWindow
      /\ "vramMi" \in DOMAIN m /\ m["vramMi"] = d.selectedMi
      /\ "cpuOffloading" \in DOMAIN m /\ m["cpuOffloading"] = d.cpuOffloading
  BY <1>1, <1>3, <1>6 DEF ChangeIs, AsksFor
<1>8. /\ "maxOutputTokens" \in DOMAIN m <=> d.maxOutputTokens # 0
      /\ d.maxOutputTokens # 0 => m["maxOutputTokens"] = d.maxOutputTokens
  BY <1>1, <1>3, <1>6 DEF ChangeIs, AsksFor
<1>9. /\ "cpuResources" \in DOMAIN m <=> d.cpu # 0
      /\ d.cpu # 0 => m["cpuResources"] = d.cpu
  BY <1>1, <1>3, <1>6 DEF ChangeIs, AsksFor
<1>10. "vllm" \in DOMAIN m /\ ("vllm" \in DOMAIN s => m["vllm"] = s["vllm"]) /\ ("vllm" \notin DOMAIN s => m["vllm"] = l["vllm"])
  BY <1>1, <1>3, <1>6 DEF ChangeIs, AsksFor
<1>11. /\ "visionAttention" \in DOMAIN m["vllm"] /\ m["vllm"]["visionAttention"] = d.vision
       /\ Split(d) => "parallelism" \in DOMAIN m["vllm"] /\ m["vllm"]["parallelism"] = d.parallelism
  <2>1. CASE VllmSent(i, d)
    <3>1. m["vllm"] = VllmSettings(d)
      BY <1>1, <1>10, <2>1 DEF ChangeIs
    <3>2. d.gpuDevices \in Lists
      BY DEF DraftOk
    <3> QED
      BY <3>1, <3>2, VllmAt
  <2>2. CASE ~VllmSent(i, d)
    <3>1. m["vllm"] = l["vllm"]
      BY <1>1, <1>10, <2>2 DEF ChangeIs
    <3>2. d.vision = i.vision
      BY <2>2 DEF VllmSent
    <3>3. Split(d) => d.gpuDevices = i.gpuDevices /\ d.gpuDeployment = i.gpuDeployment /\ d.parallelism = i.parallelism
      BY <2>2 DEF VllmSent, Split
    <3>4. Split(d) => Split(i)
      BY <3>3 DEF Split
    <3> QED
      BY <3>1, <3>2, <3>3, <3>4 DEF AsksFor
  <2> QED
    BY <2>1, <2>2
<1>12. /\ "gpuDevices" \in DOMAIN m <=> Len(d.gpuDevices) = 2
       /\ "gpuDevice" \in DOMAIN m <=> Len(d.gpuDevices) = 1
       /\ "gpuDeployment" \in DOMAIN m <=> Len(d.gpuDevices) # 0
       /\ Len(d.gpuDevices) = 2 => m["gpuDevices"] = d.gpuDevices
       /\ Len(d.gpuDevices) = 1 => m["gpuDevice"] = d.gpuDevices[1]
       /\ Len(d.gpuDevices) # 0 => m["gpuDeployment"] = d.gpuDeployment
  <2> DEFINE g == GpuSettings(d)
  <2>1. /\ \A k \in GpuKeys : k \in DOMAIN s <=> ~GpuSame(i, d) /\ k \in DOMAIN g
        /\ \A k \in GpuKeys : k \in DOMAIN s => s[k] = g[k]
        /\ "gpuDeployment" \in c <=> ~GpuSame(i, d) /\ Len(d.gpuDevices) = 0
        /\ "gpuDevice" \in c <=> ~GpuSame(i, d) /\ Len(i.gpuDevices) <= 1 /\ Len(d.gpuDevices) # 1
        /\ "gpuDevices" \in c <=> ~GpuSame(i, d) /\ Len(i.gpuDevices) > 1 /\ Len(d.gpuDevices) < 2
    BY <1>1 DEF ChangeIs
  <2>2. /\ "gpuDevices" \in DOMAIN l <=> Len(i.gpuDevices) = 2
        /\ "gpuDevice" \in DOMAIN l <=> Len(i.gpuDevices) = 1
        /\ "gpuDeployment" \in DOMAIN l <=> Len(i.gpuDevices) # 0
        /\ Len(i.gpuDevices) = 2 => l["gpuDevices"] = i.gpuDevices
        /\ Len(i.gpuDevices) = 1 => l["gpuDevice"] = i.gpuDevices[1]
        /\ Len(i.gpuDevices) # 0 => l["gpuDeployment"] = i.gpuDeployment
    BY DEF AsksFor
  <2>3. Len(d.gpuDevices) \in {0, 1, 2} /\ Len(i.gpuDevices) \in {0, 1, 2}
    BY ListsAre DEF DraftOk
  <2>4. /\ Len(d.gpuDevices) = 0 => DOMAIN g = {}
        /\ Len(d.gpuDevices) = 1 => DOMAIN g = {"gpuDevice", "gpuDeployment"} /\ g["gpuDevice"] = d.gpuDevices[1]
                                    /\ g["gpuDeployment"] = d.gpuDeployment
        /\ Len(d.gpuDevices) = 2 => DOMAIN g = {"gpuDevices", "gpuDeployment"} /\ g["gpuDevices"] = d.gpuDevices
                                    /\ g["gpuDeployment"] = d.gpuDeployment
    BY GpuAt DEF DraftOk
  <2> HIDE DEF g
  <2>5. CASE GpuSame(i, d)
    <3>1. DOMAIN s \cap GpuKeys = {} /\ c \cap GpuKeys = {} /\ replaced \cap GpuKeys = {}
      BY <1>3, <2>1, <2>5 DEF GpuKeys
    <3>2. \A k \in GpuKeys : (k \in DOMAIN m <=> k \in DOMAIN l) /\ (k \in DOMAIN m => m[k] = l[k])
      BY <1>6, <3>1
    <3>3. d.gpuDevices = i.gpuDevices /\ d.gpuDeployment = i.gpuDeployment
      BY <2>5 DEF GpuSame
    <3> QED
      BY <2>2, <3>2, <3>3 DEF GpuKeys
  <2>6. CASE ~GpuSame(i, d)
    <3>1. \A k \in GpuKeys : k \in DOMAIN s <=> k \in DOMAIN g
      BY <2>1, <2>6
    <3>2. \A k \in DOMAIN g : k \in GpuKeys => s[k] = g[k]
      BY <2>1, <3>1
    <3>3. CASE Len(d.gpuDevices) = 0
      <4>1. "gpuDevices" \notin DOMAIN s /\ "gpuDevice" \notin DOMAIN s /\ "gpuDeployment" \notin DOMAIN s
        BY <2>4, <3>1, <3>3 DEF GpuKeys
      <4>2. "gpuDeployment" \notin DOMAIN m
        BY <1>6, <2>1, <2>6, <3>3
      <4>3. "gpuDevice" \notin DOMAIN m
        <5>1. CASE Len(i.gpuDevices) = 2
          BY <1>6, <2>2, <4>1, <5>1
        <5>2. CASE Len(i.gpuDevices) \in {0, 1}
          <6>1. Len(i.gpuDevices) <= 1 /\ Len(d.gpuDevices) # 1
            <7> DEFINE n == Len(i.gpuDevices)
                       e == Len(d.gpuDevices)
            <7>1. n \in {0, 1} /\ e = 0
              BY <3>3, <5>2
            <7> HIDE DEF n, e
            <7>2. n <= 1 /\ e # 1
              BY ONLY <7>1
            <7> QED
              BY <7>2 DEF n, e
          <6> QED
            BY <1>6, <2>1, <2>6, <6>1
        <5> QED
          BY <2>3, <5>1, <5>2
      <4>4. "gpuDevices" \notin DOMAIN m
        BY <1>6, <2>1, <2>2, <2>3, <2>6, <3>3, <4>1
      <4> QED
        BY <3>3, <4>2, <4>3, <4>4
    <3>4. CASE Len(d.gpuDevices) = 1
      BY <1>3, <1>6, <2>1, <2>2, <2>3, <2>4, <2>6, <3>1, <3>2, <3>4 DEF GpuKeys
    <3>5. CASE Len(d.gpuDevices) = 2
      BY <1>3, <1>6, <2>1, <2>2, <2>3, <2>4, <2>6, <3>1, <3>2, <3>5 DEF GpuKeys
    <3> QED
      BY <2>3, <3>3, <3>4, <3>5
  <2> QED
    BY <2>5, <2>6
<1>13. NeedsHostRam(d) => "memoryRequiredMi" \in DOMAIN m /\ m["memoryRequiredMi"] = d.hostMemoryMi
  <2> SUFFICES ASSUME NeedsHostRam(d)
               PROVE  "memoryRequiredMi" \in DOMAIN m /\ m["memoryRequiredMi"] = d.hostMemoryMi
    OBVIOUS
  <2>1. "memoryRequiredMi" \notin c \cup replaced
    BY <1>1, <1>3 DEF ChangeIs
  <2>2. CASE HostRamSent(i, d)
    BY <1>1, <1>6, <2>1, <2>2 DEF ChangeIs
  <2>3. CASE ~HostRamSent(i, d)
    <3>1. d.hostMemoryMi = i.hostMemoryMi /\ d.cpuOffloading = i.cpuOffloading /\ d.gpuDevices = i.gpuDevices
      BY <2>3 DEF HostRamSent
    <3>2. NeedsHostRam(i)
      BY <3>1 DEF NeedsHostRam
    <3>3. "memoryRequiredMi" \in DOMAIN l /\ l["memoryRequiredMi"] = i.hostMemoryMi /\ "memoryRequiredMi" \notin DOMAIN s
      BY <1>1, <2>3, <3>2 DEF AsksFor, ChangeIs
    <3> QED
      BY <1>6, <2>1, <3>1, <3>3
  <2> QED
    BY <2>2, <2>3
<1>14. /\ \A k \in DOMAIN p : p[k] = m[k]
       /\ \A k : k # "memoryRequiredMi" => (k \in DOMAIN p <=> k \in DOMAIN m)
       /\ NeedsHostRam(d) => p = m
  <2>1. DOMAIN m \ {"memoryRequiredMi"} \subseteq DOMAIN m
    OBVIOUS
  <2>2. Setting(m, "cpuOffloading", FALSE) = d.cpuOffloading
    BY <1>7, SettingAt
  <2>3. NeedsHostRam(d) => p = m
    <3>1. CASE d.cpuOffloading
      <4>1. Setting(m, "cpuOffloading", FALSE)
        BY <2>2, <3>1
      <4> QED
        BY <1>5, <4>1
    <3>2. CASE Len(d.gpuDevices) > 1
      <4>1. Len(d.gpuDevices) = 2
        <5>1. Len(d.gpuDevices) \in {0, 1, 2}
          BY ListsAre DEF DraftOk
        <5> DEFINE n == Len(d.gpuDevices)
        <5>2. n \in {0, 1, 2} /\ n > 1
          BY <3>2, <5>1
        <5> HIDE DEF n
        <5>3. n = 2
          BY ONLY <5>2
        <5> QED
          BY <5>3 DEF n
      <4>2. "gpuDevices" \in DOMAIN m /\ m["gpuDevices"] = d.gpuDevices
        BY <1>12, <4>1
      <4> QED
        BY <1>5, <3>2, <4>2
    <3> QED
      BY <3>1, <3>2 DEF NeedsHostRam
  <2> DEFINE S == DOMAIN m \ {"memoryRequiredMi"}
             q == Restrict(m, S)
  <2>4. DOMAIN q = S /\ \A k \in S : q[k] = m[k]
    BY <2>1, RestrictAt
  <2>5. p = m \/ p = q
    BY <1>5
  <2> HIDE DEF q
  <2>6. p = q => /\ \A k \in DOMAIN p : p[k] = m[k]
                 /\ \A k : k # "memoryRequiredMi" => (k \in DOMAIN p <=> k \in DOMAIN m)
    BY <2>4
  <2> QED
    BY <2>3, <2>5, <2>6
<1>15. "memoryRequiredMi" \in DOMAIN p \/ ~NeedsHostRam(d)
  BY <1>13, <1>14
<1>16. /\ {"contextWindow", "vramMi", "cpuOffloading", "vllm"} \subseteq DOMAIN p
       /\ p["contextWindow"] = d.contextWindow /\ p["vramMi"] = d.selectedMi /\ p["cpuOffloading"] = d.cpuOffloading
       /\ p["vllm"] = m["vllm"]
  BY <1>7, <1>10, <1>14
<1>17. /\ "maxOutputTokens" \in DOMAIN p <=> d.maxOutputTokens # 0
       /\ d.maxOutputTokens # 0 => p["maxOutputTokens"] = d.maxOutputTokens
       /\ "cpuResources" \in DOMAIN p <=> d.cpu # 0
       /\ d.cpu # 0 => p["cpuResources"] = d.cpu
  BY <1>8, <1>9, <1>14
<1>18. /\ "gpuDevices" \in DOMAIN p <=> Len(d.gpuDevices) = 2
       /\ "gpuDevice" \in DOMAIN p <=> Len(d.gpuDevices) = 1
       /\ "gpuDeployment" \in DOMAIN p <=> Len(d.gpuDevices) # 0
       /\ Len(d.gpuDevices) = 2 => p["gpuDevices"] = d.gpuDevices
       /\ Len(d.gpuDevices) = 1 => p["gpuDevice"] = d.gpuDevices[1]
       /\ Len(d.gpuDevices) # 0 => p["gpuDeployment"] = d.gpuDeployment
  BY <1>12, <1>14
<1>19. NeedsHostRam(d) => "memoryRequiredMi" \in DOMAIN p /\ p["memoryRequiredMi"] = d.hostMemoryMi
  BY <1>13, <1>14
<1>20. AsksFor(p, d)
  BY <1>11, <1>16, <1>17, <1>18, <1>19 DEF AsksFor
<1> QED
  BY <1>20 DEF p, m

\* A change gives what its draft asks for, in settings written by a form.
LEMMA ChangeMeant ==
  ASSUME NEW l, NEW d, DraftOk(InitialLocalModelDraft(l)), DraftOk(d), AsWritten(l)
  PROVE  Meaning(InitialLocalModelDraft(ModelActivationPayload(
             MergedLocalModelSettings(l, LocalModelChanges(InitialLocalModelDraft(l), d))))) = Meaning(d)
<1> DEFINE i == InitialLocalModelDraft(l)
<1>1. AsksFor(l, i)
  BY CreatedAsks DEF AsWritten
<1> HIDE DEF i
<1>2. DraftOk(i)
  BY DEF i
<1>3. AsksFor(ModelActivationPayload(MergedLocalModelSettings(l, LocalModelChanges(i, d))), d)
  BY <1>1, <1>2, MergeAsks
<1> QED
  BY <1>3, DraftShows DEF i

\* The settings of the changes are well formed.
LEMMA ChangesOk ==
  ASSUME NEW i, NEW d, DraftOk(i), DraftOk(d)
  PROVE  LocalOk(LocalModelChanges(i, d).set)
<1> DEFINE s == LocalModelChanges(i, d).set
           c == LocalModelChanges(i, d).clear
           g == GpuSettings(d)
<1>1. ChangeIs(s, c, i, d)
  BY ChangeAt
<1>2. /\ Len(d.gpuDevices) \in {0, 1, 2}
      /\ Len(d.gpuDevices) = 0 => DOMAIN g = {}
      /\ Len(d.gpuDevices) = 1 => DOMAIN g = {"gpuDevice", "gpuDeployment"} /\ g["gpuDevice"] = d.gpuDevices[1]
      /\ Len(d.gpuDevices) = 2 => DOMAIN g = {"gpuDevices", "gpuDeployment"} /\ g["gpuDevices"] = d.gpuDevices
      /\ Len(d.gpuDevices) = 1 => d.gpuDevices[1] \in Cards
  BY GpuAt, ListsAre DEF DraftOk
<1> HIDE DEF s, c, g
<1>3. /\ \A k \in {"gpuDevice", "gpuDevices"} : k \in DOMAIN s => k \in DOMAIN g /\ s[k] = g[k]
      /\ "contextWindow" \in DOMAIN s => s["contextWindow"] = d.contextWindow
      /\ "vramMi" \in DOMAIN s => s["vramMi"] = d.selectedMi
      /\ "cpuOffloading" \in DOMAIN s => s["cpuOffloading"] = d.cpuOffloading
  BY <1>1 DEF ChangeIs, GpuKeys, g
<1>4. "gpuDevices" \in DOMAIN s => s["gpuDevices"] \in Lists
  BY <1>2, <1>3 DEF DraftOk
<1>5. "gpuDevice" \in DOMAIN s => s["gpuDevice"] \in Cards
  BY <1>2, <1>3
<1>6. LocalOk(s)
  BY <1>3, <1>4, <1>5 DEF LocalOk, DraftOk
<1> QED
  BY <1>6 DEF s

\* Every setting comes from one of two.
TakenFrom(r, a, b) == \A k \in DOMAIN r : (k \in DOMAIN a /\ r[k] = a[k]) \/ (k \in DOMAIN b /\ r[k] = b[k])

LEMMA TakenOk ==
  ASSUME NEW r, NEW a, NEW b, LocalOk(a), LocalOk(b),
         \A k \in DOMAIN r : k # "vllm" => (k \in DOMAIN a /\ r[k] = a[k]) \/ (k \in DOMAIN b /\ r[k] = b[k])
  PROVE  LocalOk(r)
BY DEF LocalOk

LEMMA OverTaken == \A a, b : TakenFrom(Over(a, b), a, b)
<1> SUFFICES ASSUME NEW a, NEW b
             PROVE  TakenFrom(Over(a, b), a, b)
  OBVIOUS
<1>1. /\ DOMAIN Over(a, b) = DOMAIN a \cup DOMAIN b
      /\ \A k \in DOMAIN b : Over(a, b)[k] = b[k]
      /\ \A k \in DOMAIN a : k \notin DOMAIN b => Over(a, b)[k] = a[k]
  BY OverAt
<1> QED
  BY <1>1 DEF TakenFrom

LEMMA OverOk ==
  ASSUME NEW a, NEW b, LocalOk(a), LocalOk(b)
  PROVE  LocalOk(Over(a, b))
BY OverTaken, TakenOk DEF TakenFrom

LEMMA RestrictOk ==
  ASSUME NEW a, NEW S, S \subseteq DOMAIN a, LocalOk(a)
  PROVE  LocalOk(Restrict(a, S))
<1>1. DOMAIN Restrict(a, S) = S /\ \A k \in S : Restrict(a, S)[k] = a[k]
  BY RestrictAt
<1> HIDE DEF LocalOk
<1> QED
  BY <1>1, TakenOk

LEMMA MergedOk ==
  ASSUME NEW l, NEW changes, LocalOk(l), LocalOk(changes.set)
  PROVE  LocalOk(ModelActivationPayload(MergedLocalModelSettings(l, changes)))
<1> DEFINE o == Over(l, changes.set)
           replaced == Clear(Has(changes.set, "gpuDevices"), "gpuDevice") \cup Clear(Has(changes.set, "gpuDevice"), "gpuDevices")
           S == DOMAIN o \ (changes.clear \cup replaced)
           m == MergedLocalModelSettings(l, changes)
           T == DOMAIN m \ {"memoryRequiredMi"}
<1>1. LocalOk(o)
  BY OverOk
<1>2. m = Restrict(o, S) /\ S \subseteq DOMAIN o
  BY DEF MergedLocalModelSettings
<1> HIDE DEF o, S
<1>3. LocalOk(m)
  <2>1. LocalOk(Restrict(o, S))
    BY <1>1, <1>2, RestrictOk
  <2> QED
    BY <1>2, <2>1
<1>4. ModelActivationPayload(m) \in {m, Restrict(m, T)}
  BY DEF ModelActivationPayload
<1>5. T \subseteq DOMAIN m
  OBVIOUS
<1> HIDE DEF m, T
<1>6. LocalOk(Restrict(m, T))
  BY <1>3, <1>5, RestrictOk
<1>7. LocalOk(ModelActivationPayload(m))
  BY <1>3, <1>4, <1>6
<1> QED
  BY <1>7 DEF m

LEMMA PatchOkay ==
  ASSUME NEW l, NEW p, LocalOk(l), LocalOk(p)
  PROVE  LocalOk(PatchModelConfiguration(l, p))
<1> DEFINE v == IF Has(l, "vllm") /\ Has(p, "vllm") THEN Set("vllm", Over(l.vllm, p.vllm)) ELSE None
<1>1. DOMAIN v \subseteq {"vllm"}
  BY SetAt, NoneAt
<1>2. LocalOk(Over(l, p))
  BY OverOk
<1>3. PatchModelConfiguration(l, p) = Over(Over(l, p), v)
  BY DEF PatchModelConfiguration
<1> HIDE DEF v
<1>4. LocalOk(v)
  BY <1>1 DEF LocalOk
<1> QED
  BY <1>2, <1>3, <1>4, OverOk

\* The draft of well formed settings is well formed.
LEMMA InitialOk ==
  ASSUME NEW l, LocalOk(l)
  PROVE  DraftOk(InitialLocalModelDraft(l))
<1> DEFINE x == InitialLocalModelDraft(l)
<1>1. DOMAIN x = DraftKeys
  BY DEF InitialLocalModelDraft, DraftKeys
<1>2. x.contextWindow = Setting(l, "contextWindow", 1) /\ x.selectedMi = Setting(l, "vramMi", 1)
      /\ x.cpuOffloading = Setting(l, "cpuOffloading", FALSE)
      /\ x.gpuDevices = IF "gpuDevices" \in DOMAIN l THEN l["gpuDevices"]
                        ELSE IF "gpuDevice" \in DOMAIN l THEN <<l["gpuDevice"]>> ELSE <<>>
  BY DEF InitialLocalModelDraft, Has
<1> HIDE DEF x
<1>3. x.contextWindow # 0
  BY <1>2, SettingAt DEF LocalOk
<1>4. x.selectedMi # 0
  BY <1>2, SettingAt DEF LocalOk
<1>5. x.cpuOffloading \in BOOLEAN
  BY <1>2, SettingAt DEF LocalOk
<1>6. x.gpuDevices \in Lists
  <2>1. \A c \in Cards : <<c>> \in Lists
    BY DEF Lists
  <2>2. <<>> \in Lists
    BY DEF Lists
  <2>3. CASE "gpuDevices" \in DOMAIN l
    BY <1>2, <2>3 DEF LocalOk
  <2>4. CASE "gpuDevices" \notin DOMAIN l /\ "gpuDevice" \in DOMAIN l
    BY <1>2, <2>1, <2>4 DEF LocalOk
  <2>5. CASE "gpuDevices" \notin DOMAIN l /\ "gpuDevice" \notin DOMAIN l
    BY <1>2, <2>2, <2>5
  <2> QED
    BY <2>3, <2>4, <2>5
<1>7. DraftOk(x)
  BY <1>1, <1>3, <1>4, <1>5, <1>6 DEF DraftOk
<1> QED
  BY <1>7 DEF x

\* What the draft of the form needs to stay well formed.
PatchesDraft(p) ==
  /\ DOMAIN p \subseteq DraftKeys
  /\ "contextWindow" \in DOMAIN p => p["contextWindow"] # 0
  /\ "selectedMi" \in DOMAIN p => p["selectedMi"] # 0
  /\ "cpuOffloading" \in DOMAIN p => p["cpuOffloading"] \in BOOLEAN
  /\ "gpuDevices" \in DOMAIN p => p["gpuDevices"] \in Lists

LEMMA DraftPatched ==
  ASSUME NEW d, NEW p, DraftOk(d), PatchesDraft(p)
  PROVE  DraftOk(Over(d, p))
<1>1. /\ DOMAIN Over(d, p) = DOMAIN d \cup DOMAIN p
      /\ \A k \in DOMAIN p : Over(d, p)[k] = p[k]
      /\ \A k \in DOMAIN d : k \notin DOMAIN p => Over(d, p)[k] = d[k]
  BY OverAt
<1> DEFINE o == Over(d, p)
<1>2. DOMAIN o = DraftKeys
  BY <1>1 DEF DraftOk, PatchesDraft
<1>3. \A k \in DraftKeys : (k \in DOMAIN p /\ o[k] = p[k]) \/ o[k] = d[k]
  BY <1>1 DEF DraftOk
<1> HIDE DEF o
<1>4. o["contextWindow"] # 0 /\ o["selectedMi"] # 0 /\ o["cpuOffloading"] \in BOOLEAN
  BY <1>3 DEF DraftOk, PatchesDraft, DraftKeys
<1>5. o["gpuDevices"] \in Lists
  BY <1>3 DEF DraftOk, PatchesDraft, DraftKeys
<1>6. DraftOk(o)
  BY <1>2, <1>4, <1>5 DEF DraftOk
<1> QED
  BY <1>6 DEF o

LEMMA DevicesPatch ==
  ASSUME NEW list \in Lists, NEW mode
  PROVE  PatchesDraft(Devices(list, mode))
BY DEF PatchesDraft, Devices, DraftKeys

\* Every setting of the draft that the form offers.
LEMMA FieldsPatch ==
  ASSUME NEW patch \in [{"contextWindow"} -> {1, 2}] \cup [{"maxOutputTokens"} -> {0, 1}] \cup [{"cpu"} -> {0, 1}]
                         \cup [{"hostMemoryMi"} -> {1, 2}] \cup [{"selectedMi"} -> {1, 2}]
                         \cup [{"cpuOffloading"} -> BOOLEAN] \cup [{"vision"} -> {"auto", "flash"}]
                         \cup [{"parallelism"} -> {"auto", "tensor"}]
  PROVE  PatchesDraft(patch)
<1>1. CASE patch \in [{"contextWindow"} -> {1, 2}]
  BY <1>1 DEF PatchesDraft, DraftKeys
<1>2. CASE patch \in [{"selectedMi"} -> {1, 2}]
  BY <1>2 DEF PatchesDraft, DraftKeys
<1>3. CASE patch \in [{"cpuOffloading"} -> BOOLEAN]
  BY <1>3 DEF PatchesDraft, DraftKeys
<1>4. CASE DOMAIN patch \in {{"maxOutputTokens"}, {"cpu"}, {"hostMemoryMi"}, {"vision"}, {"parallelism"}}
  BY <1>4 DEF PatchesDraft, DraftKeys
<1> QED
  BY <1>1, <1>2, <1>3, <1>4

LEMMA FirstDevice ==
  ASSUME NEW l \in Lists, Len(l) > 1
  PROVE  <<Head(l)>> \in Lists
<1>1. CASE l = <<>>
  BY <1>1
<1>2. CASE \E c \in Cards : l = <<c>>
  BY <1>2
<1>3. CASE l \in {p \in Cards \X Cards : p[1] # p[2]}
  <2>1. PICK a \in Cards, b \in Cards : l = <<a, b>>
    BY <1>3
  <2>2. Head(l) = a
    BY <2>1
  <2> QED
    BY <2>2 DEF Lists
<1> QED
  BY <1>1, <1>2, <1>3 DEF Lists

LEMMA DraftStaysOk ==
  ASSUME EditDraft, DraftOk(editor.draft), "draft" \in DOMAIN editor
  PROVE  DraftOk(editor'.draft)
<1>1. \A d : UpdateDraft(d) => editor'.draft = d
  BY DEF UpdateDraft
<1>2. CASE SetField
  <2>1. PICK patch \in [{"contextWindow"} -> {1, 2}] \cup [{"maxOutputTokens"} -> {0, 1}] \cup [{"cpu"} -> {0, 1}]
                         \cup [{"hostMemoryMi"} -> {1, 2}] \cup [{"selectedMi"} -> {1, 2}]
                         \cup [{"cpuOffloading"} -> BOOLEAN] \cup [{"vision"} -> {"auto", "flash"}]
                         \cup [{"parallelism"} -> {"auto", "tensor"}] : UpdateDraft(Over(editor.draft, patch))
    BY <1>2 DEF SetField
  <2>2. PatchesDraft(patch)
    BY FieldsPatch
  <2> QED
    BY <1>1, <2>1, <2>2, DraftPatched
<1>3. CASE SelectGpuKeys
  <2>1. PICK list \in Lists : \E mode : UpdateDraft(Over(editor.draft, Devices(list, mode)))
    BY <1>3 DEF SelectGpuKeys
  <2>2. PICK mode : UpdateDraft(Over(editor.draft, Devices(list, mode)))
    BY <2>1
  <2> QED
    BY <1>1, <2>2, DevicesPatch, DraftPatched
<1>4. CASE SelectDeployment
  <2>1. PICK mode \in {"single", "split", "replicated"} :
            UpdateDraft(Over(editor.draft, Devices(IF mode = "single" /\ Len(editor.draft.gpuDevices) > 1
                                      THEN <<Head(editor.draft.gpuDevices)>> ELSE editor.draft.gpuDevices, mode)))
    BY <1>4 DEF SelectDeployment
  <2> DEFINE list == IF mode = "single" /\ Len(editor.draft.gpuDevices) > 1
                     THEN <<Head(editor.draft.gpuDevices)>> ELSE editor.draft.gpuDevices
  <2>2. list \in Lists
    BY FirstDevice DEF DraftOk
  <2>3. UpdateDraft(Over(editor.draft, Devices(list, mode)))
    BY <2>1
  <2> HIDE DEF list
  <2> QED
    BY <1>1, <2>2, <2>3, DevicesPatch, DraftPatched
<1> QED
  BY <1>2, <1>3, <1>4 DEF EditDraft

\* The open form's draft was taken from the settings it was opened with, and what
\* is sent are the changes between the two.
DraftsInv ==
  /\ DOMAIN editor = {"open", "of", "initial", "draft", "revision"} /\ DOMAIN model = {"uid", "gen", "local"}
  /\ LocalOk(model.local)
  /\ editor.open => editor.initial = InitialLocalModelDraft(editor.of) /\ LocalOk(editor.of) /\ DraftOk(editor.draft)
  /\ saving.on => /\ saving.changes = LocalModelChanges(InitialLocalModelDraft(saving.from), saving.meant)
                  /\ LocalOk(saving.from) /\ DraftOk(saving.meant)

LEMMA DraftsStep ==
  ASSUME DraftsInv, [ModelEditNext]_editVars
  PROVE  DraftsInv'
<1>0. DOMAIN editor = {"open", "of", "initial", "draft", "revision"} /\ DOMAIN model = {"uid", "gen", "local"}
      /\ LocalOk(model.local)
  BY DEF DraftsInv
<1>1. CASE OpenEditor
  <2> DEFINE d == InitialLocalModelDraft(model.local)
             r == ModelEditRevision(model)
  <2>1. editor' = [open |-> TRUE, of |-> model.local, initial |-> d, draft |-> d, revision |-> r]
        /\ UNCHANGED <<model, saving>> /\ ~saving.on
    BY <1>1 DEF OpenEditor
  <2>2. DraftOk(d)
    BY <1>0, InitialOk
  <2>3. DOMAIN editor' = {"open", "of", "initial", "draft", "revision"} /\ editor'.of = model.local /\ editor'.initial = d
        /\ editor'.draft = d
    BY <2>1
  <2>4. d = InitialLocalModelDraft(editor'.of)
    BY <2>3
  <2> HIDE DEF d
  <2> QED
    BY <1>0, <2>1, <2>2, <2>3, <2>4 DEF DraftsInv
<1>2. CASE CloseEditor
  <2>1. editor' = NoEditor /\ UNCHANGED <<model, saving>> /\ ~saving.on
    BY <1>2 DEF CloseEditor
  <2>2. DOMAIN NoEditor = {"open", "of", "initial", "draft", "revision"} /\ NoEditor.open = FALSE
    BY DEF NoEditor
  <2> QED
    BY <1>0, <2>1, <2>2 DEF DraftsInv
<1>3. CASE EditDraft
  <2>1. PICK d : UpdateDraft(d)
    BY <1>3 DEF EditDraft, SetField, SelectGpuKeys, SelectDeployment
  <2>2. editor' = [editor EXCEPT !.draft = d] /\ UNCHANGED <<model, saving>> /\ ~saving.on /\ editor.open
    BY <1>3, <2>1 DEF UpdateDraft, EditDraft
  <2>3. DOMAIN editor' = DOMAIN editor /\ editor'.of = editor.of /\ editor'.initial = editor.initial
    BY <1>0, <2>2
  <2>4. DraftOk(editor'.draft)
    BY <1>0, <1>3, <2>2, DraftStaysOk DEF DraftsInv
  <2> QED
    BY <1>0, <2>2, <2>3, <2>4 DEF DraftsInv
<1>4. CASE EstimateAnswers \/ EstimateFails \/ EstimateRefetched
  <2>1. UNCHANGED <<model, editor, saving>>
    BY <1>4 DEF EstimateAnswers, EstimateFails, EstimateRefetched
  <2> QED
    BY <2>1 DEF DraftsInv
<1>5. CASE SaveModel
  <2> DEFINE c == Changes
  <2>1. /\ saving' = [on |-> TRUE, revision |-> editor.revision, changes |-> c, from |-> editor.of, meant |-> editor.draft]
        /\ UNCHANGED <<model, editor>> /\ editor.open
    BY <1>5 DEF SaveModel, ExpectedModelRevision
  <2>2. c = LocalModelChanges(InitialLocalModelDraft(editor.of), editor.draft)
    BY <2>1 DEF Changes, DraftsInv
  <2> HIDE DEF c
  <2>3. saving'.changes = c /\ saving'.from = editor.of /\ saving'.meant = editor.draft
    BY <2>1
  <2> QED
    BY <1>0, <2>1, <2>2, <2>3 DEF DraftsInv
<1>6. CASE ModelUpdated
  <2> DEFINE q == ModelActivationPayload(MergedLocalModelSettings(model.local, saving.changes))
             p == PatchModelConfiguration(model.local, q)
             n == model.gen + 1
  <2>1. model' = [model EXCEPT !.gen = n, !.local = p] /\ editor' = NoEditor /\ saving' = NoSave /\ saving.on
    BY <1>6 DEF ModelUpdated
  <2>2. LocalOk(saving.changes.set)
    BY <2>1, InitialOk, ChangesOk DEF DraftsInv
  <2>3. LocalOk(p)
    BY <1>0, <2>2, MergedOk, PatchOkay
  <2> HIDE DEF p
  <2>4. DOMAIN model' = DOMAIN model /\ model'.local = p
    BY <1>0, <2>1
  <2>5. DOMAIN NoEditor = {"open", "of", "initial", "draft", "revision"} /\ NoEditor.open = FALSE /\ NoSave.on = FALSE
    BY DEF NoEditor, NoSave
  <2> QED
    BY <1>0, <2>1, <2>3, <2>4, <2>5 DEF DraftsInv
<1>7. CASE ModelConflict \/ ModelRefused
  <2>1. saving' = NoSave /\ UNCHANGED <<model, editor>> /\ NoSave.on = FALSE
    BY <1>7 DEF ModelConflict, ModelRefused, NoSave
  <2> QED
    BY <2>1 DEF DraftsInv
<1>8. CASE ForeignChange
  <2> DEFINE o == Over(model.local, Set("contextWindow", 2))
             n == model.gen + 1
  <2>1. model' \in {[model EXCEPT !.gen = n, !.local = o], [uid |-> model.uid + 1, gen |-> 1, local |-> o]}
        /\ UNCHANGED <<editor, saving>>
    BY <1>8 DEF ForeignChange
  <2>2. LocalOk(o)
    <3>1. LocalOk(Set("contextWindow", 2))
      <4> DEFINE larger == Set("contextWindow", 2)
      <4>1. DOMAIN larger = {"contextWindow"} /\ larger["contextWindow"] = 2
        BY SetAt
      <4> HIDE DEF larger
      <4>2. LocalOk(larger)
        BY <4>1 DEF LocalOk
      <4> QED
        BY <4>2 DEF larger
    <3> QED
      BY <1>0, <3>1, OverOk
  <2> HIDE DEF o
  <2>3. DOMAIN model' = {"uid", "gen", "local"} /\ model'.local = o
    <3>1. CASE model' = [model EXCEPT !.gen = n, !.local = o]
      BY <1>0, <3>1
    <3>2. CASE model' = [uid |-> model.uid + 1, gen |-> 1, local |-> o]
      BY <3>2
    <3> QED
      BY <2>1, <3>1, <3>2
  <2> QED
    BY <2>1, <2>2, <2>3 DEF DraftsInv
<1>9. CASE UNCHANGED editVars
  <2>1. UNCHANGED <<model, editor, saving>>
    BY <1>9 DEF editVars
  <2> QED
    BY <2>1 DEF DraftsInv
<1> QED
  BY <1>1, <1>2, <1>3, <1>4, <1>5, <1>6, <1>7, <1>8, <1>9 DEF ModelEditNext

\* What a form creates is well formed.
LEMMA CreatedOk ==
  ASSUME NEW d \in Created
  PROVE  LocalOk(LocalModelCreatePayload(d))
<1>1. DraftOk(Draft0)
  <2>1. LocalOk(None)
    BY NoneAt DEF LocalOk
  <2> QED
    BY <2>1, InitialOk DEF Draft0
<1>2. DraftOk(d)
  <2>1. CASE \E list \in Lists, mode \in {"split", "replicated"} :
               d = Over(Draft0, Devices(list, IF Len(list) > 1 THEN mode ELSE "single"))
    BY <1>1, <2>1, DevicesPatch, DraftPatched
  <2>2. CASE d = Over(Draft0, [maxOutputTokens |-> 1, cpu |-> 1, cpuOffloading |-> TRUE])
    <3>1. PatchesDraft([maxOutputTokens |-> 1, cpu |-> 1, cpuOffloading |-> TRUE])
      BY DEF PatchesDraft, DraftKeys
    <3> QED
      BY <1>1, <2>2, <3>1, DraftPatched
  <2> QED
    BY <2>1, <2>2 DEF Created
<1> DEFINE p == LocalModelCreatePayload(d)
<1>3. AsksFor(p, d)
  BY <1>2, CreatedAsks
<1> HIDE DEF p
<1>4. p["contextWindow"] # 0 /\ p["vramMi"] # 0 /\ p["cpuOffloading"] \in BOOLEAN
  BY <1>2, <1>3 DEF AsksFor, DraftOk
<1>5. "gpuDevices" \in DOMAIN p => p["gpuDevices"] \in Lists
  BY <1>2, <1>3 DEF AsksFor, DraftOk
<1>6. "gpuDevice" \in DOMAIN p => p["gpuDevice"] \in Cards
  BY <1>2, <1>3, ListsAre DEF AsksFor, DraftOk
<1>7. LocalOk(p)
  BY <1>4, <1>5, <1>6 DEF LocalOk
<1> QED
  BY <1>7 DEF p

LEMMA DraftsStart ==
  ASSUME ModelEditInit
  PROVE  DraftsInv
<1>1. PICK d \in Created : model = [uid |-> 1, gen |-> 1, local |-> LocalModelCreatePayload(d)]
  BY DEF ModelEditInit
<1> DEFINE p == LocalModelCreatePayload(d)
<1>2. LocalOk(p)
  BY CreatedOk
<1>3. editor = NoEditor /\ saving = NoSave
  BY DEF ModelEditInit
<1>4. DOMAIN NoEditor = {"open", "of", "initial", "draft", "revision"} /\ NoEditor.open = FALSE /\ NoSave.on = FALSE
  BY DEF NoEditor, NoSave
<1> HIDE DEF p
<1>5. DOMAIN model = {"uid", "gen", "local"} /\ model.local = p
  BY <1>1 DEF p
<1> QED
  BY <1>2, <1>3, <1>4, <1>5 DEF DraftsInv

LEMMA DraftsSound ==
  ASSUME DraftsInv
  PROVE  ChangesTrue
<1> SUFFICES ASSUME saving.on, AsWritten(saving.from)
             PROVE  Meaning(InitialLocalModelDraft(ModelActivationPayload(
                        MergedLocalModelSettings(saving.from, saving.changes)))) = Meaning(saving.meant)
  BY DEF ChangesTrue
<1>1. DraftOk(InitialLocalModelDraft(saving.from))
  BY InitialOk DEF DraftsInv
<1> QED
  BY <1>1, ChangeMeant DEF DraftsInv

(***************************************************************************)
(* Adding a local model.                                                   *)
(***************************************************************************)
CreateFormShape(f) ==
  /\ DOMAIN f = {"url", "source", "preset", "target", "ctx", "offload", "detected", "manual", "open", "sending",
                 "estimate", "timer", "failed"}
  /\ DOMAIN f.estimate = Kinds /\ DOMAIN f.timer = Kinds /\ DOMAIN f.failed = Kinds
CallShape(c) == DOMAIN c = {"kind", "inputs", "live"} /\ c.kind \in Kinds /\ c.live \in BOOLEAN
CreateShape == CreateFormShape(createForm) /\ \A c \in calls : CallShape(c)

\* What the effects still wait for is asked for the draft on screen, and until
\* something is to come the figures on screen are those of the draft.
EstimateComes(k) ==
  createForm.open /\ Rerun(k, createForm) =>
     \/ createForm.timer[k] \/ createForm.failed[k] \/ \E c \in calls : c.kind = k /\ c.live
     \/ createForm.estimate[k] = Inputs(createForm)
EstimatesOk == (\A c \in calls : c.live => c.inputs = Inputs(createForm)) /\ \A k \in Kinds : EstimateComes(k)

\* A task was detected in the metadata of its reference, or chosen.
FormTask(f) ==
  /\ f.detected.value # "" => f.detected.value = TaskOf[f.detected.url]
  /\ f.manual.value \in {"", "chat", "embedding"}
TasksOk == FormTask(createForm) /\ TaskTrue

\* The counters never fall behind what was started at them.
FlightShape(f) ==
  /\ f.kind \in {"search", "artifacts"} /\ f.req \in Nat /\ f.within \in Nat /\ f.within <= disc.sreq
  /\ f.req <= IF f.kind = "search" THEN disc.sreq ELSE disc.areq
DiscShape ==
  /\ DOMAIN disc = DOMAIN Disc0 /\ DOMAIN disc.lists = DOMAIN NoLists
  /\ disc.sreq \in Nat /\ disc.areq \in Nat /\ disc.epoch \in Nat
  /\ \A f \in flights : FlightShape(f)

\* The results on screen are those of the last query.
ShowsFound == disc.last \in DOMAIN Found /\ disc.lists.results = Found[disc.last]
FlightOk(f) ==
  /\ f.kind = "search" /\ Current(f) => f.q = disc.last /\ f.q \in DOMAIN Found /\ (f.append => ShowsFound)
  /\ f.kind = "artifacts" /\ Current(f) => f.q = disc.lists.repo
  /\ f.kind = "artifacts" /\ f.within # 0 /\ f.within = disc.sreq /\ f.epoch = disc.epoch => ShowsFound
ListsShown ==
  /\ ~disc.lists.searching => disc.lists.results = <<>> \/ ShowsFound
  /\ ~disc.lists.searching /\ disc.lists.more => ShowsFound
  /\ ~disc.lists.loading => disc.lists.artifacts \in {"", disc.lists.repo}
ListsOk == disc.failed \/ (ListsShown /\ \A f \in flights : FlightOk(f))

CreateInv == CreateShape /\ EstimatesOk /\ TasksOk /\ DiscShape /\ ListsOk

\* A change of the draft: either nothing the estimates depend on has changed, or
\* every effect starts anew (useEffect of LocalModelConfigurationForm).
LEMMA PageStep ==
  ASSUME CreateShape, EstimatesOk, NEW f, CreateFormShape(f), PageEffects(f),
         f.timer = createForm.timer, f.failed = createForm.failed, f.estimate = createForm.estimate, f.open = createForm.open
  PROVE  CreateShape' /\ EstimatesOk' /\ createForm'.detected = f.detected /\ createForm'.manual = f.manual
<1>1. CASE Inputs(f) = Inputs(createForm)
  <2>1. createForm' = f /\ calls' = calls
    BY <1>1 DEF PageEffects
  <2>2. \A k : Rerun(k, f) = Rerun(k, createForm)
    BY <1>1 DEF Inputs, Rerun
  <2>3. CreateShape'
    BY <2>1 DEF CreateShape, CallShape
  <2> HIDE DEF Inputs, Rerun
  <2>4. EstimatesOk'
    BY <1>1, <2>1, <2>2 DEF EstimatesOk, EstimateComes
  <2> QED
    BY <2>1, <2>3, <2>4
<1>2. CASE Inputs(f) # Inputs(createForm)
  <2> DEFINE g == [f EXCEPT !.failed = [k \in Kinds |-> FALSE], !.timer = [k \in Kinds |-> Rerun(k, f)],
                            !.estimate = [memory |-> IF f.url = "" THEN Blank ELSE f.estimate.memory, offload |-> Blank]]
  <2>1. createForm' = g /\ calls' = {[c EXCEPT !.live = FALSE] : c \in calls}
    BY <1>2 DEF PageEffects
  <2>2. \A c \in calls' : CallShape(c) /\ ~c.live
    BY <2>1 DEF CreateShape, CallShape
  <2>3. CreateFormShape(g)
    BY DEF CreateFormShape, Kinds
  <2>4. /\ g.url = f.url /\ g.offload = f.offload /\ g.target = f.target /\ g.detected = f.detected /\ g.manual = f.manual
        /\ g.timer = [k \in Kinds |-> Rerun(k, f)]
    BY DEF CreateFormShape
  <2>5. \A k \in Kinds : Rerun(k, g) => g.timer[k]
    BY <2>4 DEF Rerun
  <2> HIDE DEF g
  <2> QED
    BY <2>1, <2>2, <2>3, <2>4, <2>5 DEF CreateShape, EstimatesOk, EstimateComes
<1> QED
  BY <1>1, <1>2

\* What does not touch the draft's estimates leaves them as they are.
LEMMA EstimatesKept ==
  ASSUME CreateShape, EstimatesOk, CreateFormShape(createForm'), calls' = calls,
         Inputs(createForm') = Inputs(createForm), createForm'.timer = createForm.timer,
         createForm'.failed = createForm.failed, createForm'.estimate = createForm.estimate,
         createForm'.open => createForm.open
  PROVE  CreateShape' /\ EstimatesOk'
<1>1. \A k : Rerun(k, createForm') = Rerun(k, createForm)
  BY DEF Inputs, Rerun
<1>2. CreateShape'
  BY DEF CreateShape, CallShape
<1> HIDE DEF Inputs, Rerun
<1>3. EstimatesOk'
  BY <1>1 DEF EstimatesOk, EstimateComes
<1> QED
  BY <1>2, <1>3

\* A timer that runs out, an answer and an error of an estimate.
LEMMA EstimateStep ==
  ASSUME CreateShape, EstimatesOk, FormTask(createForm),
         \/ \E k \in Kinds : EstimateTimer(k)
         \/ \E c \in calls : EstimateAnswered(c) \/ EstimateRefused(c)
  PROVE  CreateShape' /\ EstimatesOk' /\ FormTask(createForm') /\ UNCHANGED <<disc, flights, added>>
<1>0. CreateFormShape(createForm) /\ \A c \in calls : CallShape(c)
  BY DEF CreateShape
<1>1. ASSUME NEW k \in Kinds, EstimateTimer(k)
      PROVE  CreateShape' /\ EstimatesOk' /\ FormTask(createForm') /\ UNCHANGED <<disc, flights, added>>
  <2> DEFINE g == [createForm EXCEPT !.timer[k] = FALSE]
             c == [kind |-> k, inputs |-> Inputs(createForm), live |-> TRUE]
  <2>1. createForm' = g /\ calls' = calls \cup {c} /\ UNCHANGED <<disc, flights, added>>
    BY <1>1 DEF EstimateTimer
  <2>2. /\ CreateFormShape(g) /\ Inputs(g) = Inputs(createForm)
        /\ g.open = createForm.open /\ g.failed = createForm.failed /\ g.estimate = createForm.estimate
        /\ g.detected = createForm.detected /\ g.manual = createForm.manual
        /\ \A j \in Kinds \ {k} : g.timer[j] = createForm.timer[j]
    BY <1>0 DEF CreateFormShape, Inputs, RequestedModelType, DetectedTask, ManualTask, TaskOfPreset
  <2>3. CallShape(c) /\ c.live /\ c.kind = k /\ c.inputs = Inputs(createForm)
    BY DEF CallShape
  <2>4. \A j : Rerun(j, g) = Rerun(j, createForm)
    BY <2>2 DEF Inputs, Rerun
  <2> HIDE DEF g, c
  <2> QED
    BY <1>0, <2>1, <2>2, <2>3, <2>4 DEF CreateShape, EstimatesOk, EstimateComes, FormTask
<1>2. ASSUME NEW call \in calls, EstimateAnswered(call), ~call.live
      PROVE  CreateShape' /\ EstimatesOk' /\ FormTask(createForm') /\ UNCHANGED <<disc, flights, added>>
  <2>1. createForm' = createForm /\ calls' = calls \ {call} /\ UNCHANGED <<disc, flights, added>>
    BY <1>2 DEF EstimateAnswered, Wanted
  <2> QED
    BY <1>0, <1>2, <2>1 DEF CreateShape, EstimatesOk, EstimateComes, FormTask
<1>3. ASSUME NEW call \in calls, EstimateAnswered(call), call.live
      PROVE  CreateShape' /\ EstimatesOk' /\ FormTask(createForm') /\ UNCHANGED <<disc, flights, added>>
  <2> DEFINE f == [createForm EXCEPT !.estimate[call.kind] = call.inputs,
                                     !.detected = [url |-> call.inputs.url, value |-> TaskOf[call.inputs.url]]]
             g == [f EXCEPT !.failed = [k \in Kinds |-> FALSE], !.timer = [k \in Kinds |-> Rerun(k, f)],
                            !.estimate.offload = Blank]
  <2>0. UNCHANGED <<disc, flights, added>> /\ call.kind \in Kinds /\ call.inputs = Inputs(createForm)
    BY <1>0, <1>3 DEF EstimateAnswered, EstimatesOk, CallShape
  <2>1. /\ CreateFormShape(f) /\ f.open = createForm.open /\ f.failed = createForm.failed /\ f.timer = createForm.timer
        /\ f.estimate[call.kind] = call.inputs /\ \A j \in Kinds \ {call.kind} : f.estimate[j] = createForm.estimate[j]
        /\ FormTask(f)
    BY <1>0, <2>0 DEF CreateFormShape, FormTask
  <2>2. CASE Inputs(f) = Inputs(createForm)
    <3>1. createForm' = f /\ calls' = calls \ {call}
      BY <1>3, <2>2 DEF EstimateAnswered, Wanted
    <3>2. \A k : Rerun(k, f) = Rerun(k, createForm)
      BY <2>2 DEF Inputs, Rerun
    <3> HIDE DEF f, Inputs, Rerun
    <3> QED
      BY <1>0, <2>0, <2>1, <2>2, <3>1, <3>2 DEF CreateShape, EstimatesOk, EstimateComes
  <2>3. CASE Inputs(f) # Inputs(createForm)
    <3>1. createForm' = g /\ calls' = {[c EXCEPT !.live = FALSE] : c \in calls \ {call}}
      BY <1>3, <2>3 DEF EstimateAnswered, Wanted
    <3>2. \A c \in calls' : CallShape(c) /\ ~c.live
      BY <1>0, <3>1 DEF CallShape
    <3> HIDE DEF f
    <3>3. CreateFormShape(g) /\ g.url = f.url /\ g.offload = f.offload /\ g.target = f.target /\ FormTask(g)
      BY <2>1 DEF CreateFormShape, FormTask
    <3>4. \A k \in Kinds : Rerun(k, g) => g.timer[k]
      BY <2>1, <3>3 DEF Rerun, CreateFormShape
    <3> HIDE DEF g
    <3> QED
      BY <2>0, <3>1, <3>2, <3>3, <3>4 DEF CreateShape, EstimatesOk, EstimateComes
  <2> QED
    BY <2>2, <2>3
<1>4. ASSUME NEW call \in calls, EstimateRefused(call)
      PROVE  CreateShape' /\ EstimatesOk' /\ FormTask(createForm') /\ UNCHANGED <<disc, flights, added>>
  <2>0. UNCHANGED <<disc, flights, added>> /\ calls' = calls \ {call} /\ CallShape(call)
    BY <1>0, <1>4 DEF EstimateRefused
  <2>1. CASE ~call.live
    <3>1. createForm' = createForm
      BY <1>4, <2>1 DEF EstimateRefused, Wanted
    <3> QED
      BY <1>0, <2>0, <2>1, <3>1 DEF CreateShape, EstimatesOk, EstimateComes, FormTask
  <2>2. CASE call.live
    <3> DEFINE g == [createForm EXCEPT !.failed[call.kind] = TRUE]
    <3>1. createForm' = g
      BY <1>4, <2>2 DEF EstimateRefused, Wanted
    <3>2. /\ CreateFormShape(g) /\ Inputs(g) = Inputs(createForm)
          /\ g.open = createForm.open /\ g.timer = createForm.timer /\ g.estimate = createForm.estimate
          /\ g.detected = createForm.detected /\ g.manual = createForm.manual
          /\ g.failed[call.kind] /\ \A j \in Kinds \ {call.kind} : g.failed[j] = createForm.failed[j]
      BY <1>0, <2>0 DEF CreateFormShape, CallShape, Inputs, RequestedModelType, DetectedTask, ManualTask, TaskOfPreset
    <3>3. \A j : Rerun(j, g) = Rerun(j, createForm)
      BY <3>2 DEF Inputs, Rerun
    <3> HIDE DEF g
    <3> QED
      BY <1>0, <2>0, <3>1, <3>2, <3>3 DEF CreateShape, EstimatesOk, EstimateComes, FormTask
  <2> QED
    BY <2>0, <2>1, <2>2 DEF CallShape
<1> QED
  BY <1>0, <1>1, <1>2, <1>3, <1>4 DEF CallShape

\* What is under way once a request is started or every counter goes on.
LEMMA NothingNew == \A s : New(s, s) = <<>>
<1> SUFFICES ASSUME NEW s PROVE New(s, s) = <<>>
  OBVIOUS
<1> DEFINE new == {i \in DOMAIN s : \A j \in DOMAIN s : s[j] # s[i]}
<1>1. new = {}
  OBVIOUS
<1>2. Cardinality(new) = 0
  BY <1>1, FS_EmptySet
<1> HIDE DEF new
<1>3. New(s, s) = [n \in 1 .. Cardinality(new) |-> s[CHOOSE i \in new : Cardinality({j \in new : j <= i}) = n]]
  BY DEF New, new
<1> QED
  BY <1>2, <1>3

\* A discovery panel that was reset or left: everything under way is outdated.
LEMMA PanelReset ==
  ASSUME DiscShape, flights' = flights,
         disc' = [disc EXCEPT !.epoch = @ + 1, !.sreq = @ + 1, !.areq = @ + 1, !.lists = NoLists]
  PROVE  DiscShape' /\ ListsOk'
<1>1. /\ DOMAIN disc' = DOMAIN Disc0 /\ disc'.lists = NoLists
      /\ disc'.sreq = disc.sreq + 1 /\ disc'.areq = disc.areq + 1 /\ disc'.epoch = disc.epoch + 1
  BY DEF DiscShape, Disc0, NoLists
<1>2. ASSUME NEW f \in flights PROVE FlightShape(f)' /\ FlightOk(f)'
  <2>1. disc.sreq \in Nat /\ disc.areq \in Nat /\ FlightShape(f)
    BY DEF DiscShape
  <2> QED
    BY <1>1, <2>1 DEF FlightShape, FlightOk, Current
<1>3. NoLists.results = <<>> /\ ~NoLists.more /\ NoLists.artifacts = ""
  BY DEF NoLists
<1>4. ListsShown'
  BY <1>1, <1>3 DEF ListsShown
<1> QED
  BY <1>1, <1>2, <1>4 DEF DiscShape, ListsOk

\* A search that starts (search, families, popular models, the next page).
LEMMA SearchStarts ==
  ASSUME DiscShape, ListsOk, NEW q, NEW append \in BOOLEAN, Searches(q, append), q \in DOMAIN Found \/ disc.failed,
         append => disc.failed \/ (ShowsFound /\ q = disc.last)
  PROVE  DiscShape' /\ ListsOk'
<1>1. /\ DOMAIN disc' = DOMAIN Disc0 /\ DOMAIN disc'.lists = DOMAIN NoLists /\ disc'.failed = disc.failed
      /\ disc'.sreq = disc.sreq + 1 /\ disc'.areq = disc.areq + 1 /\ disc'.epoch = disc.epoch /\ disc'.last = q
      /\ disc'.lists.searching = TRUE /\ disc'.lists.results = disc.lists.results /\ disc'.lists.repo = disc.lists.repo
      /\ disc'.lists.loading = disc.lists.loading
  BY DEF Searches, DiscShape, Disc0, NoLists
<1>2. disc'.lists.artifacts \in {disc.lists.artifacts, ""}
  BY DEF Searches, DiscShape, Disc0, NoLists
<1>3. PICK new : /\ flights' = flights \cup {new}
                 /\ new.kind = "search" /\ new.req = disc.sreq + 1 /\ new.within = 0 /\ new.q = q /\ new.append = append
  <2> DEFINE new == Flight("search", disc', q, append, 0)
  <2>1. new.kind = "search" /\ new.req = disc.sreq + 1 /\ new.within = 0 /\ new.q = q /\ new.append = append
    BY <1>1 DEF Flight
  <2>2. flights' = flights \cup {new}
    BY DEF Searches
  <2> HIDE DEF new
  <2> QED
    BY <2>1, <2>2
<1>4. \A f \in flights' : FlightShape(f)'
  BY <1>1, <1>3 DEF DiscShape, FlightShape
<1>5. \A f \in flights : FlightOk(f)'
  BY <1>1 DEF DiscShape, FlightShape, FlightOk, Current, ShowsFound
<1>6. disc.failed \/ FlightOk(new)'
  BY <1>1, <1>3 DEF FlightOk, ShowsFound, ListsOk
<1>7. disc.failed \/ ListsShown'
  BY <1>1, <1>2 DEF ListsOk, ListsShown
<1> QED
  BY <1>1, <1>3, <1>4, <1>5, <1>6, <1>7 DEF DiscShape, ListsOk

\* A list of artifacts that is asked for: every earlier one is outdated.
LEMMA ListLoads ==
  ASSUME DiscShape, NEW d, NEW repo, NEW within \in Nat, within <= disc.sreq, NEW old, old \subseteq flights,
         DOMAIN d = DOMAIN Disc0, DOMAIN d.lists = DOMAIN NoLists,
         d.sreq = disc.sreq, d.areq = disc.areq, d.epoch = disc.epoch, d.last = disc.last, d.failed = disc.failed,
         disc' = LoadStarts(d, repo), flights' = old \cup {Flight("artifacts", disc', repo, FALSE, within)},
         disc.failed \/ d.lists.results = disc.lists.results \/ (d.last \in DOMAIN Found /\ d.lists.results = Found[d.last]),
         disc.failed \/ (within # 0 => d.last \in DOMAIN Found /\ d.lists.results = Found[d.last]),
         disc.failed \/ d.lists.searching \/ d.lists.results = <<>> \/ (d.last \in DOMAIN Found /\ d.lists.results = Found[d.last]),
         disc.failed \/ d.lists.searching \/ ~d.lists.more \/ (d.last \in DOMAIN Found /\ d.lists.results = Found[d.last]),
         ListsOk
  PROVE  DiscShape' /\ ListsOk'
<1>1. /\ DOMAIN disc' = DOMAIN Disc0 /\ DOMAIN disc'.lists = DOMAIN NoLists /\ disc'.failed = disc.failed
      /\ disc'.sreq = disc.sreq /\ disc'.areq = disc.areq + 1 /\ disc'.epoch = disc.epoch /\ disc'.last = disc.last
      /\ disc'.lists.searching = d.lists.searching /\ disc'.lists.results = d.lists.results /\ disc'.lists.repo = repo
      /\ disc'.lists.more = d.lists.more /\ disc'.lists.loading = TRUE
  BY DEF LoadStarts, Disc0, NoLists
<1>3. PICK new : /\ flights' = old \cup {new}
                 /\ new.kind = "artifacts" /\ new.req = disc.areq + 1 /\ new.within = within /\ new.q = repo
  <2> DEFINE new == Flight("artifacts", disc', repo, FALSE, within)
  <2>1. new.kind = "artifacts" /\ new.req = disc.areq + 1 /\ new.within = within /\ new.q = repo
    BY <1>1 DEF Flight
  <2>2. flights' = old \cup {new}
    OBVIOUS
  <2> HIDE DEF new
  <2> QED
    BY <2>1, <2>2
<1>4. \A f \in flights' : FlightShape(f)'
  <2>1. disc.sreq \in Nat /\ disc.areq \in Nat /\ \A f \in old : FlightShape(f)
    BY DEF DiscShape
  <2>2. \A f \in old : FlightShape(f)'
    BY <1>1, <2>1 DEF FlightShape
  <2>3. FlightShape(new)'
    BY <1>1, <1>3, <2>1 DEF FlightShape
  <2> QED
    BY <1>3, <2>2, <2>3
<1>5. disc.failed \/ (ShowsFound => ShowsFound')
  BY <1>1 DEF ShowsFound
<1>6. \A f \in old : disc.failed \/ FlightOk(f)'
  BY <1>1, <1>5 DEF DiscShape, FlightShape, FlightOk, Current, ListsOk
<1>7. disc.failed \/ FlightOk(new)'
  BY <1>1, <1>3 DEF FlightOk, ShowsFound
<1>8. disc.failed \/ ListsShown'
  BY <1>1 DEF ListsShown, ShowsFound
<1>9. DiscShape'
  <2>1. disc.sreq \in Nat /\ disc.areq + 1 \in Nat /\ disc.epoch \in Nat
    BY DEF DiscShape
  <2> QED
    BY <1>1, <1>4, <2>1 DEF DiscShape
<1>10. ListsOk'
  BY <1>1, <1>3, <1>6, <1>7, <1>8 DEF ListsOk
<1> QED
  BY <1>9, <1>10

\* The first artifacts of a search end it, if no other search was started.
LEMMA OverFieldsOf ==
  ASSUME NEW d, NEW f, DOMAIN d = DOMAIN Disc0, DOMAIN d.lists = DOMAIN NoLists
  PROVE  LET e == SearchOver(d, f) IN
         /\ DOMAIN e = DOMAIN Disc0 /\ DOMAIN e.lists = DOMAIN NoLists /\ e.failed = d.failed
         /\ e.sreq = d.sreq /\ e.areq = d.areq /\ e.epoch = d.epoch /\ e.last = d.last
         /\ e.lists.results = d.lists.results /\ e.lists.repo = d.lists.repo /\ e.lists.artifacts = d.lists.artifacts
         /\ e.lists.loading = d.lists.loading /\ e.lists.more = d.lists.more
         /\ e.lists.searching = d.lists.searching
            \/ (f.within # 0 /\ f.within = d.sreq /\ f.epoch = d.epoch /\ ~e.lists.searching)
BY DEF SearchOver, Disc0, NoLists

\* An answer of the discovery service.
LEMMA SearchStep ==
  ASSUME DiscShape, ListsOk, NEW f \in flights, SearchAnswered(f)
  PROVE  DiscShape' /\ ListsOk'
<1>0. f.kind = "search" /\ FlightShape(f)
  BY DEF SearchAnswered, DiscShape
<1> DEFINE found == Found[f.q]
           shown == [disc EXCEPT !.lists.results = IF f.append THEN @ \o New(@, found) ELSE found,
                                 !.lists.more = ~f.append, !.lists.searching = ~f.append /\ found # <<>>]
<1>1. CASE ~Current(f)
  <2>1. disc' = disc /\ flights' \subseteq flights
    BY <1>1 DEF SearchAnswered
  <2> QED
    BY <2>1 DEF DiscShape, ListsOk, FlightShape, FlightOk, Current, ListsShown, ShowsFound
<1>2. CASE Current(f)
  <2>1. IF f.append \/ found = <<>> THEN disc' = shown /\ flights' = flights \ {f}
        ELSE /\ disc' = LoadStarts(shown, Head(found))
             /\ flights' = (flights \ {f}) \cup {Flight("artifacts", disc', Head(found), FALSE, f.req)}
    BY <1>2 DEF SearchAnswered
  <2>2. /\ DOMAIN shown = DOMAIN Disc0 /\ DOMAIN shown.lists = DOMAIN NoLists /\ shown.failed = disc.failed
        /\ shown.sreq = disc.sreq /\ shown.areq = disc.areq /\ shown.epoch = disc.epoch /\ shown.last = disc.last
        /\ shown.lists.results = (IF f.append THEN disc.lists.results \o New(disc.lists.results, found) ELSE found)
        /\ shown.lists.searching = (~f.append /\ found # <<>>) /\ shown.lists.repo = disc.lists.repo
        /\ shown.lists.loading = disc.lists.loading /\ shown.lists.artifacts = disc.lists.artifacts
    BY DEF DiscShape, Disc0, NoLists
  <2>3. disc.failed \/ (disc.last \in DOMAIN Found /\ shown.lists.results = Found[disc.last])
    <3>1. SUFFICES ASSUME ~disc.failed PROVE disc.last \in DOMAIN Found /\ shown.lists.results = Found[disc.last]
      OBVIOUS
    <3>2. f.q = disc.last /\ f.q \in DOMAIN Found /\ (f.append => ShowsFound)
      BY <1>0, <1>2, <3>1 DEF ListsOk, FlightOk
    <3>3. CASE f.append
      <4>1. shown.lists.results = Found[f.q] \o New(Found[f.q], Found[f.q])
        BY <2>2, <3>2, <3>3 DEF ShowsFound
      <4>2. Found[f.q] \in Seq(References)
        BY <3>2, FoundAssumption
      <4>3. Found[f.q] \o <<>> = Found[f.q]
        BY <4>2
      <4> QED
        BY <3>2, <4>1, <4>3, NothingNew
    <3>4. CASE ~f.append
      BY <2>2, <3>2, <3>4
    <3> QED
      BY <3>3, <3>4
  <2> HIDE DEF shown
  <2>4. CASE f.append \/ found = <<>>
    <3>1. disc' = shown /\ flights' = flights \ {f} /\ ~shown.lists.searching
      BY <2>1, <2>2, <2>4
    <3>2. \A g \in flights' : FlightShape(g)'
      BY <2>2, <3>1 DEF DiscShape, FlightShape
    <3>3. disc.failed \/ (ShowsFound' /\ ListsShown')
      BY <2>2, <2>3, <3>1 DEF ListsOk, ListsShown, ShowsFound
    <3>4. disc.failed \/ \A g \in flights' : FlightOk(g)'
      BY <2>2, <3>1, <3>3 DEF ListsOk, FlightOk, Current
    <3> QED
      BY <2>2, <3>1, <3>2, <3>3, <3>4 DEF DiscShape, ListsOk
  <2>5. CASE ~(f.append \/ found = <<>>)
    <3>1. /\ disc' = LoadStarts(shown, Head(found))
          /\ flights' = (flights \ {f}) \cup {Flight("artifacts", disc', Head(found), FALSE, f.req)}
          /\ shown.lists.searching
      BY <2>1, <2>2, <2>5
    <3>2. f.req \in Nat /\ f.req <= disc.sreq
      BY <1>0 DEF FlightShape
    <3>3. flights \ {f} \subseteq flights
      OBVIOUS
    <3>4. disc.failed \/ (f.req # 0 => shown.last \in DOMAIN Found /\ shown.lists.results = Found[shown.last])
      BY <2>2, <2>3
    <3> DEFINE old == flights \ {f}
               repo == Head(found)
    <3> HIDE DEF found, old, repo
    <3>5. /\ disc' = LoadStarts(shown, repo)
          /\ flights' = old \cup {Flight("artifacts", disc', repo, FALSE, f.req)} /\ old \subseteq flights
      BY <3>1, <3>3 DEF old, repo
    <3> QED
      BY <2>2, <2>3, <3>1, <3>2, <3>4, <3>5, ListLoads
  <2> QED
    BY <2>4, <2>5
<1> QED
  BY <1>1, <1>2

LEMMA ArtifactsStep ==
  ASSUME DiscShape, ListsOk, NEW f \in flights, ArtifactsAnswered(f)
  PROVE  DiscShape' /\ ListsOk'
<1> DEFINE d == [disc EXCEPT !.lists.artifacts = f.q, !.lists.loading = FALSE]
<1>0. f.kind = "artifacts" /\ FlightShape(f) /\ flights' = flights \ {f} /\ DOMAIN disc = DOMAIN Disc0 /\ DOMAIN disc.lists = DOMAIN NoLists
  BY DEF ArtifactsAnswered, DiscShape
<1>1. IF Current(f) THEN disc' = SearchOver(d, f) ELSE disc' = SearchOver(disc, f)
  BY DEF ArtifactsAnswered
<1>2. PICK e : disc' = SearchOver(e, f) /\ (e = disc \/ (e = d /\ Current(f)))
  BY <1>1
<1>3. /\ DOMAIN e = DOMAIN Disc0 /\ DOMAIN e.lists = DOMAIN NoLists /\ e.failed = disc.failed
      /\ e.sreq = disc.sreq /\ e.areq = disc.areq /\ e.epoch = disc.epoch /\ e.last = disc.last
      /\ e.lists.results = disc.lists.results /\ e.lists.repo = disc.lists.repo /\ e.lists.more = disc.lists.more
      /\ e.lists.searching = disc.lists.searching
      /\ \/ e.lists.artifacts = disc.lists.artifacts /\ e.lists.loading = disc.lists.loading
         \/ e.lists.artifacts = f.q /\ Current(f)
  <2>1. CASE e = disc
    BY <1>0, <2>1
  <2>2. CASE e = d /\ Current(f)
    BY <1>0, <2>2 DEF Disc0, NoLists
  <2> QED
    BY <1>2, <2>1, <2>2
<1> HIDE DEF d
<1>4. /\ DOMAIN disc' = DOMAIN Disc0 /\ DOMAIN disc'.lists = DOMAIN NoLists /\ disc'.failed = disc.failed
      /\ disc'.sreq = disc.sreq /\ disc'.areq = disc.areq /\ disc'.epoch = disc.epoch /\ disc'.last = disc.last
      /\ disc'.lists.results = disc.lists.results /\ disc'.lists.repo = disc.lists.repo /\ disc'.lists.more = disc.lists.more
      /\ disc'.lists.searching = disc.lists.searching
         \/ (f.within # 0 /\ f.within = disc.sreq /\ f.epoch = disc.epoch /\ ~disc'.lists.searching)
      /\ \/ disc'.lists.artifacts = disc.lists.artifacts /\ disc'.lists.loading = disc.lists.loading
         \/ disc'.lists.artifacts = f.q /\ Current(f)
  BY <1>2, <1>3, OverFieldsOf
<1>5. ShowsFound' = ShowsFound
  BY <1>4 DEF ShowsFound
<1>6. \A g \in flights' : FlightShape(g)'
  BY <1>0, <1>4 DEF DiscShape, FlightShape
<1>7. disc.failed \/ \A g \in flights' : FlightOk(g)'
  BY <1>0, <1>4, <1>5 DEF ListsOk, FlightOk, Current
<1>8. disc.failed \/ ListsShown'
  BY <1>0, <1>4, <1>5 DEF ListsOk, ListsShown, FlightOk
<1> QED
  BY <1>4, <1>6, <1>7, <1>8 DEF DiscShape, ListsOk

LEMMA DiscoveryFailStep ==
  ASSUME DiscShape, NEW f \in flights, DiscoveryFails(f)
  PROVE  DiscShape' /\ ListsOk'
<1> DEFINE d == [disc EXCEPT !.failed = TRUE]
           broken == [d EXCEPT !.lists.broken = TRUE,
                               !.lists.searching = IF f.kind = "search" THEN FALSE ELSE @,
                               !.lists.loading = IF f.kind = "artifacts" THEN FALSE ELSE @]
<1>1. flights' = flights \ {f} /\ disc' \in {SearchOver(d, f), SearchOver(broken, f)}
  BY DEF DiscoveryFails
<1>2. \A e \in {d, broken} : /\ DOMAIN e = DOMAIN Disc0 /\ DOMAIN e.lists = DOMAIN NoLists /\ e.failed = TRUE
                             /\ e.sreq = disc.sreq /\ e.areq = disc.areq /\ e.epoch = disc.epoch
  BY DEF DiscShape, Disc0, NoLists
<1> HIDE DEF d, broken
<1>3. /\ DOMAIN disc' = DOMAIN Disc0 /\ DOMAIN disc'.lists = DOMAIN NoLists /\ disc'.failed = TRUE
      /\ disc'.sreq = disc.sreq /\ disc'.areq = disc.areq /\ disc'.epoch = disc.epoch
  BY <1>1, <1>2, OverFieldsOf
<1> QED
  BY <1>1, <1>3 DEF DiscShape, FlightShape, ListsOk

\* A change of the draft leaves the panel and what was sent alone.
LEMMA DraftStep ==
  ASSUME CreateInv, NEW f, CreateFormShape(f), FormTask(f), PageEffects(f),
         f.timer = createForm.timer, f.failed = createForm.failed, f.estimate = createForm.estimate, f.open = createForm.open,
         added' = added
  PROVE  CreateShape' /\ EstimatesOk' /\ TasksOk'
<1>1. CreateShape' /\ EstimatesOk' /\ createForm'.detected = f.detected /\ createForm'.manual = f.manual
  BY PageStep DEF CreateInv
<1> QED
  BY <1>1 DEF CreateInv, TasksOk, FormTask, TaskTrue

\* The fields the administrator changes are none of those the effects keep.
SameEffects(f, g) ==
  /\ CreateFormShape(g) /\ g.detected = f.detected /\ (g.manual = f.manual \/ g.manual.value \in {"chat", "embedding"})
  /\ g.timer = f.timer /\ g.failed = f.failed /\ g.estimate = f.estimate /\ g.open = f.open
LEMMA DraftFields ==
  ASSUME NEW f, CreateFormShape(f)
  PROVE  /\ \A u, c : SameEffects(f, [f EXCEPT !.url = u, !.ctx = c])
         /\ \A u : SameEffects(f, [f EXCEPT !.url = u])
         /\ \A c : SameEffects(f, [f EXCEPT !.ctx = c])
         /\ \A s : SameEffects(f, [f EXCEPT !.source = s])
         /\ \A p, u, c : SameEffects(f, [f EXCEPT !.preset = p, !.url = u, !.ctx = c])
         /\ \A o : SameEffects(f, [f EXCEPT !.offload = o])
         /\ \A t, o : SameEffects(f, [f EXCEPT !.target = t, !.offload = o])
         /\ \A u, t : t \in {"chat", "embedding"} => SameEffects(f, [f EXCEPT !.manual = [url |-> u, value |-> t]])
BY DEF CreateFormShape, SameEffects

LEMMA SendingFields ==
  ASSUME NEW b, CreateFormShape(createForm), createForm' = [createForm EXCEPT !.sending = b]
  PROVE  /\ CreateFormShape(createForm') /\ createForm'.detected = createForm.detected /\ createForm'.manual = createForm.manual
         /\ createForm'.timer = createForm.timer /\ createForm'.failed = createForm.failed
         /\ createForm'.estimate = createForm.estimate /\ createForm'.open = createForm.open
         /\ Inputs(createForm') = Inputs(createForm)
BY DEF CreateFormShape, Inputs, RequestedModelType, DetectedTask, ManualTask, TaskOfPreset

\* What is sent carries a task that was detected or chosen for its reference.
LEMMA PayloadTask ==
  ASSUME FormTask(createForm), createForm.url # "", ModelType(createForm) # ""
  PROVE  LET m == CreatePayload IN
         ~m.preset => IF m.type = "auto" THEN TaskOf[m.ref] # "" ELSE m.asked = m.ref
<1> SUFFICES ASSUME ~CreatePayload.preset
             PROVE  IF CreatePayload.type = "auto" THEN TaskOf[CreatePayload.ref] # "" ELSE CreatePayload.asked = CreatePayload.ref
  OBVIOUS
<1>1. ~(createForm.source = "preset" /\ createForm.preset # "")
  BY DEF CreatePayload
<1>2. /\ CreatePayload.ref = createForm.url /\ CreatePayload.asked = createForm.manual.url
      /\ CreatePayload.type = IF DetectedTask(createForm) # "" THEN "auto" ELSE ModelType(createForm)
  BY <1>1 DEF CreatePayload
<1>3. TaskOfPreset(createForm) = ""
  BY <1>1 DEF TaskOfPreset
<1>4. CASE DetectedTask(createForm) # ""
  <2>1. createForm.detected.url = createForm.url /\ createForm.detected.value # ""
    BY <1>3, <1>4 DEF DetectedTask
  <2> QED
    BY <1>2, <1>4, <2>1 DEF FormTask
<1>5. CASE DetectedTask(createForm) = ""
  <2>1. ManualTask(createForm) # "" /\ ModelType(createForm) = ManualTask(createForm)
    BY <1>5 DEF ModelType
  <2>2. createForm.manual.url = createForm.url /\ ManualTask(createForm) = createForm.manual.value
    BY <2>1 DEF ManualTask
  <2>3. ModelType(createForm) # "auto"
    BY <2>1, <2>2 DEF FormTask
  <2> QED
    BY <1>2, <1>5, <2>2, <2>3
<1> QED
  BY <1>4, <1>5

LEMMA ModelCreateStep ==
  ASSUME CreateInv, [ModelCreateNext]_createVars
  PROVE  CreateInv'
<1>0. /\ CreateShape /\ EstimatesOk /\ TasksOk /\ DiscShape /\ ListsOk
      /\ CreateFormShape(createForm) /\ FormTask(createForm) /\ TaskTrue
  BY DEF CreateInv, CreateShape, TasksOk
<1>a. ASSUME UNCHANGED <<disc, flights>> PROVE DiscShape' /\ ListsOk'
  BY <1>0, <1>a DEF DiscShape, FlightShape, ListsOk, ListsShown, FlightOk, Current, ShowsFound
<1>b. ASSUME UNCHANGED <<createForm, calls, added>> PROVE CreateShape' /\ EstimatesOk' /\ TasksOk'
  BY <1>0, <1>b DEF CreateShape, CreateFormShape, CallShape, EstimatesOk, EstimateComes, TasksOk, FormTask, TaskTrue
<1>e. ASSUME added' = added, \E f : PageEffects(f) /\ SameEffects(createForm, f)
      PROVE  CreateShape' /\ EstimatesOk' /\ TasksOk'
  <2>1. PICK f : PageEffects(f) /\ SameEffects(createForm, f)
    BY <1>e
  <2>2. FormTask(f) /\ CreateFormShape(f)
    BY <1>0, <2>1 DEF FormTask, SameEffects
  <2> QED
    BY <1>e, <2>1, <2>2, DraftStep DEF SameEffects
<1>1. CASE \/ \E k \in Kinds : EstimateTimer(k)
           \/ \E c \in calls : EstimateAnswered(c) \/ EstimateRefused(c)
  <2>1. CreateShape' /\ EstimatesOk' /\ FormTask(createForm') /\ UNCHANGED <<disc, flights, added>>
    BY <1>0, <1>1, EstimateStep
  <2> QED
    BY <1>0, <1>a, <2>1 DEF CreateInv, TasksOk, TaskTrue, FormTask
<1>2. ASSUME NEW f \in flights, SearchAnswered(f) PROVE CreateInv'
  <2>1. UNCHANGED <<createForm, calls, added>>
    BY <1>2 DEF SearchAnswered, Quiet
  <2> QED
    BY <1>0, <1>2, <1>b, <2>1, SearchStep DEF CreateInv
<1>3. ASSUME NEW f \in flights, ArtifactsAnswered(f) PROVE CreateInv'
  <2>1. DiscShape' /\ ListsOk'
    BY <1>0, <1>3, ArtifactsStep
  <2>2. added' = added /\ (ApplyModel(f.q) \/ UNCHANGED <<createForm, calls>>)
    BY <1>3 DEF ArtifactsAnswered, Quiet
  <2>3. CASE ApplyModel(f.q)
    <3>1. \E g : PageEffects(g) /\ SameEffects(createForm, g)
      BY <1>0, <2>3, DraftFields, Zenon DEF ApplyModel
    <3> QED
      BY <1>e, <2>1, <2>2, <3>1 DEF CreateInv
  <2> QED
    BY <1>b, <2>1, <2>2, <2>3 DEF CreateInv
<1>4. ASSUME NEW f \in flights, DiscoveryFails(f) PROVE CreateInv'
  <2>1. UNCHANGED <<createForm, calls, added>>
    BY <1>4 DEF DiscoveryFails
  <2> QED
    BY <1>0, <1>4, <1>b, <2>1, DiscoveryFailStep DEF CreateInv
<1>5. CASE MoreModels \/ \E q \in DOMAIN Found : RunSearch(q)
  <2>1. UNCHANGED <<createForm, calls, added>>
    BY <1>5 DEF MoreModels, RunSearch, Quiet
  <2>2. CASE MoreModels
    <3>1. Searches(disc.last, TRUE) /\ disc.lists.more /\ ~disc.lists.searching
      BY <2>2 DEF MoreModels, SearchLists
    <3>2. disc.failed \/ ShowsFound
      BY <1>0, <3>1 DEF ListsOk, ListsShown
    <3>3. disc.failed \/ disc.last \in DOMAIN Found
      BY <3>2 DEF ShowsFound
    <3> QED
      BY <1>0, <1>b, <2>1, <3>1, <3>2, <3>3, SearchStarts DEF CreateInv
  <2>3. ASSUME NEW q \in DOMAIN Found, RunSearch(q) PROVE CreateInv'
    <3>1. Searches(q, FALSE)
      BY <2>3 DEF RunSearch
    <3> QED
      BY <1>0, <1>b, <2>1, <3>1, SearchStarts DEF CreateInv
  <2> QED
    BY <1>5, <2>2, <2>3
<1>6. ASSUME NEW r \in References, LoadArtifacts(r) PROVE CreateInv'
  <2>1. /\ UNCHANGED <<createForm, calls, added>> /\ disc' = LoadStarts(disc, r)
        /\ flights' = flights \cup {Flight("artifacts", disc', r, FALSE, 0)}
    BY <1>6 DEF LoadArtifacts, Quiet
  <2>2. /\ DOMAIN disc = DOMAIN Disc0 /\ DOMAIN disc.lists = DOMAIN NoLists /\ 0 <= disc.sreq /\ flights \subseteq flights
    BY <1>0 DEF DiscShape
  <2>3. /\ disc.failed \/ disc.lists.searching \/ disc.lists.results = <<>> \/ (disc.last \in DOMAIN Found /\ disc.lists.results = Found[disc.last])
        /\ disc.failed \/ disc.lists.searching \/ ~disc.lists.more \/ (disc.last \in DOMAIN Found /\ disc.lists.results = Found[disc.last])
    BY <1>0 DEF ListsOk, ListsShown, ShowsFound
  <2>4. DiscShape' /\ ListsOk'
    BY <1>0, <2>1, <2>2, <2>3, ListLoads
  <2> QED
    BY <1>b, <2>1, <2>4 DEF CreateInv
<1>8. CASE \/ SelectArtifact \/ \E r \in References : TypeReference(r)
           \/ \E s \in {"search", "preset", "direct"} : SelectSource(s)
           \/ \E p \in DOMAIN Presets : SelectPreset(p)
           \/ ChangeContext \/ UseOffloading \/ \E t \in {"chat", "embedding"} : ChooseTask(t)
  <2>1. UNCHANGED <<disc, flights, added>>
    BY <1>8 DEF SelectArtifact, TypeReference, SelectSource, SelectPreset, ChangeContext, UseOffloading, ChooseTask, Quiet
  <2>2. \E f : PageEffects(f) /\ SameEffects(createForm, f)
    <3>1. CASE SelectArtifact
      BY <1>0, <3>1, DraftFields, Zenon DEF SelectArtifact, ApplyModel
    <3>2. CASE \E r \in References : TypeReference(r)
      BY <1>0, <3>2, DraftFields, Zenon DEF TypeReference
    <3>3. CASE \E s \in {"search", "preset", "direct"} : SelectSource(s)
      BY <1>0, <3>3, DraftFields, Zenon DEF SelectSource
    <3>4. CASE \E p \in DOMAIN Presets : SelectPreset(p)
      <4>1. PICK p : PageEffects([createForm EXCEPT !.preset = p, !.url = Presets[p].url, !.ctx = 1])
        BY <3>4 DEF SelectPreset
      <4>2. SameEffects(createForm, [createForm EXCEPT !.preset = p, !.url = Presets[p].url, !.ctx = 1])
        BY <1>0, DraftFields, Zenon
      <4> QED
        BY <4>1, <4>2, Zenon
    <3>5. CASE ChangeContext \/ UseOffloading
      BY <1>0, <3>5, DraftFields, Zenon DEF ChangeContext, UseOffloading
    <3>6. CASE \E t \in {"chat", "embedding"} : ChooseTask(t)
      BY <1>0, <3>6, DraftFields, Zenon DEF ChooseTask
    <3> QED
      BY <1>8, <3>1, <3>2, <3>3, <3>4, <3>5, <3>6
  <2> QED
    BY <1>e, <1>a, <2>1, <2>2 DEF CreateInv
<1>9. ASSUME NEW t \in Targets, SelectHardware(t) PROVE CreateInv'
  <2>1. /\ disc' = [disc EXCEPT !.epoch = @ + 1, !.sreq = @ + 1, !.areq = @ + 1, !.lists = NoLists] /\ flights' = flights
        /\ PageEffects([createForm EXCEPT !.target = t, !.offload = FALSE]) /\ added' = added
    BY <1>9 DEF SelectHardware, ResetLists, Quiet
  <2>2. DiscShape' /\ ListsOk'
    BY <1>0, <2>1, PanelReset
  <2>3. \E f : PageEffects(f) /\ SameEffects(createForm, f)
    BY <1>0, <2>1, DraftFields, Zenon
  <2> QED
    BY <1>e, <2>1, <2>2, <2>3 DEF CreateInv
<1>10. CASE CreateModel
  <2>1. /\ createForm' = [createForm EXCEPT !.sending = TRUE] /\ added' = {CreatePayload}
        /\ UNCHANGED <<calls, disc, flights>> /\ createForm.url # "" /\ ModelType(createForm) # ""
    BY <1>10 DEF CreateModel
  <2>2. /\ CreateFormShape(createForm') /\ createForm'.detected = createForm.detected /\ createForm'.manual = createForm.manual
        /\ createForm'.timer = createForm.timer /\ createForm'.failed = createForm.failed
        /\ createForm'.estimate = createForm.estimate /\ createForm'.open = createForm.open
        /\ Inputs(createForm') = Inputs(createForm)
    BY <1>0, <2>1, SendingFields
  <2>3. CreateShape' /\ EstimatesOk'
    BY <1>0, <2>1, <2>2, EstimatesKept
  <2>4. TaskTrue'
    BY <1>0, <2>1, PayloadTask DEF TaskTrue
  <2> QED
    BY <1>0, <1>a, <2>1, <2>2, <2>3, <2>4 DEF CreateInv, TasksOk, FormTask
<1>11. CASE CreationRefused
  <2>1. /\ createForm' = [createForm EXCEPT !.sending = FALSE] /\ added' = {}
        /\ UNCHANGED <<calls, disc, flights>>
    BY <1>11 DEF CreationRefused
  <2>2. /\ CreateFormShape(createForm') /\ createForm'.detected = createForm.detected /\ createForm'.manual = createForm.manual
        /\ createForm'.timer = createForm.timer /\ createForm'.failed = createForm.failed
        /\ createForm'.estimate = createForm.estimate /\ createForm'.open = createForm.open
        /\ Inputs(createForm') = Inputs(createForm)
    BY <1>0, <2>1, SendingFields
  <2>3. CreateShape' /\ EstimatesOk'
    BY <1>0, <2>1, <2>2, EstimatesKept
  <2> QED
    BY <1>0, <1>a, <2>1, <2>2, <2>3 DEF CreateInv, TasksOk, FormTask, TaskTrue
<1>12. CASE ModelCreated
  <2> DEFINE g == [createForm EXCEPT !.open = FALSE, !.sending = FALSE, !.timer = [k \in Kinds |-> FALSE]]
  <2>1. /\ createForm' = g /\ calls' = {[c EXCEPT !.live = FALSE] : c \in calls} /\ UNCHANGED <<flights, added>>
        /\ disc' = [disc EXCEPT !.epoch = @ + 1, !.sreq = @ + 1, !.areq = @ + 1, !.lists = NoLists]
    BY <1>12 DEF ModelCreated
  <2>2. CreateFormShape(g) /\ g.detected = createForm.detected /\ g.manual = createForm.manual /\ ~g.open
    BY <1>0 DEF CreateFormShape
  <2>3. \A c \in calls' : CallShape(c) /\ ~c.live
    BY <1>0, <2>1 DEF CreateShape, CallShape
  <2> HIDE DEF g
  <2>4. DiscShape' /\ ListsOk'
    BY <1>0, <2>1, PanelReset
  <2> QED
    BY <1>0, <2>1, <2>2, <2>3, <2>4 DEF CreateInv, CreateShape, EstimatesOk, EstimateComes, TasksOk, FormTask, TaskTrue
<1>13. CASE UNCHANGED createVars
  BY <1>13, <1>a, <1>b DEF createVars, CreateInv
<1> QED
  BY <1>1, <1>2, <1>3, <1>4, <1>5, <1>6, <1>8, <1>9, <1>10, <1>11, <1>12, <1>13 DEF ModelCreateNext, DiscoveryAnswers

LEMMA CreateStarts ==
  ASSUME ModelCreateInit
  PROVE  CreateInv
<1>1. CreateFormShape(createForm) /\ ~Rerun("memory", createForm) /\ ~Rerun("offload", createForm) /\ FormTask(createForm)
  BY DEF ModelCreateInit, CreateFormShape, Rerun, FormTask
<1>2. calls = {} /\ disc = Disc0 /\ flights = {} /\ added = {}
  BY DEF ModelCreateInit
<1>3. CreateShape /\ EstimatesOk /\ TasksOk
  BY <1>1, <1>2 DEF CreateShape, EstimatesOk, EstimateComes, TasksOk, TaskTrue, Kinds
<1>4. DiscShape /\ disc.lists = NoLists
  BY <1>2 DEF DiscShape, Disc0
<1>5. ListsOk
  <2>1. ~NoLists.more /\ NoLists.results = <<>> /\ NoLists.artifacts = ""
    BY DEF NoLists
  <2>2. ListsShown
    BY <1>4, <2>1 DEF ListsShown
  <2> QED
    BY <1>2, <2>2 DEF ListsOk
<1> QED
  BY <1>3, <1>4, <1>5 DEF CreateInv

LEMMA CreateSound ==
  ASSUME CreateInv
  PROVE  EstimateShown /\ TaskTrue /\ ListsTrue
<1>1. EstimateShown
  BY DEF CreateInv, EstimatesOk, EstimateComes, EstimateShown
<1>2. TaskTrue
  BY DEF CreateInv, TasksOk
<1>3. ListsTrue
  BY DEF CreateInv, ListsOk, ListsShown, ShowsFound, ListsTrue, SearchLists
<1> QED
  BY <1>1, <1>2, <1>3

(***************************************************************************)
(* The routes of the dashboard.                                            *)
(***************************************************************************)
RouteOk(r) ==
  /\ r = Route(r.tab, r.system, r.settings, r.status)
  /\ r.tab \in Tabs /\ r.system \in SystemSections /\ r.settings \in SettingsSections /\ r.status \in StatusSections

LEMMA RouteFields ==
  ASSUME NEW tab \in Tabs, NEW system \in SystemSections, NEW settings \in SettingsSections, NEW status \in StatusSections
  PROVE  LET r == Route(tab, system, settings, status)
         IN  RouteOk(r) /\ r.tab = tab /\ r.system = system /\ r.settings = settings /\ r.status = status
  BY DEF Route, RouteOk

LEMMA Defaults ==
  /\ "overview" \in Tabs /\ "system" \in Tabs /\ "mesh" \in Tabs /\ "status" \in SystemSections /\ "settings" \in SystemSections
  /\ "license" \in SystemSections /\ "users" \in SystemSections
  /\ "domains" \in SettingsSections /\ "federated-sso" \in SettingsSections /\ "network" \in SettingsSections
  /\ "updates" \in SettingsSections /\ "overview" \in StatusSections /\ "model-cache" \in StatusSections
  /\ "regression" \in StatusSections
  BY DEF Tabs, SystemSections, SettingsSections, StatusSections

LEMMA SystemFields ==
  ASSUME NEW system \in SystemSections, NEW settings \in SettingsSections, NEW status \in StatusSections
  PROVE  LET r == SystemRoute(system, settings, status)
         IN  RouteOk(r) /\ r.tab = "system" /\ r.system = system /\ r.settings = settings /\ r.status = status
  BY RouteFields, Defaults DEF SystemRoute

\* Whatever is typed into the address bar leads to a page there is.
LEMMA LinksLead == \A path : RouteOk(InitialRoute(path))
<1> TAKE path
<1> DEFINE first == Part(path, 1)
           second == Part(path, 2)
           third == Part(path, 3)
<1>1. \A a, b : RouteOk(InSystem(a, b))
  <2> TAKE a, b
  <2>1. Section(b, StatusSections, "overview") \in StatusSections /\ Section(a, SystemSections, "status") \in SystemSections
        /\ Section(b, SettingsSections, "domains") \in SettingsSections
    BY Defaults DEF Section
  <2>2. CASE a \in {"model-cache", "regression"}
    BY <2>2, Defaults, SystemFields DEF InSystem
  <2>3. CASE a = "status"
    BY <2>1, <2>3, Defaults, SystemFields DEF InSystem
  <2>4. CASE a \in {"federated-sso", "network", "updates"}
    BY <2>4, Defaults, SystemFields DEF InSystem
  <2>5. CASE a \notin {"model-cache", "regression", "status", "federated-sso", "network", "updates"}
    BY <2>1, <2>5, Defaults, SystemFields DEF InSystem
  <2> QED
    BY <2>2, <2>3, <2>4, <2>5
<1>2. Section(second, SettingsSections, "domains") \in SettingsSections /\ Section(first, Tabs, "overview") \in Tabs
  BY Defaults DEF Section
<1>3. CASE MeshAlias(path)
  <2>1. InitialRoute(path) = Route("mesh", "status", "domains", "overview")
    BY <1>3 DEF InitialRoute, MeshAlias
  <2> QED
    BY <2>1, Defaults, RouteFields
<1>4. CASE ~MeshAlias(path)
  <2>1. \/ InitialRoute(path) = SystemRoute("settings", Section(second, SettingsSections, "domains"), "overview")
        \/ first \in {"license", "users"} /\ InitialRoute(path) = SystemRoute(first, "domains", "overview")
        \/ InitialRoute(path) = SystemRoute("settings", "federated-sso", "overview")
        \/ InitialRoute(path) = InSystem(second, third)
        \/ InitialRoute(path) = Route(Section(first, Tabs, "overview"), "status", "domains", "overview")
    BY <1>4 DEF InitialRoute
  <2> HIDE DEF first, second, third
  <2> QED
    BY <1>1, <1>2, <2>1, Defaults, SystemFields, RouteFields
<1> QED
  BY <1>3, <1>4

Rights == {"api-access", "mesh", "kubernetes-access", "settings", "license", "users", "power", "model-cache", "regression"}
Identities == {"kubernetes-access", "users", "federated-sso"}
\* A part of a page that the session has the rights for.
MaySee(s, x) == (x \in Rights => s.admin) /\ (x \in Identities => s.identity)

LEMMA ShownRoute ==
  ASSUME NEW s, s.known, NEW r, RouteOk(r)
  PROVE  LET a == ActiveRoute(s, r)
         IN  /\ RouteOk(a) /\ ActiveRoute(s, a) = a
             /\ MaySee(s, a.tab) /\ MaySee(s, a.system) /\ MaySee(s, a.settings) /\ MaySee(s, a.status)
<1> DEFINE t == Section(r.tab, AllowedTabs(s), "overview")
           y == Section(r.system, AllowedSystemSections(s), "status")
           g == Section(r.settings, AllowedSettingsSections(s), "domains")
           u == Section(r.status, AllowedStatusSections(s), "overview")
<1>1. ActiveRoute(s, r) = Route(t, y, g, u)
  BY DEF ActiveRoute
<1>2. /\ t \in Tabs /\ MaySee(s, t) /\ Section(t, AllowedTabs(s), "overview") = t
      /\ y \in SystemSections /\ MaySee(s, y) /\ Section(y, AllowedSystemSections(s), "status") = y
      /\ g \in SettingsSections /\ MaySee(s, g) /\ Section(g, AllowedSettingsSections(s), "domains") = g
      /\ u \in StatusSections /\ MaySee(s, u) /\ Section(u, AllowedStatusSections(s), "overview") = u
  <2>1. t \in Tabs /\ MaySee(s, t) /\ Section(t, AllowedTabs(s), "overview") = t
    BY Defaults DEF RouteOk, Section, AllowedTabs, AdminOf, IdentityOf, MaySee, Rights,
       Identities
  <2>2. y \in SystemSections /\ MaySee(s, y) /\ Section(y, AllowedSystemSections(s), "status") = y
    BY Defaults DEF RouteOk, Section, AllowedSystemSections, AdminOf, IdentityOf, MaySee,
       Rights, Identities
  <2>3. g \in SettingsSections /\ MaySee(s, g) /\ Section(g, AllowedSettingsSections(s), "domains") = g
    BY Defaults DEF RouteOk, Section, AllowedSettingsSections, SettingsSections, IdentityOf,
       MaySee, Rights, Identities
  <2>4. u \in StatusSections /\ MaySee(s, u) /\ Section(u, AllowedStatusSections(s), "overview") = u
    BY DEF RouteOk, Section, AllowedStatusSections, StatusSections, AdminOf, MaySee, Rights,
       Identities
  <2> QED
    BY <2>1, <2>2, <2>3, <2>4
<1> HIDE DEF t, y, g, u
<1>3. LET a == Route(t, y, g, u)
      IN  RouteOk(a) /\ a.tab = t /\ a.system = y /\ a.settings = g /\ a.status = u
  BY <1>2, RouteFields
<1>4. ActiveRoute(s, Route(t, y, g, u)) = Route(t, y, g, u)
  BY <1>2, <1>3 DEF ActiveRoute
<1> QED
  BY <1>1, <1>2, <1>3, <1>4

LEMMA Triple ==
  ASSUME NEW S, NEW a \in S, NEW b \in S, NEW c \in S
  PROVE  LET p == <<a, b>> \o <<c>>
         IN  p \in Seq(S) /\ Len(p) = 3 /\ p[1] = a /\ p[2] = b /\ p[3] = c
<1> DEFINE p == <<a, b>> \o <<c>>
<1>1. p \in Seq(S) /\ Len(p) = 3
  OBVIOUS
<1>2. p[1] = a /\ p[2] = b /\ p[3] = c
  OBVIOUS
<1> QED
  BY <1>1, <1>2

LEMMA Joined ==
  ASSUME NEW a, NEW b, NEW c
  PROVE  /\ <<a, b>> \o <<>> = <<a, b>>
         /\ LET p == <<a, b>> \o <<c>>
            IN  p \in Seq({a, b, c}) /\ Len(p) = 3 /\ p[1] = a /\ p[2] = b /\ p[3] = c
<1>1. <<a, b>> \o <<>> = <<a, b>>
  OBVIOUS
<1>2. a \in {a, b, c} /\ b \in {a, b, c} /\ c \in {a, b, c}
  OBVIOUS
<1> QED
  BY <1>1, <1>2, Triple

LEMMA JoinedNone ==
  ASSUME NEW S, NEW p \in Seq(S)
  PROVE  p \o <<>> = p
  OBVIOUS

LEMMA Parts1 == \A a : Part(<<a>>, 1) = a /\ Part(<<a>>, 2) = "" /\ Part(<<a>>, 3) = ""
  BY DEF Part

\* The address of a page, part by part.
LEMMA PathForms ==
  ASSUME NEW r, RouteOk(r)
  PROVE  LET p == PathOf(r)
         IN  /\ r.tab # "system" => Part(p, 1) = r.tab /\ Part(p, 2) = "" /\ Part(p, 3) = ""
             /\ r.tab = "system" =>
                  /\ Part(p, 1) = "system" /\ Part(p, 2) = r.system
                  /\ Part(p, 3) = IF r.system = "settings" /\ r.settings # "domains" THEN r.settings
                                  ELSE IF r.system = "status" /\ r.status # "overview" THEN r.status ELSE ""
<1>1. CASE r.tab # "system"
  <2>1. PathOf(r) = <<r.tab>>
    BY <1>1 DEF PathOf
  <2> QED
    BY <1>1, <2>1, Parts1
<1>2. CASE r.tab = "system"
  <2> DEFINE x == r.system
             g == r.settings
             u == r.status
             two == <<"system", x>>
             by_g == two \o <<g>>
             by_u == two \o <<u>>
  <2>1. PathOf(r) = <<"system", x>> \o (IF x = "settings" /\ g # "domains" THEN <<g>> ELSE <<>>)
                                   \o (IF x = "status" /\ u # "overview" THEN <<u>> ELSE <<>>)
    BY <1>2 DEF PathOf
  <2> HIDE DEF x, g, u
  <2>2. /\ two \o <<>> = two /\ Len(two) = 2 /\ two[1] = "system" /\ two[2] = x
        /\ by_g \o <<>> = by_g /\ Len(by_g) = 3 /\ by_g[1] = "system" /\ by_g[2] = x /\ by_g[3] = g
        /\ Len(by_u) = 3 /\ by_u[1] = "system" /\ by_u[2] = x /\ by_u[3] = u
    BY Joined, JoinedNone
  <2> HIDE DEF two
  <2>3. PathOf(r) = IF x = "settings" /\ g # "domains" THEN by_g ELSE IF x = "status" /\ u # "overview" THEN by_u ELSE two
    <3>1. CASE x = "settings" /\ g # "domains"
      BY <2>1, <2>2, <3>1 DEF two
    <3>2. CASE x = "status" /\ u # "overview"
      BY <2>1, <2>2, <3>2 DEF two
    <3>3. CASE ~(x = "settings" /\ g # "domains") /\ ~(x = "status" /\ u # "overview")
      BY <2>1, <2>2, <3>3 DEF two
    <3> QED
      BY <3>1, <3>2, <3>3
  <2> HIDE DEF by_g, by_u
  <2>4. /\ Part(two, 1) = "system" /\ Part(two, 2) = x /\ Part(two, 3) = ""
        /\ Part(by_g, 1) = "system" /\ Part(by_g, 2) = x /\ Part(by_g, 3) = g
        /\ Part(by_u, 1) = "system" /\ Part(by_u, 2) = x /\ Part(by_u, 3) = u
    BY <2>2 DEF Part
  <2> QED
    BY <1>2, <2>3, <2>4 DEF x, g, u
<1> QED
  BY <1>1, <1>2

\* A route and the one its address leads to show the same page.
SamePlace(q, r) ==
  /\ q.tab = r.tab
  /\ r.tab = "system" =>
       /\ q.system = r.system
       /\ r.system = "settings" => q.settings = r.settings
       /\ r.system = "status" => q.status = r.status

LEMMA RoundTrip ==
  ASSUME NEW r, RouteOk(r)
  PROVE  SamePlace(InitialRoute(PathOf(r)), r)
<1> DEFINE p == PathOf(r)
<1>0. "" \notin SettingsSections /\ "" \notin StatusSections /\ "mesh" \notin SettingsSections /\ "mesh" \notin SystemSections
      /\ "mesh" \notin StatusSections
  BY DEF SettingsSections, StatusSections, SystemSections
<1>1. CASE r.tab # "system"
  <2>1. Part(p, 1) = r.tab /\ Part(p, 2) = ""
    BY <1>1, PathForms
  <2>2. r.tab \notin {"settings", "license", "users", "federated-sso", "system"} /\ r.tab \in Tabs
    BY <1>1 DEF RouteOk, Tabs
  <2> HIDE DEF p
  <2>3. InitialRoute(p) = Route(r.tab, "status", "domains", "overview")
    BY <2>1, <2>2 DEF InitialRoute, MeshAlias, Section
  <2>4. InitialRoute(p).tab = r.tab
    BY <2>3 DEF Route
  <2> QED
    BY <1>1, <2>4 DEF SamePlace, p
<1>2. CASE r.tab = "system"
  <2> DEFINE x == r.system
             third == IF x = "settings" /\ r.settings # "domains" THEN r.settings
                      ELSE IF x = "status" /\ r.status # "overview" THEN r.status ELSE ""
  <2>1. Part(p, 1) = "system" /\ Part(p, 2) = x /\ Part(p, 3) = third
    BY <1>2, PathForms
  <2>2. x \in SystemSections /\ r.settings \in SettingsSections /\ r.status \in StatusSections
    BY DEF RouteOk
  <2>3. third # "mesh" /\ x # "mesh"
    BY <1>0, <2>2
  <2> HIDE DEF p, x, third
  <2>4. InitialRoute(p) = InSystem(x, third)
    BY <2>1, <2>3 DEF InitialRoute, MeshAlias
  <2>5. CASE x = "settings"
    <3>1. InSystem(x, third) = SystemRoute("settings", r.settings, "overview")
      <4>1. Section(third, SettingsSections, "domains") = r.settings
        BY <1>0, <2>2, <2>5 DEF Section, third, x
      <4>2. Section(x, SystemSections, "status") = x
        BY <2>2 DEF Section, third, x
      <4> QED
        BY <2>5, <4>1, <4>2 DEF InSystem
    <3>9. InitialRoute(p) = SystemRoute("settings", r.settings, "overview")
      BY <2>4, <3>1
    <3>10. InitialRoute(p).tab = "system" /\ InitialRoute(p).system = x
           /\ InitialRoute(p).settings = r.settings
      BY <2>2, <2>5, <3>9, Defaults DEF SystemRoute, Route
    <3> QED
      BY <1>2, <2>5, <3>10 DEF SamePlace, p, x
  <2>6. CASE x = "status"
    <3>1. InSystem(x, third) = SystemRoute("status", "domains", r.status)
      <4>1. Section(third, StatusSections, "overview") = r.status
        BY <1>0, <2>2, <2>6 DEF Section, third, x
      <4> QED
        BY <2>6, <4>1 DEF InSystem
    <3>9. InitialRoute(p) = SystemRoute("status", "domains", r.status)
      BY <2>4, <3>1
    <3>10. InitialRoute(p).tab = "system" /\ InitialRoute(p).system = x
           /\ InitialRoute(p).status = r.status
      BY <2>2, <2>6, <3>9, Defaults DEF SystemRoute, Route
    <3> QED
      BY <1>2, <2>6, <3>10 DEF SamePlace, p, x
  <2>7. CASE x \notin {"settings", "status"}
    <3>1. x \in {"license", "users", "hardware", "power"}
      BY <2>2, <2>7 DEF SystemSections, x
    <3>2. InSystem(x, third) = SystemRoute(x, "domains", "overview")
      <4>1. Section(third, SettingsSections, "domains") = "domains"
        BY <1>0, <2>7 DEF Section, third, x
      <4>2. Section(x, SystemSections, "status") = x
        BY <2>2 DEF Section, third, x
      <4> QED
        BY <3>1, <4>1, <4>2 DEF InSystem
    <3>9. InitialRoute(p) = SystemRoute(x, "domains", "overview")
      BY <2>4, <3>2
    <3>10. InitialRoute(p).tab = "system" /\ InitialRoute(p).system = x
      BY <2>2, <2>7, <3>9, Defaults DEF SystemRoute, Route
    <3> QED
      BY <1>2, <2>7, <3>10 DEF SamePlace, p, x
  <2> QED
    BY <2>5, <2>6, <2>7
<1> QED
  BY <1>1, <1>2

\* The route on screen is one the session may see, and the address bar leads back to it.
RoutesInv ==
  /\ visitor \in Sessions \cup {Unknown}
  /\ RouteOk(route)
  /\ visitor.known => ActiveRoute(visitor, route) = route
  /\ SamePlace(InitialRoute(hash), route)

LEMMA Unseen == ~Unknown.known /\ \A r : ActiveRoute(Unknown, r) = r
  BY DEF Unknown, ActiveRoute

LEMMA SessionsKnown == \A s \in Sessions : s.known
  BY DEF Sessions

LEMMA RouteSettled ==
  \A s \in Sessions \cup {Unknown} : \A r : RouteOk(r) /\ Settle(s, r) => RoutesInv'
<1> SUFFICES ASSUME NEW s \in Sessions \cup {Unknown}, NEW r, RouteOk(r), Settle(s, r)
             PROVE  RoutesInv'
  OBVIOUS
<1>1. RouteOk(ActiveRoute(s, r)) /\ (s.known => ActiveRoute(s, ActiveRoute(s, r)) = ActiveRoute(s, r))
  <2>1. CASE s = Unknown
    <3>1. ActiveRoute(s, r) = r /\ ~s.known
      BY <2>1, Unseen
    <3> QED
      BY <3>1
  <2>2. CASE s \in Sessions
    <3>1. s.known
      BY <2>2, SessionsKnown
    <3> DEFINE a == ActiveRoute(s, r)
    <3>2. RouteOk(a) /\ ActiveRoute(s, a) = a
      BY <3>1, ShownRoute
    <3> QED
      BY <3>2
  <2> QED
    BY <2>1, <2>2
<1>2. SamePlace(InitialRoute(PathOf(ActiveRoute(s, r))), ActiveRoute(s, r))
  BY <1>1, RoundTrip
<1>3. visitor' = s /\ route' = ActiveRoute(s, r) /\ hash' = PathOf(ActiveRoute(s, r))
  BY DEF Settle
<1> QED
  BY <1>1, <1>2, <1>3 DEF RoutesInv

LEMMA RouteExcept ==
  ASSUME RouteOk(route)
  PROVE  /\ \A t \in Tabs : RouteOk([route EXCEPT !.tab = t])
         /\ \A x \in SystemSections : RouteOk([route EXCEPT !.system = x])
         /\ \A x \in SettingsSections : RouteOk([route EXCEPT !.settings = x])
         /\ \A x \in StatusSections : RouteOk([route EXCEPT !.status = x])
  BY DEF RouteOk, Route

LEMMA RoutesStart ==
  ASSUME RoutesInit
  PROVE  RoutesInv
<1>1. PICK path \in Links : route = InitialRoute(path) /\ hash = PathOf(route)
  BY DEF RoutesInit
<1>2. RouteOk(route)
  BY <1>1, LinksLead
<1>3. SamePlace(InitialRoute(hash), route)
  BY <1>1, <1>2, RoundTrip
<1> QED
  BY <1>2, <1>3, Unseen DEF RoutesInit, RoutesInv

LEMMA RoutesStep ==
  ASSUME RoutesInv, [RoutesNext]_routeVars
  PROVE  RoutesInv'
<1>0. visitor \in Sessions \cup {Unknown} /\ RouteOk(route)
  BY DEF RoutesInv
<1>1. ASSUME NEW s \in Sessions, SessionPolled(s)
      PROVE  RoutesInv'
  BY <1>0, <1>1, RouteSettled DEF SessionPolled
<1>2. ASSUME NEW path \in Links, FollowHash(path)
      PROVE  RoutesInv'
  <2>1. CASE InitialRoute(path) = route
    <3>1. SamePlace(InitialRoute(path), route)
      BY <2>1 DEF SamePlace
    <3>2. route.tab = "mesh" => SamePlace(InitialRoute(<<"mesh">>), route)
      <4>1. InitialRoute(<<"mesh">>) = Route("mesh", "status", "domains", "overview")
        BY Parts1, Defaults DEF InitialRoute, MeshAlias, Section
      <4> QED
        BY <4>1 DEF Route, SamePlace
    <3> QED
      BY <1>2, <2>1, <3>1, <3>2 DEF FollowHash, RoutesInv
  <2>2. CASE InitialRoute(path) # route
    BY <1>0, <1>2, <2>2, LinksLead, RouteSettled DEF FollowHash
  <2> QED
    BY <2>1, <2>2
<1>3. ASSUME NEW t \in Tabs, SelectTab(t)
      PROVE  RoutesInv'
  BY <1>0, <1>3, RouteExcept, RouteSettled DEF SelectTab
<1>4. ASSUME NEW x \in SystemSections, SelectSystem(x)
      PROVE  RoutesInv'
  BY <1>0, <1>4, RouteExcept, RouteSettled DEF SelectSystem
<1>5. ASSUME NEW x \in SettingsSections, SelectSettings(x)
      PROVE  RoutesInv'
  BY <1>0, <1>5, RouteExcept, RouteSettled DEF SelectSettings
<1>6. ASSUME NEW x \in StatusSections, SelectStatus(x)
      PROVE  RoutesInv'
  BY <1>0, <1>6, RouteExcept, RouteSettled DEF SelectStatus
<1>7. CASE Reload
  BY <1>7, LinksLead, RouteSettled DEF Reload
<1>8. CASE UNCHANGED routeVars
  BY <1>8 DEF routeVars, RoutesInv
<1> QED
  BY <1>1, <1>2, <1>3, <1>4, <1>5, <1>6, <1>7, <1>8 DEF RoutesNext

LEMMA RoutesSound ==
  ASSUME RoutesInv
  PROVE  PageAllowed /\ BookmarkTrue
<1> DEFINE q == InitialRoute(hash)
<1>1. RouteOk(q) /\ RouteOk(route) /\ SamePlace(q, route)
  BY LinksLead DEF RoutesInv
<1>2. BookmarkTrue
  <2> HIDE DEF q
  <2>1. CASE visitor.known
    <3>1. ActiveRoute(visitor, route) = route
      BY <2>1 DEF RoutesInv
    <3> DEFINE t(r) == Section(r.tab, AllowedTabs(visitor), "overview")
               y(r) == Section(r.system, AllowedSystemSections(visitor), "status")
               g(r) == Section(r.settings, AllowedSettingsSections(visitor), "domains")
               u(r) == Section(r.status, AllowedStatusSections(visitor), "overview")
               a == ActiveRoute(visitor, q)
    <3>2. \A r : ActiveRoute(visitor, r) = Route(t(r), y(r), g(r), u(r))
      BY <2>1 DEF ActiveRoute
    <3>3. t(route) = route.tab /\ y(route) = route.system /\ g(route) = route.settings /\ u(route) = route.status
      <4> HIDE DEF t, y, g, u
      <4> QED
        BY <3>1, <3>2 DEF Route
    <3>4. a.tab = t(q) /\ a.system = y(q) /\ a.settings = g(q) /\ a.status = u(q)
      <4> HIDE DEF t, y, g, u
      <4> QED
        BY <3>2 DEF Route
    <3>5. SamePlace(a, route)
      <4>1. t(q) = t(route) /\ (route.tab = "system" => /\ y(q) = y(route)
                                                        /\ route.system = "settings" => g(q) = g(route)
                                                        /\ route.system = "status" => u(q) = u(route))
        BY <1>1 DEF SamePlace
      <4> HIDE DEF t, y, g, u, a
      <4> QED
        BY <3>3, <3>4, <4>1 DEF SamePlace
    <3> HIDE DEF t, y, g, u, a
    <3>6. ActivePage(a) = ActivePage(route)
      BY <3>5 DEF SamePlace, ActivePage
    <3> QED
      BY <3>1, <3>6 DEF BookmarkTrue, a, q
  <2>2. CASE ~visitor.known
    <3>1. ActivePage(q) = ActivePage(route)
      BY <1>1 DEF SamePlace, ActivePage
    <3> QED
      BY <2>2, <3>1 DEF BookmarkTrue, ActiveRoute, q
  <2> QED
    BY <2>1, <2>2
<1>3. PageAllowed
  <2>1. SUFFICES ASSUME visitor.known
                 PROVE  \A x \in Range(ActivePage(route)) : MaySee(visitor, x)
    BY DEF PageAllowed, RoutesInv, MaySee, Rights, Identities
  <2>2. MaySee(visitor, route.tab) /\ MaySee(visitor, route.system) /\ MaySee(visitor, route.settings)
        /\ MaySee(visitor, route.status)
    BY <1>1, <2>1, ShownRoute DEF RoutesInv
  <2>3. MaySee(visitor, "system") /\ MaySee(visitor, "status")
    BY DEF MaySee, Rights, Identities
  <2>4. \A c, d, e : /\ Range(<<c>>) = {c}
                     /\ Range(<<c, d>>) = {c, d}
                     /\ Range(<<c, d, e>>) = {c, d, e}
    BY DEF Range
  <2> QED
    BY <2>2, <2>3, <2>4 DEF ActivePage
<1> QED
  BY <1>2, <1>3

(***************************************************************************)
(* The clients side by side.                                               *)
(***************************************************************************)
ClientsInv ==
  /\ CommandInv /\ TerminalInv /\ PagesInv /\ FormsInv
  /\ EditInv /\ DraftsInv /\ CreateInv /\ RoutesInv

\* Each client takes a step of its own, or none.
LEMMA OneClient ==
  ASSUME [MCNext]_all
  PROVE  /\ [CommandNext]_commandVars /\ [TerminalNext]_terminalVars /\ [HostPagesNext]_hostPageVars
         /\ [AdminFormsNext]_formVars /\ [ModelEditNext]_editVars /\ [ModelCreateNext]_createVars /\ [RoutesNext]_routeVars
<1>1. CASE InWorker /\ Next
  BY <1>1, Zenon DEF InWorker
<1>2. CASE InTerminal /\ TerminalNext
  BY <1>2, Zenon DEF InTerminal
<1>3. CASE InCommands /\ CommandNext
  BY <1>3, Zenon DEF InCommands
<1>4. CASE InEdit /\ ModelEditNext
  BY <1>4, Zenon DEF InEdit
<1>5. CASE InCreate /\ ModelCreateNext
  BY <1>5, Zenon DEF InCreate
<1>6. CASE InPages /\ HostPagesNext
  BY <1>6, Zenon DEF InPages
<1>7. CASE InForms /\ AdminFormsNext
  BY <1>7, Zenon DEF InForms
<1>8. CASE InRoutes /\ RoutesNext
  BY <1>8, Zenon DEF InRoutes
<1>9. CASE UNCHANGED all
  BY <1>9, Zenon DEF all
<1> QED
  BY <1>1, <1>2, <1>3, <1>4, <1>5, <1>6, <1>7, <1>8, <1>9, Zenon DEF MCNext

LEMMA CommandsGoOn ==
  ASSUME CommandInv, [CommandNext]_commandVars
  PROVE  CommandInv' /\ [GuardedNow]_commandVars /\ [FileNow]_commandVars
<1>1. CASE CommandNext
  BY <1>1, CommandsStep
<1>2. CASE UNCHANGED commandVars
  BY <1>2 DEF commandVars, CommandInv
<1> QED
  BY <1>1, <1>2

LEMMA ClientsStart ==
  ASSUME MCInit
  PROVE  ClientsInv
<1>1. CommandInit /\ TerminalInit /\ HostPagesInit /\ AdminFormsInit /\ ModelEditInit /\ ModelCreateInit /\ RoutesInit
  BY DEF MCInit
<1> QED
  BY <1>1, CommandsStart, TerminalStarts, PagesStart, FormsStart, EditStart, DraftsStart, CreateStarts,
     RoutesStart DEF ClientsInv

LEMMA ClientsStep ==
  ASSUME ClientsInv, [MCNext]_all
  PROVE  ClientsInv'
<1>1. /\ [CommandNext]_commandVars /\ [TerminalNext]_terminalVars /\ [HostPagesNext]_hostPageVars
      /\ [AdminFormsNext]_formVars /\ [ModelEditNext]_editVars /\ [ModelCreateNext]_createVars /\ [RoutesNext]_routeVars
  BY OneClient
<1>2. CommandInv /\ TerminalInv /\ PagesInv /\ FormsInv /\ EditInv /\ DraftsInv /\ CreateInv /\ RoutesInv
  BY DEF ClientsInv
<1>3. CommandInv' /\ TerminalInv'
  BY <1>1, <1>2, CommandsGoOn, TerminalStep
<1>4. PagesInv' /\ FormsInv'
  BY <1>1, <1>2, PagesStep, FormsStep
<1>5. EditInv' /\ RoutesInv'
  BY <1>1, <1>2, EditStep, RoutesStep
<1>6. DraftsInv' /\ CreateInv'
  BY <1>1, <1>2, DraftsStep, ModelCreateStep
<1> QED
  BY <1>3, <1>4, <1>5, <1>6 DEF ClientsInv

THEOREM ClientsKeepInv == MCSpec => []ClientsInv
<1>1. MCInit => ClientsInv
  BY ClientsStart
<1>2. ClientsInv /\ [MCNext]_all => ClientsInv'
  BY ClientsStep
<1> QED
  BY <1>1, <1>2, PTL DEF MCSpec

\* What is done in the terminal client is done to the object its dialog named, one
\* operation at a time, a key is shown once, and a command that ends in a usage
\* error has sent nothing (executeConfirmed, runOperation, parseArgs).
THEOREM ConsoleStaysSafe == MCSpec => []ConsoleSafe
<1>1. ClientsInv => ConsoleSafe
  <2>1. CommandInv => UsageHarmless
    BY DEF CommandInv, WrittenAfterOptions, UsageHarmless
  <2> QED
    BY <2>1, TerminalSound DEF ClientsInv, ConsoleSafe
<1> QED
  BY <1>1, ClientsKeepInv, PTL

\* The forms of models show and send what belongs to the draft on screen: the
\* changes that are sent give what the draft asks for, whatever was cleared, the
\* figures are those of the draft, and a detected task and a list of artifacts are
\* those of the reference that is shown (localModelChanges, mergedLocalModelSettings,
\* useQuery keyed by the draft, the request counters of ModelSourceSettings).
THEOREM ModelFormsStayTrue == MCSpec => []ModelFormsTrue
<1>1. ClientsInv => ModelFormsTrue
  BY DraftsSound, EditSound, CreateSound DEF ClientsInv, ModelFormsTrue
<1> QED
  BY <1>1, ClientsKeepInv, PTL

\* What is done to a host or saved by a form is what was reviewed, on the state
\* that was on screen then (HostOperationReview, MemoryLayout, the admin panels).
THEOREM ReviewedIsDone == MCSpec => []DoneAsReviewed
<1>1. ClientsInv => DoneAsReviewed
  BY PagesSound, FormsSound DEF ClientsInv, DoneAsReviewed
<1> QED
  BY <1>1, ClientsKeepInv, PTL

\* The page on screen is one the session may see, the address bar leads back to it,
\* and a model list does not fall back behind a confirmed start or stop
\* (activeRoute, pathForRoute, setQueryData after a lifecycle call).
THEOREM ScreenStaysTrue == MCSpec => []ScreenTrue
<1>1. ClientsInv => ScreenTrue
  BY FormsSound, RoutesSound DEF ClientsInv, ScreenTrue
<1> QED
  BY <1>1, ClientsKeepInv, PTL

\* A license, a policy or a model is replaced only in the revision that was seen, a
\* file is never overwritten, typed values are kept, and a review that is confirmed
\* again is not carried out twice (expectedRevision, the flag wx, requestId).
THEOREM ChangesStayKept == MCSpec => ChangesKept
<1>1. ClientsInv /\ [MCNext]_all => [GuardedNow]_commandVars /\ [FileNow]_commandVars
  BY OneClient, CommandsGoOn DEF ClientsInv
<1>2. ClientsInv /\ [MCNext]_all =>
        [saving.on /\ model' # model /\ foreignEdits' = foreignEdits => model.local = saving.from]_editVars
  BY OneClient, EditStep DEF ClientsInv, KeptNow
<1>3. ClientsInv /\ [MCNext]_all =>
        [panel = "domains" /\ form.draft # form.base.value /\ seen' # seen => form'.draft = form.draft]_formVars
  BY OneClient, TypedStays DEF ClientsInv
<1>4. ClientsInv /\ [MCNext]_all =>
        [managed'.op # managed.op /\ managed'.op.phase = "Pending" /\ managed'.op.on \in {"power", "prepare", "updates", "memory", "cache"}
           => managed'.op.from # managed.op.from]_hostPageVars
  BY OneClient, PagesStep DEF ClientsInv, OnceNow, FixedPages
<1>5. ClientsInv /\ [MCNext]_all => [GuardedNow]_commandVars
  BY <1>1
<1>6. ClientsInv /\ [MCNext]_all => [paths # "none" => paths' = paths]_commandVars
  BY <1>1 DEF FileNow
<1>7. MCSpec => EditsKept
  BY <1>2, ClientsKeepInv, PTL DEF MCSpec, EditsKept
<1>8. MCSpec => TypedKept
  BY <1>3, ClientsKeepInv, PTL DEF MCSpec, TypedKept
<1>9. MCSpec => ConfirmedOnce
  BY <1>4, ClientsKeepInv, PTL DEF MCSpec, ConfirmedOnce
<1>10. MCSpec => GuardedReplace
  BY <1>5, ClientsKeepInv, PTL DEF MCSpec, GuardedReplace
<1>11. MCSpec => FilesKept
  BY <1>6, ClientsKeepInv, PTL DEF MCSpec, FilesKept
<1> QED
  BY <1>7, <1>8, <1>9, <1>10, <1>11 DEF ChangesKept
=============================================================================

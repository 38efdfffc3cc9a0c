---------------------------- MODULE CliCommands ----------------------------
(***************************************************************************)
(* The one-shot commands of the terminal client (commands.ts, license.ts). *)
(* A command is a short program: it checks its options, reads, writes and  *)
(* saves a file, and each call is answered later.  Several administrators  *)
(* run commands against one appliance at the same time, so what a command  *)
(* has read is old when it writes.                                         *)
(***************************************************************************)
EXTENDS Integers, Sequences, FiniteSets

CONSTANTS
  Shells,        \* the processes that run a command
  CommandFaults  \* how many calls may fail

VARIABLES
  server,        \* revisions of the license and of a policy, settings, GPU profile, writes
  paths,         \* whose export the file of that name holds, "none" if there is no file
  cmd,           \* of each shell: plan, step, what it read, exit, puts it made
  commandFaults

commandVars == <<server, paths, cmd, commandFaults>>

(***************************************************************************)
(* What each command does, as the sequence of its steps.                   *)
(***************************************************************************)
Need(option) == <<"need", option>>   \* fails with a usage error if it is absent
Get(what) == <<"get", what>>
Put(what) == <<"put", what>>
Save(file) == <<"save", file>>

\* Lists and summaries only read.
Summary == <<Get("snapshot")>>
StatusCommand == <<Get("status")>>
ServiceCommand ==
  [list |-> <<Get("modules")>>, enable |-> <<Need("name"), Need("set"), Put("module")>>,
   disable |-> <<Need("name"), Put("module")>>, credentials |-> <<Need("name"), Get("credentials")>>]
\* The status is read before anything else; a change needs an administrator and
\* the catalog, and validation a consent and a profile.
HardwareCommand ==
  [list |-> <<Get("gpu")>>,
   profile |-> <<Get("gpu"), Get("session"), Need("catalog"), Need("name"), Put("profile")>>,
   validate |-> <<Get("gpu"), Get("session"), Need("catalog"), Need("yes"), Need("profile"), Put("validation")>>]
\* Mutant: the import is sent before the consent is looked for.
LicenseCommandEager ==
  [status |-> <<Get("license")>>, export |-> <<Get("license"), Need("file"), Save("license")>>,
   inspect |-> <<Need("file"), Get("license")>>,
   import |-> <<Need("file"), Get("license"), Need("valid"), Put("license"), Need("yes")>>]
\* The import is made for the revision the preview was made for.
LicenseCommand ==
  [status |-> <<Get("license")>>, export |-> <<Get("license"), Need("file"), Save("license")>>,
   inspect |-> <<Need("file"), Get("license")>>,
   import |-> <<Need("file"), Get("license"), Need("valid"), Need("yes"), Put("license")>>]
InstanceCommand ==
  [principals |-> <<Need("kind"), Get("principals")>>, list |-> <<Get("instances")>>,
   create |-> <<Need("type"), Need("file"), Put("instance")>>, access |-> <<Need("name"), Get("policy")>>,
   share |-> <<Need("name"), Need("yes"), Need("file"), Get("policy"), Put("policy")>>,
   remove |-> <<Need("name"), Put("instance")>>, credentials |-> <<Need("name"), Get("credentials")>>]
ModelCommand ==
  [list |-> <<Get("models")>>, search |-> <<Need("query"), Get("models")>>,
   estimate |-> <<Need("file"), Get("models")>>, create |-> <<Need("file"), Put("model")>>,
   remove |-> <<Need("name"), Put("model")>>, cleanup |-> <<Put("model")>>]
\* Both domains are written, the one that was not given as it was read.
SettingsCommand ==
  [get |-> <<Get("settings")>>, public |-> <<Get("settings"), Put("public")>>, mdns |-> <<Get("settings"), Put("mdns")>>]
UserCommand ==
  [list |-> <<Get("users")>>, create |-> <<Need("name"), Need("password"), Put("user")>>,
   update |-> <<Need("id"), Put("user")>>, role |-> <<Need("id"), Need("level"), Put("user")>>,
   enable |-> <<Need("id"), Put("user")>>, password |-> <<Need("id"), Need("password"), Put("user")>>,
   delete |-> <<Need("id"), Need("confirm"), Put("user")>>]
ApiKeyCommand ==
  [list |-> <<Get("keys")>>, create |-> <<Need("name"), Put("key")>>, revoke |-> <<Need("id"), Put("key")>>]
KubernetesCommand ==
  [list |-> <<Get("access")>>, set |-> <<Need("id"), Need("level"), Put("access")>>,
   kubeconfig |-> <<Need("id"), Get("access"), Save("kubeconfig")>>]

Plans(command) == {command[a] : a \in DOMAIN command}
\* The command line selects one of them.
RunCli ==
  {Summary, StatusCommand}
    \cup Plans(ServiceCommand) \cup Plans(HardwareCommand) \cup Plans(LicenseCommand) \cup Plans(InstanceCommand)
    \cup Plans(ModelCommand) \cup Plans(SettingsCommand) \cup Plans(UserCommand) \cup Plans(ApiKeyCommand)
    \cup Plans(KubernetesCommand)

(***************************************************************************)
(* Running it.                                                             *)
(***************************************************************************)
Server0 == [license |-> 1, policy |-> 1, public |-> "old", mdns |-> "old", profile |-> "old", other |-> 0]
NoCommand == [plan |-> <<>>, step |-> 0, seen |-> Server0, exit |-> "none", puts |-> 0]
CommandInit ==
  /\ server = Server0 /\ paths = "none" /\ cmd = [c \in Shells |-> NoCommand] /\ commandFaults = 0

\* The last step leads to exit 0, any error to exit 1.
Advance(c) ==
  IF cmd[c].step = Len(cmd[c].plan) THEN [cmd[c] EXCEPT !.step = 0, !.exit = "ok"] ELSE [cmd[c] EXCEPT !.step = @ + 1]
CommandFails(c, why) == cmd' = [cmd EXCEPT ![c].step = 0, ![c].exit = why]
At(c, kind) == cmd[c].step > 0 /\ cmd[c].plan[cmd[c].step][1] = kind
Of(c) == cmd[c].plan[cmd[c].step][2]
CFault == commandFaults < CommandFaults /\ commandFaults' = commandFaults + 1

StartCommand(c) ==
  /\ cmd[c].plan = <<>> /\ \E p \in RunCli : cmd' = [cmd EXCEPT ![c] = [NoCommand EXCEPT !.plan = p, !.step = 1]]
  /\ UNCHANGED <<server, paths, commandFaults>>

Required(c) ==
  /\ At(c, "need") /\ (cmd' = [cmd EXCEPT ![c] = Advance(c)] \/ CommandFails(c, "usage"))
  /\ UNCHANGED <<server, paths, commandFaults>>

Reads(c) ==
  /\ At(c, "get") /\ cmd' = [cmd EXCEPT ![c] = [Advance(c) EXCEPT !.seen = server]]
  /\ UNCHANGED <<server, paths, commandFaults>>

\* What the server compares its revision with.
ExpectedRevision(c) == cmd[c].seen[Of(c)]

\* The API: the license and a policy are replaced only in the
\* expected revision, everything else is written as it comes.
Accepted(c) == Of(c) \in {"license", "policy"} => ExpectedRevision(c) = server[Of(c)]
Written(c) ==
  CASE Of(c) \in {"license", "policy"} -> [server EXCEPT ![Of(c)] = @ + 1]
    [] Of(c) = "public" -> [server EXCEPT !.public = "new", !.mdns = cmd[c].seen.mdns]
    [] Of(c) = "mdns" -> [server EXCEPT !.mdns = "new", !.public = cmd[c].seen.public]
    [] Of(c) = "profile" -> [server EXCEPT !.profile = "new"]
    [] Of(c) = "validation" -> [server EXCEPT !.profile = cmd[c].seen.profile]
    [] OTHER -> [server EXCEPT !.other = 1]

Writes(c) ==
  /\ At(c, "put") /\ UNCHANGED <<paths, commandFaults>>
  /\ IF Accepted(c) THEN cmd' = [cmd EXCEPT ![c] = [Advance(c) EXCEPT !.puts = @ + 1]] /\ server' = Written(c)
     ELSE CommandFails(c, "error") /\ UNCHANGED server

\* The call fails; a write may have been carried out all the same.
CallLost(c) ==
  /\ (At(c, "get") \/ At(c, "put")) /\ CFault /\ UNCHANGED paths
  /\ \/ CommandFails(c, "error") /\ UNCHANGED server
     \/ /\ At(c, "put") /\ Accepted(c) /\ server' = Written(c)
        /\ cmd' = [cmd EXCEPT ![c].step = 0, ![c].exit = "error", ![c].puts = @ + 1]

\* A license is only saved under a new name.
SaveLicenseFile(c) ==
  IF paths = "none" THEN paths' = c /\ cmd' = [cmd EXCEPT ![c] = Advance(c)]
  ELSE CommandFails(c, "error") /\ UNCHANGED paths

Saves(c) ==
  /\ At(c, "save")
  /\ IF Of(c) = "license" THEN SaveLicenseFile(c) ELSE cmd' = [cmd EXCEPT ![c] = Advance(c)] /\ UNCHANGED paths
  /\ UNCHANGED <<server, commandFaults>>

CommandNext ==
  \E c \in Shells : StartCommand(c) \/ Required(c) \/ Reads(c) \/ Writes(c) \/ CallLost(c) \/ Saves(c)
CommandSpec == CommandInit /\ [][CommandNext]_commandVars

(***************************************************************************)
(* Correctness                                                             *)
(***************************************************************************)
\* A command that ends with a usage error (a missing option, no consent) has
\* changed nothing, wherever in the command the option is looked for.
UsageHarmless == \A c \in Shells : cmd[c].exit = "usage" => cmd[c].puts = 0

\* A license or a sharing policy changes by a command that has seen the very
\* revision it replaces.
GuardedNow ==
  \A doc \in {"license", "policy"} : server'[doc] # server[doc] =>
    \E c \in Shells : cmd[c] # cmd'[c] /\ cmd[c].seen[doc] = server[doc]

\* They are replaced only so: of two concurrent commands, one fails.
GuardedReplace == [][GuardedNow]_commandVars

\* "Existing files are never overwritten": of two exports to one name the second
\* fails and the first one's file stays.
FilesKept == [][paths # "none" => paths' = paths]_commandVars
=============================================================================

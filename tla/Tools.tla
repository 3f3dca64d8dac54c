--------------------------------- MODULE Tools ---------------------------------
(***************************************************************************)
(* Tool calls of the engine (core/crates/tools/src/lib.rs), the installed  *)
(* skills they run (core/crates/common/src/skill.rs) and the sandbox they  *)
(* run in (core/crates/sandbox/src/backends/linux.rs).                     *)
(*                                                                         *)
(* `openpinch skill install` is a process of its own: it replaces the      *)
(* bundle of a directory file by file, without a lock, while the engine    *)
(* looks a skill up, archives its directory and boots a virtual machine    *)
(* with the archive.  The machine is a child process that nothing kills.   *)
(* A call that came over the engine's RPC is dropped at an await point     *)
(* when its caller gives up.                                               *)
(***************************************************************************)
EXTENDS Policy, FiniteSets

CONSTANTS
  Call,       \* tool calls, each made at most once
  Installer,  \* runs of `openpinch skill install`, each made at most once
  Target,     \* what a call may ask for (see TargetType)
  Bundle,     \* verified bundles
  Skill,      \* skill ids
  Dir,        \* directories <id>-<version> of the installs directory
  File,       \* file names in bundles
  Manifest,   \* the name manifest.json
  SkillOf, DirOf, FilesOf,   \* of a bundle: its id, its directory, its files
  Policies,   \* matrices the policy file may hold
  Absent, Partial, None      \* no file; a file just created; nothing

TargetType == [subject : Name, requested : SUBSET Name, sandboxed : BOOLEAN,
               skill : Skill \cup {None}]

ASSUME ToolsAssumption ==
  /\ Target \subseteq TargetType /\ Policies \subseteq Matrix
  /\ SkillOf \in [Bundle -> Skill] /\ DirOf \in [Bundle -> Dir]
  /\ FilesOf \in [Bundle -> SUBSET File] /\ \A b \in Bundle : Manifest \in FilesOf[b]
  /\ {Absent, Partial, None} \cap (Bundle \cup Skill \cup Dir) = {}
  /\ Absent # Partial /\ Partial # None /\ Absent # None

VARIABLES
  made,       \* the directories that exist
  files,      \* what each directory holds: per file, which bundle's
  installs,   \* where each installer is
  calls,      \* where each call is
  vms,        \* the virtual machine of each call
  engineUp,
  policyFile, \* what skills/policies/default.yaml holds
  policy,     \* the matrix the running engine has loaded
  started,    \* steps of the environment so far, see MaxWork of System
  torn        \* history: directories whose last install did not end well

toolVars == <<made, files, installs, calls, vms, engineUp, policyFile, policy, started, torn>>

Content == Bundle \cup {Absent, Partial}

IdleInstall == [step |-> "idle", bundle |-> None, todo |-> {}, cur |-> None, alone |-> TRUE]
IdleCall    == [step |-> "idle", target |-> None, dir |-> None, manifest |-> None,
                todo |-> {}, pack |-> [f \in File |-> Absent], deadline |-> FALSE,
                disturbed |-> FALSE]

Changing == {"clearing", "making", "copying", "writing"}
Waiting  == {"socket", "exit"}                      \* the await points of a call
Busy     == {"found", "packing", "spawning", "booting"} \cup Waiting
Ended    == {"denied", "failed", "done", "no_socket", "refused", "timed_out", "cancelled", "lost"}
Alive    == {"starting", "listening", "running"}

ToolsTypeOK ==
  /\ made \subseteq Dir
  /\ files \in [Dir -> [File -> Content]]
  /\ installs \in [Installer ->
       [step : Changing \cup {"idle", "verified", "installed", "stopped"}, bundle : Bundle \cup {None},
        todo : SUBSET File, cur : File \cup {None}, alone : BOOLEAN]]
  /\ calls \in [Call ->
       [step : {"idle"} \cup Busy \cup Ended, target : Target \cup {None}, dir : Dir \cup {None},
        manifest : Bundle \cup {None}, todo : SUBSET File, pack : [File -> Content],
        deadline : BOOLEAN, disturbed : BOOLEAN]]
  /\ vms \in [Call -> Alive \cup {"none", "died", "exited"}]
  /\ engineUp \in BOOLEAN
  /\ policyFile \in Policies /\ policy \in Policies
  /\ started \in Nat
  /\ torn \subseteq Dir

ToolsInit ==
  /\ made = {}
  /\ files = [d \in Dir |-> [f \in File |-> Absent]]
  /\ installs = [i \in Installer |-> IdleInstall]
  /\ calls = [c \in Call |-> IdleCall]
  /\ vms = [c \in Call |-> "none"]
  /\ engineUp = TRUE
  /\ policyFile \in Policies /\ policy = policyFile
  /\ started = 0
  /\ torn = {}

(***************************************************************************)
(* Installing: SkillManager::install and install_verified_bundle.  The     *)
(* bundle is verified in a temporary copy, and that copy is what is        *)
(* installed.                                                              *)
(***************************************************************************)
Into(i) == DirOf[installs[i].bundle]

Installing(d) == {i \in Installer : installs[i].step \in Changing /\ Into(i) = d}

\* The calls that are reading directory d while it changes.
Disturb(d) ==
  [c \in Call |-> IF calls[c].step \in {"found", "packing"} /\ calls[c].dir = d
                  THEN [calls[c] EXCEPT !.disturbed = TRUE] ELSE calls[c]]

Change(i, content) ==
  /\ files' = [files EXCEPT ![Into(i)] = content]
  /\ calls' = Disturb(Into(i))

\* Without --force an installed version is left alone.
Install(i, b, force) ==
  /\ installs[i].step = "idle"
  /\ DirOf[b] \in made => force
  /\ installs' = [installs EXCEPT ![i].step = "verified", ![i].bundle = b]
  /\ started' = started + 1
  /\ UNCHANGED <<made, files, calls, vms, engineUp, policyFile, policy, torn>>

\* Mutant: the new files are copied over the old ones.
ReplaceOver(i) ==
  /\ installs[i].step = "verified"
  /\ installs' = [j \in Installer |->
       IF j = i THEN [installs[i] EXCEPT !.step = "making", !.alone = Installing(Into(i)) = {}]
       ELSE IF j \in Installing(Into(i)) THEN [installs[j] EXCEPT !.alone = FALSE]
       ELSE installs[j]]
  /\ UNCHANGED <<made, files, calls, vms, engineUp, policyFile, policy, started, torn>>

\* The bundle was verified once more: now replace what is there.
Replace(i) ==
  /\ installs[i].step = "verified"
  /\ installs' = [j \in Installer |->
       IF j = i THEN [installs[i] EXCEPT
         !.step = IF Into(i) \in made THEN "clearing" ELSE "making",
         !.todo = {f \in File : files[Into(i)][f] # Absent},
         !.alone = Installing(Into(i)) = {}]
       ELSE IF j \in Installing(Into(i)) THEN [installs[j] EXCEPT !.alone = FALSE]
       ELSE installs[j]]
  /\ UNCHANGED <<made, files, calls, vms, engineUp, policyFile, policy, started, torn>>

\* fs::remove_dir_all removes the files it has listed, then the directory,
\* which fails when a file has appeared since.
RemoveFile(i) ==
  /\ installs[i].step = "clearing"
  /\ \E f \in installs[i].todo :
       /\ installs' = [installs EXCEPT ![i].todo = @ \ {f}]
       /\ Change(i, [files[Into(i)] EXCEPT ![f] = Absent])
  /\ UNCHANGED <<made, vms, engineUp, policyFile, policy, started, torn>>

RemoveDir(i) ==
  /\ installs[i].step = "clearing" /\ installs[i].todo = {}
  /\ \A f \in File : files[Into(i)][f] = Absent
  /\ made' = made \ {Into(i)}
  /\ installs' = [installs EXCEPT ![i].step = "making"]
  /\ calls' = Disturb(Into(i))
  /\ UNCHANGED <<files, vms, engineUp, policyFile, policy, started, torn>>

\* create_dir_all, and the first entry of copy_directory.
MakeDir(i) ==
  /\ installs[i].step = "making"
  /\ made' = made \cup {Into(i)}
  /\ installs' = [installs EXCEPT ![i].step = "copying", ![i].todo = FilesOf[installs[i].bundle]]
  /\ UNCHANGED <<files, calls, vms, engineUp, policyFile, policy, started, torn>>

\* fs::copy opens a file, which empties it, in a directory it makes again.
OpenFile(i) ==
  /\ installs[i].step = "copying"
  /\ \E f \in installs[i].todo :
       /\ installs' = [installs EXCEPT ![i].step = "writing", ![i].cur = f]
       /\ Change(i, [files[Into(i)] EXCEPT ![f] = Partial])
  /\ made' = made \cup {Into(i)}
  /\ UNCHANGED <<vms, engineUp, policyFile, policy, started, torn>>

\* A file that was removed in the meantime is written without its name.
WriteFile(i) ==
  LET left == installs[i].todo \ {installs[i].cur}
      here == files[Into(i)]
  IN  /\ installs[i].step = "writing"
      /\ installs' = [installs EXCEPT ![i] =
           IF left = {} THEN [IdleInstall EXCEPT !.step = "installed"]
           ELSE [@ EXCEPT !.step = "copying", !.todo = left, !.cur = None]]
      /\ Change(i, IF here[installs[i].cur] = Absent THEN here
                   ELSE [here EXCEPT ![installs[i].cur] = installs[i].bundle])
      /\ torn' = IF left # {} THEN torn
                 ELSE IF installs[i].alone THEN torn \ {Into(i)} ELSE torn \cup {Into(i)}
      /\ UNCHANGED <<made, vms, engineUp, policyFile, policy, started>>

\* An I/O error, or the process is killed: nothing is undone.
InstallStops(i) ==
  /\ installs[i].step \in Changing \cup {"verified"}
  /\ installs' = [installs EXCEPT ![i] = [IdleInstall EXCEPT !.step = "stopped"]]
  /\ torn' = IF installs[i].step \in Changing THEN torn \cup {Into(i)} ELSE torn
  /\ UNCHANGED <<made, files, calls, vms, engineUp, policyFile, policy, started>>

(***************************************************************************)
(* Running a tool: execute_inner, execute_skill_inner, packaged_workspace. *)
(***************************************************************************)
Step(c, to) == calls' = [calls EXCEPT ![c].step = to]
EndCall(call, how) == [IdleCall EXCEPT !.step = how, !.target = call.target]
End(c, how) == calls' = [calls EXCEPT ![c] = EndCall(@, how)]

FileSystem == <<made, files, installs, torn>>
Service    == <<engineUp, policyFile, policy, started>>

\* A call whose caller waits with a deadline is cancelled when it passes.
StartCall(c, target, deadline) ==
  /\ engineUp /\ calls[c].step = "idle"
  /\ calls' = [calls EXCEPT ![c] = [IdleCall EXCEPT
       !.target = target, !.deadline = deadline,
       !.step = IF ~Authorized(policy, target.subject, target.requested) THEN "denied"
                ELSE IF ~target.sandboxed THEN "done"
                ELSE IF target.skill = None THEN "spawning"
                ELSE "found"]]
  /\ UNCHANGED <<FileSystem, vms, engineUp, policyFile, policy>>

\* installed_manifest reads the directories in any order and takes the first
\* whose manifest has the id; a manifest it cannot parse ends the search.
ReadManifest(c) ==
  /\ calls[c].step = "found"
  /\ \/ \E d \in made :
          LET manifest == files[d][Manifest] IN
          /\ manifest \in Bundle /\ SkillOf[manifest] = calls[c].target.skill
          /\ calls' = [calls EXCEPT ![c].step = "packing", ![c].dir = d, ![c].todo = File,
                                    ![c].manifest = manifest,
                                    ![c].disturbed = d \in torn \/ Installing(d) # {}]
     \/ /\ \/ \E d \in made : files[d][Manifest] = Partial
           \/ \A d \in made : files[d][Manifest] \in Bundle =>
                                SkillOf[files[d][Manifest]] # calls[c].target.skill
        /\ End(c, "failed")
  /\ UNCHANGED <<FileSystem, vms, Service>>

\* append_dir_all archives the files one by one; one that was listed and has
\* gone ends the call, one that was not there is not in the archive.
PackFile(c) ==
  /\ calls[c].step = "packing"
  /\ \E f \in calls[c].todo :
       LET here == files[calls[c].dir][f] IN
       \/ calls' = [calls EXCEPT ![c].pack[f] = here, ![c].todo = @ \ {f},
                                 ![c].step = IF calls[c].todo = {f} THEN "spawning" ELSE @]
       \/ here = Absent /\ End(c, "failed")
  /\ UNCHANGED <<FileSystem, vms, Service>>

(***************************************************************************)
(* The sandbox: LinuxFirecrackerBackend::execute.  The session directory   *)
(* of a call exists until execute returns or its future is dropped.        *)
(***************************************************************************)
\* The jailer is started, or a prerequisite is missing and nothing is.
Spawn(c) ==
  /\ calls[c].step = "spawning"
  /\ \/ Step(c, "socket") /\ vms' = [vms EXCEPT ![c] = "starting"]
     \/ End(c, "failed") /\ UNCHANGED vms
  /\ UNCHANGED <<FileSystem, Service>>

\* wait_for_socket: it looks a hundred times, 50 ms apart.
FindSocket(c) ==
  /\ calls[c].step = "socket" /\ vms[c] \in {"listening", "exited"}
  /\ Step(c, "booting")
  /\ UNCHANGED <<FileSystem, vms, Service>>

GiveUpSocket(c) ==
  /\ calls[c].step = "socket" /\ vms[c] \in {"starting", "died"}
  /\ End(c, "no_socket")
  /\ UNCHANGED <<FileSystem, vms, Service>>

\* The API requests up to InstanceStart, without an await in between; the
\* answer to the last may be lost after the machine has started.
Boot(c) ==
  /\ calls[c].step = "booting"
  /\ \/ End(c, "refused") /\ UNCHANGED vms
     \/ /\ vms[c] = "listening" /\ vms' = [vms EXCEPT ![c] = "running"]
        /\ Step(c, "exit") \/ End(c, "refused")
  /\ UNCHANGED <<FileSystem, Service>>

\* Mutant: the call returns once the machine has started.
CollectEarly(c) ==
  /\ calls[c].step = "exit"
  /\ End(c, "done")
  /\ UNCHANGED <<FileSystem, vms, Service>>

Collect(c) ==
  /\ calls[c].step = "exit" /\ vms[c] = "exited"
  /\ End(c, "done")
  /\ UNCHANGED <<FileSystem, vms, Service>>

\* Ninety seconds have passed: the wait ends, the process does not.
TimeOut(c) ==
  /\ calls[c].step = "exit"
  /\ End(c, "timed_out")
  /\ UNCHANGED <<FileSystem, vms, Service>>

\* The caller's deadline: the handler is dropped where it awaits.
Cancel(c) ==
  /\ calls[c].deadline /\ calls[c].step \in Waiting
  /\ End(c, "cancelled")
  /\ UNCHANGED <<FileSystem, vms, Service>>

\* The machine itself: it opens its API socket, and it ends when it likes,
\* perhaps without having opened the socket.
Listen(c) ==
  /\ vms[c] = "starting" /\ vms' = [vms EXCEPT ![c] = "listening"]
  /\ UNCHANGED <<FileSystem, calls, Service>>

Exit(c) ==
  /\ vms[c] \in Alive
  /\ vms' = [vms EXCEPT ![c] = IF @ = "starting" THEN "died" ELSE "exited"]
  /\ UNCHANGED <<FileSystem, calls, Service>>

(***************************************************************************)
(* The engine's process and the policy file, which it reads when it starts.*)
(***************************************************************************)
EngineStops ==
  /\ engineUp /\ engineUp' = FALSE
  /\ calls' = [c \in Call |-> IF calls[c].step \in Busy
                              THEN EndCall(calls[c], "lost") ELSE calls[c]]
  /\ started' = started + 1
  /\ UNCHANGED <<FileSystem, vms, policyFile, policy>>

EngineStarts ==
  /\ ~engineUp /\ engineUp' = TRUE
  /\ policy' = policyFile
  /\ UNCHANGED <<FileSystem, calls, vms, policyFile, started>>

EditPolicy(p) ==
  /\ p # policyFile /\ policyFile' = p
  /\ started' = started + 1
  /\ UNCHANGED <<FileSystem, calls, vms, engineUp, policy>>

InstallStep(i) ==
  \/ \E b \in Bundle, force \in BOOLEAN : Install(i, b, force)
  \/ Replace(i) \/ RemoveFile(i) \/ RemoveDir(i) \/ MakeDir(i)
  \/ OpenFile(i) \/ WriteFile(i) \/ InstallStops(i)

CallStep(c) ==
  \/ ReadManifest(c) \/ PackFile(c) \/ Spawn(c) \/ FindSocket(c) \/ GiveUpSocket(c)
  \/ Boot(c) \/ Collect(c) \/ TimeOut(c) \/ Cancel(c) \/ Listen(c) \/ Exit(c)

\* Every step but the start of a call, which the module System composes with
\* the callers.
ToolsStep ==
  \/ \E i \in Installer : InstallStep(i)
  \/ \E c \in Call : CallStep(c)
  \/ EngineStops \/ EngineStarts
  \/ \E p \in Policies : EditPolicy(p)

=================================================================================

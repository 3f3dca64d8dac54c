------------------------------- MODULE ToolsProofs -------------------------------
(***************************************************************************)
(* Proofs about Tools: what a step of an installer or of a call keeps.     *)
(***************************************************************************)
EXTENDS Tools, TLAPS

InstallType ==
  [step : Changing \cup {"idle", "verified", "installed", "stopped"}, bundle : Bundle \cup {None},
   todo : SUBSET File, cur : File \cup {None}, alone : BOOLEAN]

CallType ==
  [step : {"idle"} \cup Busy \cup Ended, target : Target \cup {None}, dir : Dir \cup {None},
   manifest : Bundle \cup {None}, todo : SUBSET File, pack : [File -> Content],
   deadline : BOOLEAN, disturbed : BOOLEAN]

\* An installer that is at work has a bundle, and a file when it writes one;
\* a call that packs has a directory.
ToolShape ==
  /\ \A i \in Installer :
       /\ installs[i].step \in Changing \cup {"verified"} => installs[i].bundle \in Bundle
       /\ installs[i].step = "writing" => installs[i].cur \in File
  /\ \A c \in Call : calls[c].step = "packing" => calls[c].dir \in Dir

ToolTyped == ToolsTypeOK /\ ToolShape

\* Nothing is installed, no call has been made: the start has the types.
LEMMA ToolTypedInit == ToolsInit => ToolTyped
BY ToolsAssumption DEF ToolsInit, ToolTyped, ToolsTypeOK, ToolShape, IdleInstall, IdleCall, Content, Busy, Ended,
   Changing, Waiting

\* An installer that has verified its bundle knows the directory of the skill.
LEMMA IntoTyped ==
  ASSUME ToolTyped, NEW i \in Installer, installs[i].step \in Changing \cup {"verified"}
  PROVE  installs[i].bundle \in Bundle /\ Into(i) \in Dir
BY ToolsAssumption DEF ToolTyped, ToolShape, Into

\* What an installer does to a directory changes only whether the calls that
\* read it have been disturbed.
LEMMA Disturbs ==
  ASSUME ToolTyped, NEW d
  PROVE  /\ Disturb(d) \in [Call -> CallType]
         /\ \A c \in Call :
              /\ Disturb(d)[c].step = calls[c].step
              /\ Disturb(d)[c].dir = calls[c].dir
              /\ Disturb(d)[c].target = calls[c].target
              /\ Disturb(d)[c].manifest = calls[c].manifest
              /\ Disturb(d)[c].todo = calls[c].todo
              /\ Disturb(d)[c].pack = calls[c].pack
              /\ calls[c].step \in {"found", "packing"} /\ calls[c].dir = d => Disturb(d)[c].disturbed
              /\ calls[c].disturbed => Disturb(d)[c].disturbed
              /\ calls[c].dir # d => Disturb(d)[c] = calls[c]
<1>1. calls \in [Call -> CallType]
  BY DEF ToolTyped, ToolsTypeOK, CallType
<1> HIDE DEF ToolTyped
<1>2. \A c \in Call : Disturb(d)[c] = 
         IF calls[c].step \in {"found", "packing"} /\ calls[c].dir = d
                  THEN [calls[c] EXCEPT !.disturbed = TRUE] ELSE calls[c]
  BY DEF Disturb
<1>3. \A c \in Call : [calls[c] EXCEPT !.disturbed = TRUE] \in CallType
  BY <1>1 DEF CallType
<1>4. Disturb(d) \in [Call -> CallType]
  BY <1>1, <1>3 DEF Disturb
<1>5. ASSUME NEW c \in Call, calls[c].step \in {"found", "packing"} /\ calls[c].dir = d
      PROVE  /\ Disturb(d)[c].step = calls[c].step
              /\ Disturb(d)[c].dir = calls[c].dir
              /\ Disturb(d)[c].target = calls[c].target
              /\ Disturb(d)[c].manifest = calls[c].manifest
              /\ Disturb(d)[c].todo = calls[c].todo
              /\ Disturb(d)[c].pack = calls[c].pack
              /\ Disturb(d)[c].disturbed
  BY <1>1, <1>2, <1>5 DEF CallType
<1> QED
  BY <1>2, <1>4, <1>5

\* A step that leaves the calls, and the steps and directories of calls alone.
LEMMA CallsAlike ==
  ASSUME ToolTyped, NEW d, calls' = Disturb(d)
  PROVE  calls' \in [Call -> CallType] /\ \A c \in Call : calls'[c].step = "packing" => calls'[c].dir \in Dir
BY Disturbs DEF ToolTyped, ToolShape

\* verify_skill_bundle and install_verified_bundle keep the types.
LEMMA InstallStepTyped == ASSUME ToolTyped, NEW i \in Installer, InstallStep(i) PROVE ToolTyped'
<1>0. /\ made \subseteq Dir /\ files \in [Dir -> [File -> Content]] /\ torn \subseteq Dir
      /\ installs \in [Installer -> InstallType] /\ calls \in [Call -> CallType]
      /\ vms \in [Call -> Alive \cup {"none", "died", "exited"}]
      /\ engineUp \in BOOLEAN /\ policyFile \in Policies /\ policy \in Policies /\ started \in Nat
      /\ ToolShape
  BY DEF ToolTyped, ToolsTypeOK, InstallType, CallType
<1> DEFINE Rest == /\ vms' = vms /\ engineUp' = engineUp /\ policyFile' = policyFile /\ policy' = policy
                   /\ started' \in Nat
           Others == \A j \in Installer \ {i} :
                       /\ installs'[j].step = installs[j].step
                       /\ installs'[j].bundle = installs[j].bundle
                       /\ installs'[j].cur = installs[j].cur
           Dirs == made' \subseteq Dir /\ files' \in [Dir -> [File -> Content]] /\ torn' \subseteq Dir
           Calls == calls' \in [Call -> CallType]
                    /\ \A c \in Call : calls'[c].step = "packing" => calls'[c].dir \in Dir
           Mine == /\ installs'[i].step \in Changing \cup {"verified"} => installs'[i].bundle \in Bundle
                   /\ installs'[i].step = "writing" => installs'[i].cur \in File
<1>1. ASSUME Rest, Others, Dirs, Calls, Mine, installs' \in [Installer -> InstallType]
      PROVE  ToolTyped'
  BY <1>0, <1>1 DEF ToolTyped, ToolsTypeOK, ToolShape, InstallType, CallType
<1>2. calls' = calls => Calls
  BY <1>0 DEF ToolShape
<1>3. ASSUME NEW x \in InstallType, installs' = [installs EXCEPT ![i] = x]
      PROVE  /\ installs' \in [Installer -> InstallType] /\ Others /\ installs'[i] = x
  BY <1>0, <1>3
<1>4. CASE \E b \in Bundle, force \in BOOLEAN : Install(i, b, force)
  <2>1. PICK b \in Bundle : installs' = [installs EXCEPT ![i].step = "verified", ![i].bundle = b]
    BY <1>4 DEF Install
  <2>2. [installs[i] EXCEPT !.step = "verified", !.bundle = b] \in InstallType
        /\ [installs[i] EXCEPT !.step = "verified", !.bundle = b].bundle = b
        /\ [installs[i] EXCEPT !.step = "verified", !.bundle = b].step = "verified"
    BY <1>0 DEF InstallType
  <2>3. Rest /\ calls' = calls /\ Dirs
    BY <1>0, <1>4 DEF Install
  <2> QED
    BY <1>1, <1>2, <1>3, <2>1, <2>2, <2>3, ZenonT(60)
<1>5. CASE Replace(i)
  <2>1. Rest /\ calls' = calls /\ Dirs
    BY <1>0, <1>5 DEF Replace
  <2>2. /\ installs[i].step = "verified"
        /\ installs' = [j \in Installer |->
             IF j = i THEN [installs[i] EXCEPT
               !.step = IF Into(i) \in made THEN "clearing" ELSE "making",
               !.todo = {f \in File : files[Into(i)][f] # Absent},
               !.alone = Installing(Into(i)) = {}]
             ELSE IF j \in Installing(Into(i)) THEN [installs[j] EXCEPT !.alone = FALSE]
             ELSE installs[j]]
    BY <1>5 DEF Replace
  <2>3. installs[i].bundle \in Bundle
    BY <2>2, IntoTyped
  <2> DEFINE x == [installs[i] EXCEPT
               !.step = IF Into(i) \in made THEN "clearing" ELSE "making",
               !.todo = {f \in File : files[Into(i)][f] # Absent},
               !.alone = Installing(Into(i)) = {}]
  <2>4. x \in InstallType /\ x.bundle \in Bundle /\ x.step # "writing"
    BY <1>0, <2>3, ZenonT(60) DEF InstallType, Changing
  <2>5. \A j \in Installer : [installs[j] EXCEPT !.alone = FALSE] \in InstallType
                             /\ [installs[j] EXCEPT !.alone = FALSE].step = installs[j].step
                             /\ [installs[j] EXCEPT !.alone = FALSE].bundle = installs[j].bundle
                             /\ [installs[j] EXCEPT !.alone = FALSE].cur = installs[j].cur
    BY <1>0 DEF InstallType
  <2>6. installs'[i] = x /\ \A j \in Installer \ {i} :
           installs'[j] \in {installs[j], [installs[j] EXCEPT !.alone = FALSE]}
    BY <2>2
  <2> HIDE DEF x
  <2>7. installs' \in [Installer -> InstallType]
    <3>1. \A j \in Installer : installs'[j] \in InstallType
      BY <1>0, <2>4, <2>5, <2>6
    <3>2. installs' = [j \in Installer |-> installs'[j]]
      BY <2>2
    <3> QED
      BY <3>1, <3>2
  <2>8. Others
    BY <2>5, <2>6
  <2> QED
    BY <1>1, <1>2, <2>1, <2>4, <2>6, <2>7, <2>8
<1>6. CASE RemoveFile(i)
  <2>1. PICK f \in installs[i].todo : /\ installs' = [installs EXCEPT ![i].todo = @ \ {f}]
                                      /\ Change(i, [files[Into(i)] EXCEPT ![f] = Absent])
    BY <1>6 DEF RemoveFile
  <2>2. installs[i].step = "clearing" /\ Rest /\ made' = made /\ torn' = torn
    BY <1>0, <1>6 DEF RemoveFile
  <2>3. installs[i].bundle \in Bundle /\ Into(i) \in Dir
    BY <2>2, IntoTyped DEF Changing
  <2>4. [installs[i] EXCEPT !.todo = @ \ {f}] \in InstallType
        /\ [installs[i] EXCEPT !.todo = @ \ {f}].bundle = installs[i].bundle
        /\ [installs[i] EXCEPT !.todo = @ \ {f}].step = "clearing"
    BY <1>0, <2>2 DEF InstallType
  <2>5. Calls
    BY <2>1, CallsAlike DEF Change
  <2>6. Dirs
    BY <1>0, <2>1, <2>2, <2>3 DEF Change, Content
  <2> QED
    BY <1>1, <1>3, <2>1, <2>2, <2>3, <2>4, <2>5, <2>6
<1>7. CASE RemoveDir(i)
  <2>2. installs[i].step = "clearing" /\ Rest /\ Dirs /\ calls' = Disturb(Into(i))
        /\ installs' = [installs EXCEPT ![i].step = "making"]
    BY <1>0, <1>7 DEF RemoveDir
  <2>3. installs[i].bundle \in Bundle
    BY <2>2, IntoTyped DEF Changing
  <2>4. [installs[i] EXCEPT !.step = "making"] \in InstallType
        /\ [installs[i] EXCEPT !.step = "making"].bundle = installs[i].bundle
        /\ [installs[i] EXCEPT !.step = "making"].step = "making"
    BY <1>0 DEF InstallType, Changing
  <2>5. Calls
    BY <2>2, CallsAlike
  <2> QED
    BY <1>1, <1>3, <2>2, <2>3, <2>4, <2>5
<1>8. CASE MakeDir(i)
  <2> DEFINE x == [installs[i] EXCEPT !.step = "copying", !.todo = FilesOf[installs[i].bundle]]
  <2>2. installs[i].step = "making" /\ Rest /\ calls' = calls /\ files' = files /\ torn' = torn
        /\ installs' = [installs EXCEPT ![i] = x] /\ made' = made \cup {Into(i)}
    BY <1>0, <1>8 DEF MakeDir
  <2>3. installs[i].bundle \in Bundle /\ Into(i) \in Dir
    BY <2>2, IntoTyped DEF Changing
  <2>1. installs[i] \in InstallType /\ FilesOf[installs[i].bundle] \in SUBSET File
    BY <1>0, <2>3, ToolsAssumption
  <2>4. x \in InstallType /\ x.bundle = installs[i].bundle /\ x.step = "copying"
    BY <2>1 DEF InstallType, Changing
  <2>5. Dirs
    BY <1>0, <2>2, <2>3
  <2> HIDE DEF x
  <2> QED
    BY <1>1, <1>2, <1>3, <2>2, <2>3, <2>4, <2>5
<1>9. CASE OpenFile(i)
  <2>1. PICK f \in installs[i].todo : /\ installs' = [installs EXCEPT ![i].step = "writing", ![i].cur = f]
                                      /\ Change(i, [files[Into(i)] EXCEPT ![f] = Partial])
    BY <1>9 DEF OpenFile
  <2>2. installs[i].step = "copying" /\ Rest /\ made' = made \cup {Into(i)} /\ torn' = torn
    BY <1>0, <1>9 DEF OpenFile
  <2>3. installs[i].bundle \in Bundle /\ Into(i) \in Dir /\ f \in File
    BY <1>0, <2>2, IntoTyped DEF Changing, InstallType
  <2> DEFINE x == [installs[i] EXCEPT !.step = "writing", !.cur = f]
  <2>4. x \in InstallType /\ x.bundle = installs[i].bundle /\ x.step = "writing" /\ x.cur = f
    BY <1>0, <2>3 DEF InstallType, Changing
  <2>7. installs' = [installs EXCEPT ![i] = x]
    BY <2>1
  <2>5. Calls
    BY <2>1, CallsAlike DEF Change
  <2>6. Dirs
    BY <1>0, <2>1, <2>2, <2>3 DEF Change, Content
  <2> HIDE DEF x
  <2> QED
    BY <1>1, <1>3, <2>2, <2>3, <2>4, <2>5, <2>6, <2>7
<1>10. CASE WriteFile(i)
  <2> DEFINE rest == installs[i].todo \ {installs[i].cur}
             here == files[Into(i)]
             x == IF rest = {} THEN [IdleInstall EXCEPT !.step = "installed"]
                  ELSE [installs[i] EXCEPT !.step = "copying", !.todo = rest, !.cur = None]
             content == IF here[installs[i].cur] = Absent THEN here
                        ELSE [here EXCEPT ![installs[i].cur] = installs[i].bundle]
  <2>2. installs[i].step = "writing" /\ Rest /\ made' = made /\ Change(i, content)
        /\ installs' = [installs EXCEPT ![i] = x]
        /\ torn' \in {torn, torn \ {Into(i)}, torn \cup {Into(i)}}
    BY <1>0, <1>10 DEF WriteFile
  <2>3. installs[i].bundle \in Bundle /\ Into(i) \in Dir
    BY <1>0, <2>2, IntoTyped DEF Changing, InstallType
  <2>4. x \in InstallType /\ (x.step = "copying" => x.bundle = installs[i].bundle)
        /\ x.step \in {"copying", "installed"}
    BY <1>0, <2>3 DEF InstallType, Changing, IdleInstall
  <2>5. Calls
    BY <2>2, CallsAlike DEF Change
  <2>6. content \in [File -> Content]
    BY <1>0, <2>3 DEF Content
  <2>7. Dirs
    BY <1>0, <2>2, <2>3, <2>6 DEF Change
  <2> HIDE DEF x, content
  <2> QED
    BY <1>1, <1>3, <2>2, <2>3, <2>4, <2>5, <2>7 DEF Changing
<1>11. CASE InstallStops(i)
  <2> DEFINE x == [IdleInstall EXCEPT !.step = "stopped"]
  <2>2. installs[i].step \in Changing \cup {"verified"} /\ Rest /\ made' = made /\ files' = files /\ calls' = calls
        /\ installs' = [installs EXCEPT ![i] = x] /\ torn' \in {torn, torn \cup {Into(i)}}
    BY <1>0, <1>11 DEF InstallStops
  <2>4. x \in InstallType /\ x.step = "stopped"
    BY DEF InstallType, IdleInstall
  <2>5. Dirs
    BY <1>0, <2>2, IntoTyped
  <2> HIDE DEF x
  <2> QED
    BY <1>1, <1>2, <1>3, <2>2, <2>4, <2>5 DEF Changing
<1> QED
  BY <1>4, <1>5, <1>6, <1>7, <1>8, <1>9, <1>10, <1>11, Zenon DEF InstallStep

-----------------------------------------------------------------------------
(***************************************************************************)
(* The machines of the calls.                                              *)
(***************************************************************************)

\* Where a call may be while its machine is alive.
GivenUp == {"no_socket", "refused", "timed_out", "cancelled", "lost"}
Explained(call, vm) == vm \in Alive => call.step \in Waiting \cup {"booting"} \cup GivenUp

\* A call that is under way belongs to an engine that runs and permits it.
Permitted(call) == call.step \in Busy => engineUp /\ Authorized(policy, call.target.subject, call.target.requested)

ToolInv == ToolTyped /\ \A c \in Call : Explained(calls[c], vms[c]) /\ Permitted(calls[c])

\* No machine runs and no call has been authorized at the start.
LEMMA ToolInvInit == ToolsInit => ToolInv
BY ToolTypedInit DEF ToolInv, ToolsInit, Explained, Permitted, IdleCall, Busy, Waiting, Alive

\* An installation neither moves a call nor touches a machine or the policy.
LEMMA InstallStepCalls ==
  ASSUME NEW i \in Installer, InstallStep(i)
  PROVE  /\ vms' = vms /\ engineUp' = engineUp /\ policy' = policy
         /\ calls' = calls \/ calls' = Disturb(Into(i))
BY Zenon DEF InstallStep, Install, Replace, RemoveFile, RemoveDir, MakeDir, OpenFile, WriteFile, InstallStops, Change

\* `openpinch skill install' beside the engine keeps what is known of its calls.
LEMMA InstallStepInv == ASSUME ToolInv, NEW i \in Installer, InstallStep(i) PROVE ToolInv'
<1>1. ToolTyped'
  BY InstallStepTyped DEF ToolInv
<1>2. vms' = vms /\ engineUp' = engineUp /\ policy' = policy
      /\ \A c \in Call : calls'[c].step = calls[c].step /\ calls'[c].target = calls[c].target
  BY InstallStepCalls, Disturbs DEF ToolInv
<1> QED
  BY <1>1, <1>2 DEF ToolInv, Explained, Permitted

\* A step of one call and its machine.
LEMMA CallMoves ==
  ASSUME ToolInv, NEW c \in Call, NEW x \in CallType, NEW vm \in Alive \cup {"none", "died", "exited"},
         calls' = [calls EXCEPT ![c] = x], vms' = [vms EXCEPT ![c] = vm],
         UNCHANGED <<FileSystem, engineUp, policyFile, policy>>, started' \in Nat,
         x.step = "packing" => x.dir \in Dir,
         Explained(x, vm), Permitted(x)
  PROVE  ToolInv'
<1>1. /\ calls \in [Call -> CallType] /\ vms \in [Call -> Alive \cup {"none", "died", "exited"}]
      /\ \A d \in Call : calls[d].step = "packing" => calls[d].dir \in Dir
  BY DEF ToolInv, ToolTyped, ToolsTypeOK, ToolShape, CallType
<1>2. /\ calls' \in [Call -> CallType] /\ vms' \in [Call -> Alive \cup {"none", "died", "exited"}]
      /\ calls'[c] = x /\ vms'[c] = vm
      /\ \A d \in Call \ {c} : calls'[d] = calls[d] /\ vms'[d] = vms[d]
  BY <1>1
<1>3. ToolTyped'
  BY <1>1, <1>2 DEF ToolInv, ToolTyped, ToolsTypeOK, ToolShape, CallType, FileSystem
<1>4. \A d \in Call : Explained(calls'[d], vms'[d])
  BY <1>2 DEF ToolInv
<1>5. \A d \in Call : Permitted(calls[d])' 
  BY <1>2 DEF ToolInv, Permitted
<1> QED
  BY <1>3, <1>4, <1>5 DEF ToolInv, Explained

\* A call ends.
LEMMA CallEnds ==
  ASSUME ToolInv, NEW c \in Call, NEW how \in Ended, End(c, how),
         UNCHANGED <<FileSystem, vms, Service>>,
         vms[c] \in Alive => how \in GivenUp
  PROVE  ToolInv'
<1>1. /\ calls[c] \in CallType /\ vms \in [Call -> Alive \cup {"none", "died", "exited"}]
      /\ started \in Nat
  BY DEF ToolInv, ToolTyped, ToolsTypeOK, CallType
<1> DEFINE x == EndCall(calls[c], how)
<1>2. x \in CallType /\ x.step = how
  BY <1>1 DEF EndCall, IdleCall, CallType, Content
<1>3. /\ calls' = [calls EXCEPT ![c] = x] /\ vms' = [vms EXCEPT ![c] = vms[c]]
      /\ UNCHANGED <<FileSystem, engineUp, policyFile, policy>> /\ started' \in Nat
  BY <1>1 DEF End, Service
<1>4. x.step # "packing" /\ x.step \notin Busy
  BY <1>2 DEF Ended, Busy, Waiting
<1>5. Explained(x, vms[c]) /\ Permitted(x)
  BY <1>2, <1>4 DEF Explained, Permitted
<1> HIDE DEF x
<1> QED
  BY <1>1, <1>2, <1>3, <1>4, <1>5, CallMoves

\* A call that is under way goes on, perhaps with its machine.
LEMMA CallGoesOn ==
  ASSUME ToolInv, NEW c \in Call, NEW x \in CallType, NEW vm \in Alive \cup {"none", "died", "exited"},
         calls' = [calls EXCEPT ![c] = x], vms' = [vms EXCEPT ![c] = vm],
         UNCHANGED <<FileSystem, Service>>,
         x.step = "packing" => x.dir \in Dir,
         calls[c].step \in Busy, x.target = calls[c].target,
         Explained(x, vm)
  PROVE  ToolInv'
<1>1. started' \in Nat /\ UNCHANGED <<engineUp, policyFile, policy>>
  BY DEF ToolInv, ToolTyped, ToolsTypeOK, Service
<1>2. Permitted(x)
  BY DEF ToolInv, Permitted
<1> QED
  BY <1>1, <1>2, CallMoves

\* execute_inner, execute_skill_inner and Firecracker's execute: a machine that
\* is alive belongs to a call that waits for it or has given it up.
LEMMA CallStepInv == ASSUME ToolInv, NEW c \in Call, CallStep(c) PROVE ToolInv'
<1>0. /\ calls \in [Call -> CallType] /\ calls[c] \in CallType
      /\ vms \in [Call -> Alive \cup {"none", "died", "exited"}]
      /\ made \subseteq Dir /\ files \in [Dir -> [File -> Content]]
      /\ Explained(calls[c], vms[c]) /\ vms = [vms EXCEPT ![c] = vms[c]]
      /\ calls[c].step = "packing" => calls[c].dir \in Dir
  BY DEF ToolInv, ToolTyped, ToolsTypeOK, ToolShape, CallType
<1>a. /\ {"failed", "no_socket", "refused", "done", "timed_out", "cancelled"} \subseteq Ended
      /\ {"no_socket", "refused", "timed_out", "cancelled"} \subseteq GivenUp
  BY DEF Ended, GivenUp
<1>b. {"found", "packing", "spawning", "booting", "socket", "exit"} \subseteq Busy
  BY DEF Busy, Waiting
<1>c. \A to \in {"spawning", "booting", "socket", "exit"} :
        /\ [calls[c] EXCEPT !.step = to] \in CallType
        /\ [calls[c] EXCEPT !.step = to].step = to
        /\ [calls[c] EXCEPT !.step = to].target = calls[c].target
        /\ Step(c, to) => calls' = [calls EXCEPT ![c] = [calls[c] EXCEPT !.step = to]]
  BY <1>0, <1>b DEF CallType, Step
<1>1. CASE ReadManifest(c)
  <2>0. calls[c].step = "found" /\ UNCHANGED <<FileSystem, vms, Service>>
    BY <1>1 DEF ReadManifest
  <2>1. vms[c] \notin Alive
    BY <1>0, <2>0 DEF Explained, Waiting, GivenUp
  <2>2. CASE End(c, "failed")
    BY <1>a, <2>0, <2>1, <2>2, CallEnds
  <2>3. ASSUME NEW d \in made,
               files[d][Manifest] \in Bundle,
               calls' = [calls EXCEPT ![c].step = "packing", ![c].dir = d, ![c].todo = File,
                                      ![c].manifest = files[d][Manifest],
                                      ![c].disturbed = d \in torn \/ Installing(d) # {}]
        PROVE ToolInv'
    <3> DEFINE x == [calls[c] EXCEPT !.step = "packing", !.dir = d, !.todo = File,
                                      !.manifest = files[d][Manifest],
                                      !.disturbed = d \in torn \/ Installing(d) # {}]
    <3>1. calls' = [calls EXCEPT ![c] = x]
      BY <2>3
    <3>2. x \in CallType /\ x.target = calls[c].target /\ x.dir \in Dir
      BY <1>0, <1>b, <2>3 DEF CallType
    <3>3. vms' = [vms EXCEPT ![c] = vms[c]] /\ Explained(x, vms[c])
      BY <1>0, <2>0, <2>1 DEF Explained
    <3> HIDE DEF x
    <3> QED
      BY <1>0, <1>b, <2>0, <3>1, <3>2, <3>3, CallGoesOn
  <2> QED
    BY <1>1, <2>2, <2>3 DEF ReadManifest
<1>2. CASE PackFile(c)
  <2>0. calls[c].step = "packing" /\ UNCHANGED <<FileSystem, vms, Service>>
    BY <1>2 DEF PackFile
  <2>1. vms[c] \notin Alive
    BY <1>0, <2>0 DEF Explained, Waiting, GivenUp
  <2>2. CASE End(c, "failed")
    BY <1>a, <2>0, <2>1, <2>2, CallEnds
  <2>3. ASSUME NEW f \in calls[c].todo,
               calls' = [calls EXCEPT ![c].pack[f] = files[calls[c].dir][f], ![c].todo = @ \ {f},
                           ![c].step = IF calls[c].todo = {f} THEN "spawning" ELSE @]
        PROVE ToolInv'
    <3> DEFINE x == [calls[c] EXCEPT !.pack[f] = files[calls[c].dir][f], !.todo = @ \ {f},
                                     !.step = IF calls[c].todo = {f} THEN "spawning" ELSE @]
    <3>1. calls' = [calls EXCEPT ![c] = x]
      BY <2>3
    <3>a. calls[c].dir \in Dir /\ f \in File /\ files[calls[c].dir][f] \in Content
      BY <1>0, <2>0 DEF CallType
    <3>2. x \in CallType /\ x.target = calls[c].target /\ x.dir \in Dir
      BY <1>0, <1>b, <3>a DEF CallType
    <3>3. vms' = [vms EXCEPT ![c] = vms[c]] /\ Explained(x, vms[c])
      BY <1>0, <2>0, <2>1 DEF Explained
    <3> HIDE DEF x
    <3> QED
      BY <1>0, <1>b, <2>0, <3>1, <3>2, <3>3, CallGoesOn
  <2> QED
    BY <1>2, <2>2, <2>3 DEF PackFile
<1>3. CASE Spawn(c)
  <2>0. calls[c].step = "spawning" /\ UNCHANGED <<FileSystem, Service>>
    BY <1>3 DEF Spawn
  <2>1. vms[c] \notin Alive
    BY <1>0, <2>0 DEF Explained, Waiting, GivenUp
  <2>2. CASE End(c, "failed") /\ UNCHANGED vms
    BY <1>a, <2>0, <2>1, <2>2, CallEnds
  <2>3. CASE Step(c, "socket") /\ vms' = [vms EXCEPT ![c] = "starting"]
    <3>1. Explained([calls[c] EXCEPT !.step = "socket"], "starting")
      BY <1>c DEF Explained, Waiting
    <3>2. "starting" \in Alive
      BY DEF Alive
    <3> QED
      BY <1>b, <1>c, <2>0, <2>3, <3>1, <3>2, CallGoesOn
  <2> QED
    BY <1>3, <2>2, <2>3 DEF Spawn
<1>4. CASE FindSocket(c)
  <2>1. Explained([calls[c] EXCEPT !.step = "booting"], vms[c])
    BY <1>c DEF Explained
  <2> QED
    BY <1>0, <1>4, <1>b, <1>c, <2>1, CallGoesOn, ZenonT(60) DEF FindSocket
<1>5. CASE GiveUpSocket(c)
  BY <1>5, <1>a, CallEnds DEF GiveUpSocket
<1>6. CASE Boot(c)
  <2>0. calls[c].step = "booting" /\ UNCHANGED <<FileSystem, Service>>
    BY <1>6 DEF Boot
  <2>1. CASE End(c, "refused") /\ UNCHANGED vms
    BY <1>a, <2>0, <2>1, CallEnds
  <2>2. CASE vms' = [vms EXCEPT ![c] = "running"] /\ Step(c, "exit")
    <3>1. Explained([calls[c] EXCEPT !.step = "exit"], "running")
      BY <1>c DEF Explained, Waiting
    <3>2. "running" \in Alive
      BY DEF Alive
    <3> QED
      BY <1>b, <1>c, <2>0, <2>2, <3>1, <3>2, CallGoesOn
  <2>3. CASE vms' = [vms EXCEPT ![c] = "running"] /\ End(c, "refused")
    <3> DEFINE x == EndCall(calls[c], "refused")
    <3>1. x \in CallType /\ x.step = "refused" /\ x.target = calls[c].target
      BY <1>0, <1>a DEF EndCall, IdleCall, CallType, Content
    <3>2. Explained(x, "running") /\ "running" \in Alive
      BY <3>1 DEF Explained, GivenUp, Alive
    <3>3. calls' = [calls EXCEPT ![c] = x]
      BY <2>3 DEF End
    <3> HIDE DEF x
    <3> QED
      BY <1>b, <2>0, <2>3, <3>1, <3>2, <3>3, CallGoesOn
  <2> QED
    BY <1>6, <2>1, <2>2, <2>3, Zenon DEF Boot
<1>7. CASE Collect(c)
  <2>1. vms[c] \notin Alive
    BY <1>7 DEF Collect, Alive
  <2> QED
    BY <1>7, <1>a, <2>1, CallEnds DEF Collect
<1>8. CASE TimeOut(c)
  BY <1>8, <1>a, CallEnds DEF TimeOut
<1>9. CASE Cancel(c)
  BY <1>9, <1>a, CallEnds DEF Cancel
<1>10. CASE Listen(c)
  <2>1. calls' = calls /\ vms' = [vms EXCEPT ![c] = "listening"] /\ vms[c] \in Alive
        /\ UNCHANGED <<FileSystem, Service>>
    BY <1>10 DEF Listen, Alive
  <2>2. "listening" \in Alive /\ Explained(calls[c], "listening")
    BY <1>0, <2>1 DEF Alive, Explained
  <2> QED
    BY <1>0, <2>1, <2>2, CallMoves DEF ToolInv, ToolTyped, ToolsTypeOK, Service
<1>11. CASE Exit(c)
  <2> DEFINE vm == IF vms[c] = "starting" THEN "died" ELSE "exited"
  <2>1. calls' = calls /\ UNCHANGED <<FileSystem, Service>> /\ vms' = [vms EXCEPT ![c] = vm]
        /\ vm \in {"died", "exited"}
    BY <1>11 DEF Exit
  <2> HIDE DEF vm
  <2>2. Explained(calls[c], vm)
    BY <2>1 DEF Explained, Alive
  <2>3. calls' = [calls EXCEPT ![c] = calls[c]] /\ Permitted(calls[c]) /\ started' \in Nat
        /\ UNCHANGED <<engineUp, policyFile, policy>>
    BY <1>0, <2>1 DEF ToolInv, ToolTyped, ToolsTypeOK, Service
  <2> QED
    BY <1>0, <2>1, <2>2, <2>3, CallMoves
<1> QED
  BY <1>1, <1>2, <1>3, <1>4, <1>5, <1>6, <1>7, <1>8, <1>9, <1>10, <1>11, Zenon DEF CallStep

\* authorize: a call goes to work only under the policy the engine has loaded.
LEMMA StartCallInv ==
  ASSUME ToolInv, NEW c \in Call, NEW target \in Target, NEW deadline \in BOOLEAN,
         StartCall(c, target, deadline), started' = started + 1
  PROVE  ToolInv'
<1>0. /\ calls \in [Call -> CallType] /\ vms \in [Call -> Alive \cup {"none", "died", "exited"}]
      /\ vms = [vms EXCEPT ![c] = vms[c]] /\ calls[c].step = "idle"
      /\ vms' = vms /\ UNCHANGED <<FileSystem, engineUp, policyFile, policy>> /\ started' \in Nat /\ engineUp
  BY DEF ToolInv, ToolTyped, ToolsTypeOK, CallType, StartCall
<1>1. vms[c] \notin Alive
  BY <1>0 DEF ToolInv, Explained, Waiting, GivenUp
<1> DEFINE x == [IdleCall EXCEPT
       !.target = target, !.deadline = deadline,
       !.step = IF ~Authorized(policy, target.subject, target.requested) THEN "denied"
                ELSE IF ~target.sandboxed THEN "done"
                ELSE IF target.skill = None THEN "spawning"
                ELSE "found"]
<1>2. calls' = [calls EXCEPT ![c] = x]
  BY DEF StartCall
<1>3. x \in CallType /\ x.target = target /\ x.step \in {"denied", "done", "spawning", "found"}
      /\ (x.step \in {"spawning", "found"} => Authorized(policy, target.subject, target.requested))
  BY DEF IdleCall, CallType, Busy, Ended, Content
<1> HIDE DEF x
<1>4. Permitted(x) /\ Explained(x, vms[c])
  BY <1>0, <1>1, <1>3 DEF Permitted, Explained, Busy, Waiting
<1> QED
  BY <1>0, <1>2, <1>3, <1>4, CallMoves

\* The engine stops and starts, and the policy file changes underneath it.
LEMMA ServiceInv ==
  ASSUME ToolInv, EngineStops \/ EngineStarts \/ \E p \in Policies : EditPolicy(p)
  PROVE  ToolInv'
<1>0. calls \in [Call -> CallType] /\ started \in Nat
  BY DEF ToolInv, ToolTyped, ToolsTypeOK, CallType
<1>1. CASE EngineStops
  <2>1. /\ UNCHANGED <<FileSystem, vms, policyFile, policy>> /\ engineUp' = FALSE /\ started' \in Nat
        /\ calls' = [c \in Call |-> IF calls[c].step \in Busy
                                    THEN EndCall(calls[c], "lost") ELSE calls[c]]
    BY <1>0, <1>1 DEF EngineStops
  <2>2. \A c \in Call : /\ EndCall(calls[c], "lost") \in CallType
                        /\ EndCall(calls[c], "lost").step = "lost"
    BY <1>0 DEF EndCall, IdleCall, CallType, Ended, Content
  <2>3. calls' \in [Call -> CallType]
    BY <1>0, <2>1, <2>2
  <2>4. \A c \in Call : calls'[c].step \notin Busy
                        /\ \/ calls'[c] = calls[c]
                           \/ calls'[c].step = "lost"
    BY <2>1, <2>2 DEF Busy, Waiting
  <2>5. ToolTyped'
    BY <2>1, <2>3, <2>4 DEF ToolInv, ToolTyped, ToolsTypeOK, ToolShape, CallType, FileSystem, Busy
  <2>6. \A c \in Call : Explained(calls'[c], vms'[c])
    BY <2>1, <2>4 DEF ToolInv, Explained, GivenUp
  <2>7. \A c \in Call : Permitted(calls[c])'
    BY <2>4 DEF Permitted
  <2> QED
    BY <2>5, <2>6, <2>7 DEF ToolInv, Explained
<1>2. CASE EngineStarts
  <2>1. UNCHANGED <<FileSystem, calls, vms, policyFile, started>> /\ engineUp' = TRUE /\ policy' = policyFile
        /\ ~engineUp
    BY <1>2 DEF EngineStarts
  <2>2. \A c \in Call : calls[c].step \notin Busy
    BY <2>1 DEF ToolInv, Permitted
  <2>5. ToolTyped'
    BY <2>1 DEF ToolInv, ToolTyped, ToolsTypeOK, ToolShape, CallType, FileSystem
  <2> QED
    BY <2>1, <2>2, <2>5 DEF ToolInv, Explained, Permitted
<1>3. CASE \E p \in Policies : EditPolicy(p)
  <2>1. UNCHANGED <<FileSystem, calls, vms, engineUp, policy>> /\ policyFile' \in Policies /\ started' \in Nat
    BY <1>0, <1>3 DEF EditPolicy
  <2>5. ToolTyped'
    BY <2>1 DEF ToolInv, ToolTyped, ToolsTypeOK, ToolShape, CallType, FileSystem
  <2> QED
    BY <2>1, <2>5 DEF ToolInv, Explained, Permitted
<1> QED
  BY <1>1, <1>2, <1>3

\* Every step of an installer, a call or the engine keeps what is known of calls.
LEMMA ToolsStepInv == ToolInv /\ ToolsStep => ToolInv'
BY InstallStepInv, CallStepInv, ServiceInv, Zenon DEF ToolsStep

-----------------------------------------------------------------------------
(***************************************************************************)
(* What the directories of installed skills hold while installers replace  *)
(* them and calls archive them.                                            *)
(***************************************************************************)

Whole(content, b) == \A f \in File : content[f] = IF f \in FilesOf[b] THEN b ELSE Absent
Empty(content)    == \A f \in File : content[f] = Absent

\* A directory that is at rest and was left in order holds one bundle, or nothing.
Sound(content) == Empty(content) \/ \E b \in Bundle : Whole(content, b)
Settled(d) == d \notin torn /\ Installing(d) = {} => Sound(files[d])

\* There are files in a directory only if it exists.
Named(d) == (\E f \in File : files[d][f] # Absent) => d \in made

\* What an installer that works alone has made of its directory so far.
Cleared(install, content) == \A f \in File \ install.todo : content[f] = Absent
Copied(install, content) ==
  /\ install.todo \subseteq FilesOf[install.bundle]
  /\ \A f \in File \ install.todo :
       content[f] = IF f \in FilesOf[install.bundle] THEN install.bundle ELSE Absent
Progress(install, content) ==
  /\ install.step = "clearing" => Cleared(install, content)
  /\ install.step = "making"   => Empty(content)
  /\ install.step \in {"copying", "writing"} => Copied(install, content)
  /\ install.step = "writing" => install.cur \in install.todo /\ content[install.cur] # Absent

Alone(i) ==
  installs[i].step \in Changing /\ installs[i].alone =>
    Installing(Into(i)) = {i} /\ Progress(installs[i], files[Into(i)])

\* A call that has not been disturbed archives the bundle its directory holds.
Faithful(call) ==
  call.manifest # None /\ ~call.disturbed =>
    /\ SkillOf[call.manifest] = call.target.skill
    /\ \A f \in File \ call.todo :
         call.pack[f] = IF f \in FilesOf[call.manifest] THEN call.manifest ELSE Absent
    /\ call.step = "packing" => Whole(files[call.dir], call.manifest)

PackageInv ==
  /\ \A d \in Dir : Settled(d) /\ Named(d)
  /\ \A i \in Installer : Alone(i)
  /\ \A c \in Call : Faithful(calls[c])

\* No directory exists at the start.
LEMMA PackageInvInit == ToolsInit => PackageInv
BY DEF ToolsInit, PackageInv, Settled, Named, Alone, Faithful, Sound, Empty, IdleInstall, IdleCall, Changing

\* The types of the directories, the installers and the calls, one by one.
LEMMA TypesOpen ==
  ASSUME ToolTyped
  PROVE  /\ made \subseteq Dir /\ files \in [Dir -> [File -> Content]] /\ torn \subseteq Dir
         /\ installs \in [Installer -> InstallType] /\ calls \in [Call -> CallType]
         /\ \A i \in Installer : installs[i].step \in Changing \cup {"verified"} =>
                                   installs[i].bundle \in Bundle /\ Into(i) \in Dir
         /\ \A c \in Call : calls[c].step = "packing" => calls[c].dir \in Dir
BY IntoTyped DEF ToolTyped, ToolsTypeOK, ToolShape, InstallType, CallType

\* An installer that changes neither a directory nor whether it is at work.
LEMMA OutsideStep ==
  ASSUME ToolTyped, PackageInv, NEW i \in Installer, NEW x \in InstallType,
         installs[i].step \notin Changing, x.step \notin Changing,
         installs' = [installs EXCEPT ![i] = x],
         UNCHANGED <<made, files, calls, torn>>
  PROVE  PackageInv'
<1>1. /\ installs'[i] = x /\ \A j \in Installer \ {i} : installs'[j] = installs[j]
  BY TypesOpen
<1>2. \A d : Installing(d)' = Installing(d)
  BY <1>1 DEF Installing, Into
<1>3. \A d \in Dir : Settled(d)' /\ Named(d)'
  BY <1>2 DEF PackageInv, Settled, Named
<1>4. ASSUME NEW j \in Installer PROVE Alone(j)'
  <2>1. CASE j = i
    BY <1>1, <2>1 DEF Alone
  <2>2. CASE j # i
    <3>1. installs'[j] = installs[j] /\ Into(j)' = Into(j)
      BY <1>1, <2>2 DEF Into
    <3> QED
      BY <1>2, <3>1 DEF PackageInv, Alone
  <2> QED
    BY <2>1, <2>2
<1>5. \A c \in Call : Faithful(calls[c])'
  BY DEF PackageInv, Faithful
<1> QED
  BY <1>3, <1>4, <1>5 DEF PackageInv

\* An installer that works on its directory.
LEMMA InsideStep ==
  ASSUME ToolTyped, PackageInv, NEW i \in Installer, NEW x \in InstallType,
         NEW dir \in Dir, NEW content \in [File -> Content],
         installs[i].step \in Changing, Into(i) = dir,
         installs' = [installs EXCEPT ![i] = x],
         files' = [files EXCEPT ![dir] = content],
         \A d \in Dir \ {dir} : (d \in made' <=> d \in made) /\ (d \in torn' <=> d \in torn),
         calls' = Disturb(dir) \/ (calls' = calls /\ content = files[dir]),
         (\E f \in File : content[f] # Absent) => dir \in made',
         x.step \in Changing => /\ x.bundle = installs[i].bundle /\ x.alone = installs[i].alone
                                /\ x.alone => Progress(x, content),
         x.step \notin Changing /\ Installing(dir) = {i} /\ dir \notin torn' => Sound(content)
  PROVE  PackageInv'
<1>0. installs \in [Installer -> InstallType] /\ files \in [Dir -> [File -> Content]]
      /\ calls \in [Call -> CallType]
      /\ \A c \in Call : calls[c].step = "packing" => calls[c].dir \in Dir
  BY TypesOpen
<1>1. /\ installs'[i] = x /\ \A j \in Installer \ {i} : installs'[j] = installs[j]
      /\ files'[dir] = content /\ \A d \in Dir \ {dir} : files'[d] = files[d]
  BY <1>0
<1>2. /\ \A j \in Installer \ {i} : Into(j)' = Into(j)
      /\ x.step \in Changing => Into(i)' = dir
  BY <1>1 DEF Into
<1>3. /\ \A d \in Dir \ {dir} : Installing(d)' = Installing(d)
      /\ Installing(dir)' \ {i} = Installing(dir) \ {i}
      /\ i \in Installing(dir)
      /\ i \in Installing(dir)' <=> x.step \in Changing
  BY <1>1, <1>2 DEF Installing
<1>4. ASSUME NEW d \in Dir PROVE Settled(d)' /\ Named(d)'
  <2>1. CASE d # dir
    BY <1>1, <1>3, <2>1 DEF PackageInv, Settled, Named
  <2>2. CASE d = dir
    <3>1. Named(d)'
      BY <1>1, <2>2 DEF Named
    <3>2. Installing(dir)' = {} => x.step \notin Changing /\ Installing(dir) = {i}
      BY <1>3
    <3>3. Settled(d)'
      BY <1>1, <2>2, <3>2 DEF Settled
    <3> QED
      BY <3>1, <3>3
  <2> QED
    BY <2>1, <2>2
<1>5. ASSUME NEW j \in Installer PROVE Alone(j)'
  <2>1. CASE j = i
    <3> SUFFICES ASSUME x.step \in Changing, x.alone
                 PROVE  Installing(dir)' = {i} /\ Progress(x, content)
      BY <1>1, <1>2, <2>1 DEF Alone
    <3>1. Installing(dir) = {i}
      BY DEF PackageInv, Alone
    <3> QED
      BY <1>3, <3>1
  <2>2. CASE j # i
    <3> SUFFICES ASSUME installs[j].step \in Changing, installs[j].alone
                 PROVE  Installing(Into(j))' = {j} /\ Progress(installs[j], files'[Into(j)])
      BY <1>1, <1>2, <2>2 DEF Alone
    <3>1. Installing(Into(j)) = {j} /\ Progress(installs[j], files[Into(j)])
      BY DEF PackageInv, Alone
    <3>2. Into(j) \in Dir /\ Into(j) # dir
      BY <1>3, <2>2, <3>1, TypesOpen
    <3>3. Installing(Into(j))' = {j}
      <4>1. Into(j)' = Into(j)
        BY <1>2, <2>2
      <4> QED
        BY <1>3, <3>1, <3>2, <4>1
    <3> QED
      BY <1>1, <3>1, <3>2, <3>3
  <2> QED
    BY <2>1, <2>2
<1>6. ASSUME NEW c \in Call PROVE Faithful(calls[c])'
  <2>1. CASE calls' = calls /\ content = files[dir]
    <3>1. files' = files
      BY <1>0, <2>1
    <3> QED
      BY <2>1, <3>1 DEF PackageInv, Faithful
  <2>2. CASE calls' = Disturb(dir)
    <3> SUFFICES ASSUME ~calls'[c].disturbed, calls'[c].manifest # None
                 PROVE  Faithful(calls[c])'
      BY DEF Faithful
    <3>1. /\ calls'[c].step = calls[c].step /\ calls'[c].dir = calls[c].dir
          /\ calls'[c].target = calls[c].target /\ calls'[c].manifest = calls[c].manifest
          /\ calls'[c].todo = calls[c].todo /\ calls'[c].pack = calls[c].pack
          /\ ~calls[c].disturbed
          /\ calls[c].step = "packing" => calls[c].dir # dir
      BY <2>2, Disturbs
    <3>2. calls[c].step = "packing" => files'[calls[c].dir] = files[calls[c].dir]
      BY <1>0, <1>1, <3>1
    <3> QED
      BY <3>1, <3>2 DEF PackageInv, Faithful
  <2> QED
    BY <2>1, <2>2
<1> QED
  BY <1>4, <1>5, <1>6 DEF PackageInv

\* install_verified_bundle: an installer that has a directory to itself leaves
\* it whole, whichever step it is at.
LEMMA InstallPackages ==
  ASSUME ToolTyped, ToolTyped', PackageInv, NEW i \in Installer, InstallStep(i)
  PROVE  PackageInv'
<1>0. /\ made \subseteq Dir /\ files \in [Dir -> [File -> Content]]
      /\ installs \in [Installer -> InstallType] /\ installs' \in [Installer -> InstallType]
      /\ installs[i] \in InstallType /\ installs'[i] \in InstallType
      /\ installs[i].step \in Changing \cup {"verified"} => installs[i].bundle \in Bundle /\ Into(i) \in Dir
  BY TypesOpen DEF ToolTyped, ToolsTypeOK, InstallType
<1>a. installs[i].step \in Changing => Named(Into(i)) /\ Alone(i)
  BY <1>0 DEF PackageInv
<1>1. CASE \E b \in Bundle, force \in BOOLEAN : Install(i, b, force)
  <2>1. PICK b \in Bundle : installs' = [installs EXCEPT ![i] = [installs[i] EXCEPT !.step = "verified", !.bundle = b]]
    BY <1>1, ZenonT(60) DEF Install
  <2>2. installs'[i].step = "verified" /\ installs' = [installs EXCEPT ![i] = installs'[i]]
    BY <1>0, <2>1 DEF InstallType
  <2>3. UNCHANGED <<made, files, calls, torn>> /\ installs[i].step = "idle"
    BY <1>1 DEF Install
  <2> QED
    BY <1>0, <2>2, <2>3, OutsideStep DEF Changing
<1>2. CASE Replace(i)
  <2> DEFINE dir == Into(i)
             x == [installs[i] EXCEPT
               !.step = IF dir \in made THEN "clearing" ELSE "making",
               !.todo = {f \in File : files[dir][f] # Absent},
               !.alone = Installing(dir) = {}]
  <2>1. /\ installs[i].step = "verified" /\ UNCHANGED <<made, files, calls, torn>>
        /\ installs' = [j \in Installer |->
             IF j = i THEN x
             ELSE IF j \in Installing(dir) THEN [installs[j] EXCEPT !.alone = FALSE]
             ELSE installs[j]]
    BY <1>2 DEF Replace
  <2>2. dir \in Dir
    BY <1>0, <2>1
  <2>3. /\ x.bundle = installs[i].bundle /\ x.step \in Changing
        /\ x.step = IF dir \in made THEN "clearing" ELSE "making"
        /\ x.todo = {f \in File : files[dir][f] # Absent}
        /\ x.alone <=> Installing(dir) = {}
    BY <1>0 DEF InstallType, Changing
  <2>4. \A j \in Installer : LET y == [installs[j] EXCEPT !.alone = FALSE] IN
          /\ y.step = installs[j].step /\ y.bundle = installs[j].bundle /\ ~y.alone
    BY <1>0 DEF InstallType
  <2>5. installs'[i] = x
        /\ \A j \in Installer \ {i} :
             /\ installs'[j].step = installs[j].step /\ installs'[j].bundle = installs[j].bundle
             /\ j \in Installing(dir) => ~installs'[j].alone
             /\ j \notin Installing(dir) => installs'[j] = installs[j]
    <3> HIDE DEF x, dir
    <3> QED
      BY <2>1, <2>4
  <2> HIDE DEF x
  <2>6. /\ \A d \in Dir \ {dir} : Installing(d)' = Installing(d)
        /\ \A j \in Installer : Into(j)' = Into(j)
    <3>1. \A j \in Installer : Into(j)' = Into(j)
      BY <2>3, <2>5 DEF Into
    <3> QED
      BY <2>1, <2>3, <2>5, <3>1 DEF Installing, Changing
  <2>7. Installing(Into(i))' = Installing(dir) \cup {i}
    BY <2>1, <2>3, <2>5, <2>6 DEF Installing
  <2>8. ASSUME NEW d \in Dir PROVE Settled(d)' /\ Named(d)'
    <3>1. Named(d)'
      BY <2>1 DEF PackageInv, Named
    <3>2. CASE d = dir
      BY <2>6, <2>7, <3>1, <3>2 DEF Settled
    <3>3. CASE d # dir
      BY <2>1, <2>6, <3>1, <3>3 DEF Settled, PackageInv
    <3> QED
      BY <3>2, <3>3
  <2>9. ASSUME NEW j \in Installer PROVE Alone(j)'
    <3>1. CASE j = i
      <4> SUFFICES ASSUME x.alone PROVE Installing(Into(i))' = {i} /\ Progress(x, files[dir])
        BY <2>1, <2>5, <2>6, <3>1 DEF Alone
      <4>1. Progress(x, files[dir])
        BY <2>2, <2>3 DEF Progress, Cleared, Empty, PackageInv, Named
      <4> QED
        BY <2>3, <2>7, <4>1
    <3>2. CASE j # i /\ j \in Installing(dir)
      BY <2>5, <3>2 DEF Alone
    <3>3. CASE j # i /\ j \notin Installing(dir)
      <4> SUFFICES ASSUME installs[j].step \in Changing, installs[j].alone
                   PROVE  Installing(Into(j))' = {j} /\ Progress(installs[j], files[Into(j)])
        BY <2>1, <2>5, <2>6, <3>3 DEF Alone
      <4>1. Installing(Into(j)) = {j} /\ Progress(installs[j], files[Into(j)])
        BY DEF PackageInv, Alone
      <4>2. Into(j) \in Dir \ {dir}
        BY <3>3, <4>1, TypesOpen
      <4>3. Installing(Into(j))' = {j}
        BY <2>6, <4>1, <4>2
      <4> QED
        BY <4>1, <4>3
    <3> QED
      BY <3>1, <3>2, <3>3
  <2>10. \A c \in Call : Faithful(calls[c])'
    BY <2>1 DEF PackageInv, Faithful
  <2> QED
    BY <2>8, <2>9, <2>10 DEF PackageInv
<1>3. CASE RemoveFile(i)
  <2>1. PICK f \in installs[i].todo :
          /\ installs' = [installs EXCEPT ![i] = [installs[i] EXCEPT !.todo = @ \ {f}]]
          /\ Change(i, [files[Into(i)] EXCEPT ![f] = Absent])
    BY <1>3 DEF RemoveFile
  <2>2. installs[i].step = "clearing" /\ made' = made /\ torn' = torn
    BY <1>3 DEF RemoveFile
  <2> DEFINE dir == Into(i)
             content == [files[dir] EXCEPT ![f] = Absent]
             x == [installs[i] EXCEPT !.todo = @ \ {f}]
  <2>3. /\ dir \in Dir /\ f \in File /\ content \in [File -> Content]
        /\ content[f] = Absent /\ \A g \in File \ {f} : content[g] = files[dir][g]
    BY <1>0, <2>2 DEF Content, InstallType, Changing
  <2>4. /\ x \in InstallType /\ x.step = "clearing" /\ x.bundle = installs[i].bundle
        /\ x.alone = installs[i].alone /\ x.todo = installs[i].todo \ {f}
    BY <1>0, <2>2 DEF InstallType
  <2>5. x.alone => Progress(x, content)
    BY <1>a, <2>2, <2>3, <2>4 DEF Alone, Progress, Cleared, Changing
  <2>6. (\E g \in File : content[g] # Absent) => dir \in made'
    BY <1>a, <2>2, <2>3 DEF Named, Changing
  <2>7. installs' = [installs EXCEPT ![i] = x] /\ files' = [files EXCEPT ![dir] = content]
        /\ calls' = Disturb(dir)
    BY <2>1 DEF Change
  <2> HIDE DEF x, content
  <2> QED
    BY <2>2, <2>3, <2>4, <2>5, <2>6, <2>7, InsideStep DEF Changing
<1>4. CASE RemoveDir(i)
  <2> DEFINE dir == Into(i)
             x == [installs[i] EXCEPT !.step = "making"]
  <2>1. /\ installs[i].step = "clearing" /\ Empty(files[dir]) /\ made' = made \ {dir} /\ torn' = torn
        /\ installs' = [installs EXCEPT ![i] = x] /\ files' = files /\ calls' = Disturb(dir)
    BY <1>4 DEF RemoveDir, Empty
  <2>2. dir \in Dir /\ files[dir] \in [File -> Content] /\ files' = [files EXCEPT ![dir] = files[dir]]
    BY <1>0, <2>1 DEF Changing
  <2>3. /\ x \in InstallType /\ x.step = "making" /\ x.bundle = installs[i].bundle
        /\ x.alone = installs[i].alone
    BY <1>0 DEF InstallType, Changing
  <2>4. x.alone => Progress(x, files[dir])
    BY <2>1, <2>3 DEF Progress
  <2> HIDE DEF x
  <2> QED
    BY <2>1, <2>2, <2>3, <2>4, InsideStep DEF Changing, Empty
<1>5. CASE MakeDir(i)
  <2> DEFINE dir == Into(i)
             x == [installs[i] EXCEPT !.step = "copying", !.todo = FilesOf[installs[i].bundle]]
  <2>1. /\ installs[i].step = "making" /\ made' = made \cup {dir} /\ torn' = torn
        /\ installs' = [installs EXCEPT ![i] = x] /\ files' = files /\ calls' = calls
    BY <1>5 DEF MakeDir
  <2>2. dir \in Dir /\ files[dir] \in [File -> Content] /\ files' = [files EXCEPT ![dir] = files[dir]]
        /\ FilesOf[installs[i].bundle] \in SUBSET File
    BY <1>0, <2>1, ToolsAssumption DEF Changing
  <2>3. x \in InstallType
    BY <1>0, <2>2 DEF InstallType, Changing
  <2>4. /\ x.step = "copying" /\ x.bundle = installs[i].bundle
        /\ x.alone = installs[i].alone /\ x.todo = FilesOf[installs[i].bundle]
    BY <1>0 DEF InstallType
  <2>5. x.alone => Progress(x, files[dir])
    BY <1>a, <2>1, <2>4 DEF Progress, Copied, Empty, Alone, Changing
  <2> HIDE DEF x
  <2> QED
    BY <2>1, <2>2, <2>3, <2>4, <2>5, InsideStep DEF Changing
<1>6. CASE OpenFile(i)
  <2>1. PICK f \in installs[i].todo :
          /\ installs' = [installs EXCEPT ![i] = [installs[i] EXCEPT !.step = "writing", !.cur = f]]
          /\ Change(i, [files[Into(i)] EXCEPT ![f] = Partial])
    BY <1>6 DEF OpenFile
  <2>2. installs[i].step = "copying" /\ made' = made \cup {Into(i)} /\ torn' = torn
    BY <1>6 DEF OpenFile
  <2> DEFINE dir == Into(i)
             content == [files[dir] EXCEPT ![f] = Partial]
             x == [installs[i] EXCEPT !.step = "writing", !.cur = f]
  <2>3. /\ dir \in Dir /\ f \in File /\ content \in [File -> Content]
        /\ content[f] # Absent /\ \A g \in File \ {f} : content[g] = files[dir][g]
    BY <1>0, <2>2, ToolsAssumption DEF Content, InstallType, Changing
  <2>4. x \in InstallType
    BY <1>0, <2>3 DEF InstallType, Changing
  <2>5. /\ x.step = "writing" /\ x.bundle = installs[i].bundle /\ x.cur = f
        /\ x.alone = installs[i].alone /\ x.todo = installs[i].todo
    BY <1>0, <2>2 DEF InstallType
  <2>6. x.alone => Progress(x, content)
    BY <1>a, <2>2, <2>3, <2>5 DEF Alone, Progress, Copied, Changing
  <2>7. installs' = [installs EXCEPT ![i] = x] /\ files' = [files EXCEPT ![dir] = content]
        /\ calls' = Disturb(dir)
    BY <2>1 DEF Change
  <2> HIDE DEF x, content
  <2> QED
    BY <2>2, <2>3, <2>4, <2>5, <2>6, <2>7, InsideStep DEF Changing
<1>7. CASE WriteFile(i)
  <2> DEFINE dir  == Into(i)
             cur  == installs[i].cur
             rest == installs[i].todo \ {cur}
             here == files[dir]
             x == IF rest = {} THEN [IdleInstall EXCEPT !.step = "installed"]
                  ELSE [installs[i] EXCEPT !.step = "copying", !.todo = rest, !.cur = None]
             content == IF here[cur] = Absent THEN here
                        ELSE [here EXCEPT ![cur] = installs[i].bundle]
  <2>1. /\ installs[i].step = "writing" /\ made' = made
        /\ installs' = [installs EXCEPT ![i] = x] /\ files' = [files EXCEPT ![dir] = content]
        /\ calls' = Disturb(dir)
        /\ torn' = IF rest # {} THEN torn
                   ELSE IF installs[i].alone THEN torn \ {dir} ELSE torn \cup {dir}
    BY <1>7 DEF WriteFile, Change
  <2>2. dir \in Dir /\ cur \in File /\ installs[i].bundle \in Bundle
    BY <1>0, <2>1 DEF ToolTyped, ToolShape, Changing
  <2>3. /\ content \in [File -> Content]
        /\ \A g \in File \ {cur} : content[g] = here[g]
        /\ content[cur] = IF here[cur] = Absent THEN Absent ELSE installs[i].bundle
    BY <1>0, <2>2 DEF Content
  <2>4. x \in InstallType
    BY <1>0, <2>2 DEF InstallType, Changing, IdleInstall
  <2>5. /\ rest = {} => x.step = "installed"
        /\ rest # {} => /\ x.step = "copying" /\ x.bundle = installs[i].bundle
                        /\ x.alone = installs[i].alone /\ x.todo = rest
    BY <1>0 DEF InstallType, IdleInstall
  <2>6. installs[i].alone => /\ Copied(installs[i], here) /\ cur \in installs[i].todo
                             /\ here[cur] # Absent
    BY <1>a, <2>1 DEF Alone, Progress, Changing
  <2>7. installs[i].alone =>
          /\ installs[i].todo \subseteq FilesOf[installs[i].bundle]
          /\ \A g \in File \ rest :
               content[g] = IF g \in FilesOf[installs[i].bundle] THEN installs[i].bundle ELSE Absent
    BY <2>2, <2>3, <2>6 DEF Copied
  <2>8. rest # {} /\ x.alone => Progress(x, content)
    BY <2>5, <2>7 DEF Progress, Copied
  <2>9. rest = {} /\ dir \notin torn' => Sound(content)
    BY <2>1, <2>2, <2>7 DEF Sound, Whole
  <2>10. (\E g \in File : content[g] # Absent) => dir \in made'
    BY <1>a, <2>1, <2>2, <2>3 DEF Named, Changing
  <2>11. \A d \in Dir \ {dir} : (d \in made' <=> d \in made) /\ (d \in torn' <=> d \in torn)
    BY <2>1
  <2>12. x.step \in Changing => /\ x.bundle = installs[i].bundle /\ x.alone = installs[i].alone
                                /\ x.alone => Progress(x, content)
    BY <2>5, <2>8 DEF Changing
  <2>13. x.step \notin Changing => rest = {}
    BY <2>5 DEF Changing
  <2> HIDE DEF x, content, rest
  <2>14. installs[i].step \in Changing
    BY <2>1 DEF Changing
  <2> QED
    BY <2>1, <2>2, <2>3, <2>4, <2>9, <2>10, <2>11, <2>12, <2>13, <2>14, InsideStep
<1>8. CASE InstallStops(i)
  <2> DEFINE x == [IdleInstall EXCEPT !.step = "stopped"]
  <2>1. /\ installs[i].step \in Changing \cup {"verified"} /\ UNCHANGED <<made, files, calls>>
        /\ installs' = [installs EXCEPT ![i] = x]
        /\ torn' = IF installs[i].step \in Changing THEN torn \cup {Into(i)} ELSE torn
    BY <1>8 DEF InstallStops
  <2>2. x \in InstallType /\ x.step = "stopped" /\ x.step \notin Changing
    BY DEF InstallType, IdleInstall, Changing
  <2> HIDE DEF x
  <2>3. CASE installs[i].step \notin Changing
    BY <2>1, <2>2, <2>3, OutsideStep
  <2>4. CASE installs[i].step \in Changing
    <3>1. Into(i) \in Dir /\ files[Into(i)] \in [File -> Content]
          /\ files' = [files EXCEPT ![Into(i)] = files[Into(i)]]
      BY <1>0, <2>1, <2>4
    <3>2. (\E f \in File : files[Into(i)][f] # Absent) => Into(i) \in made'
      BY <1>a, <2>1, <2>4 DEF Named
    <3> QED
      BY <2>1, <2>2, <2>4, <3>1, <3>2, InsideStep
  <2> QED
    BY <2>3, <2>4
<1> QED
  BY <1>1, <1>2, <1>3, <1>4, <1>5, <1>6, <1>7, <1>8, Zenon DEF InstallStep

\* A step of calls that leaves the directories and the installers alone.
LEMMA CallsPackages ==
  ASSUME PackageInv, UNCHANGED FileSystem, \A c \in Call : Faithful(calls'[c])
  PROVE  PackageInv'
<1>1. /\ \A d : Installing(d)' = Installing(d)
      /\ \A i \in Installer : Into(i)' = Into(i)
  BY DEF Installing, Into, FileSystem
<1>2. \A d \in Dir : Settled(d)' /\ Named(d)'
  BY <1>1 DEF PackageInv, Settled, Named, FileSystem
<1>3. ASSUME NEW i \in Installer PROVE Alone(i)'
  <2>1. files' = files /\ installs' = installs
    BY DEF FileSystem
  <2> QED
    BY <1>1, <2>1 DEF PackageInv, Alone
<1>4. \A c \in Call : Faithful(calls[c])'
  BY DEF Faithful, FileSystem
<1> QED
  BY <1>2, <1>3, <1>4 DEF PackageInv

\* A call that moves without reading the files.
LEMMA OneCallPackages ==
  ASSUME ToolTyped, PackageInv, UNCHANGED FileSystem, NEW c \in Call, NEW x,
         calls' = [calls EXCEPT ![c] = x], Faithful(x)
  PROVE  PackageInv'
<1>1. \A d \in Call : calls'[d] = IF d = c THEN x ELSE calls[d]
  BY TypesOpen
<1>2. \A d \in Call : Faithful(calls'[d])
  BY <1>1 DEF PackageInv
<1> QED
  BY <1>2, CallsPackages

\* A call that ends no longer reads a directory.
LEMMA EndPackages ==
  ASSUME ToolTyped, PackageInv, UNCHANGED FileSystem, NEW c \in Call, NEW how, End(c, how)
  PROVE  PackageInv'
<1>1. EndCall(calls[c], how).manifest = None
  BY DEF EndCall, IdleCall
<1> QED
  BY <1>1, OneCallPackages DEF End, Faithful

\* A call that has its archive no longer reads a directory.
LEMMA StepPackages ==
  ASSUME ToolTyped, PackageInv, UNCHANGED FileSystem, NEW c \in Call, NEW to \in {"socket", "booting", "exit"},
         Step(c, to)
  PROVE  PackageInv'
<1> DEFINE x == [calls[c] EXCEPT !.step = to]
<1>1. calls[c] \in CallType /\ Faithful(calls[c]) /\ calls' = [calls EXCEPT ![c] = x]
  BY TypesOpen DEF PackageInv, Step
<1>2. /\ x.manifest = calls[c].manifest /\ x.disturbed = calls[c].disturbed
      /\ x.target = calls[c].target /\ x.todo = calls[c].todo /\ x.pack = calls[c].pack
      /\ x.step # "packing"
  BY <1>1 DEF CallType
<1> HIDE DEF x
<1>3. Faithful(x)
  BY <1>1, <1>2 DEF Faithful
<1> QED
  BY <1>1, <1>3, OneCallPackages

\* installed_manifest and packaged_workspace: a call that nothing disturbed
\* archives the files of the manifest it has read.
LEMMA CallStepPackages == ASSUME ToolTyped, PackageInv, NEW c \in Call, CallStep(c) PROVE PackageInv'
<1>0. /\ calls[c] \in CallType /\ Faithful(calls[c]) /\ made \subseteq Dir
      /\ files \in [Dir -> [File -> Content]]
  BY TypesOpen DEF PackageInv
<1>1. CASE ReadManifest(c)
  <2>1. UNCHANGED FileSystem
    BY <1>1 DEF ReadManifest
  <2>2. CASE End(c, "failed")
    BY <2>1, <2>2, EndPackages
  <2>3. ASSUME NEW d \in made, files[d][Manifest] \in Bundle,
               SkillOf[files[d][Manifest]] = calls[c].target.skill,
               calls' = [calls EXCEPT ![c].step = "packing", ![c].dir = d, ![c].todo = File,
                                      ![c].manifest = files[d][Manifest],
                                      ![c].disturbed = d \in torn \/ Installing(d) # {}]
        PROVE PackageInv'
    <3> DEFINE x == [calls[c] EXCEPT !.step = "packing", !.dir = d, !.todo = File,
                                      !.manifest = files[d][Manifest],
                                      !.disturbed = d \in torn \/ Installing(d) # {}]
    <3>1. calls' = [calls EXCEPT ![c] = x]
      BY <2>3
    <3>2. /\ x.dir = d /\ x.todo = File /\ x.manifest = files[d][Manifest]
          /\ x.target = calls[c].target
          /\ x.disturbed <=> d \in torn \/ Installing(d) # {}
      BY <1>0 DEF CallType
    <3> HIDE DEF x
    <3>3. ASSUME ~x.disturbed PROVE Whole(files[d], files[d][Manifest])
      <4>1. Sound(files[d])
        BY <1>0, <3>2, <3>3 DEF PackageInv, Settled
      <4>2. Manifest \in File
        BY <2>3, ToolsAssumption
      <4>3. files[d][Manifest] # Absent
        BY <2>3, ToolsAssumption
      <4> QED
        BY <4>1, <4>2, <4>3 DEF Sound, Empty, Whole
    <3>4. Faithful(x)
      BY <2>3, <3>2, <3>3 DEF Faithful
    <3> QED
      BY <2>1, <3>1, <3>4, OneCallPackages
  <2> QED
    BY <1>1, <2>2, <2>3 DEF ReadManifest
<1>2. CASE PackFile(c)
  <2>1. UNCHANGED FileSystem /\ calls[c].step = "packing"
    BY <1>2 DEF PackFile
  <2>2. CASE End(c, "failed")
    BY <2>1, <2>2, EndPackages
  <2>3. ASSUME NEW f \in calls[c].todo,
               calls' = [calls EXCEPT ![c].pack[f] = files[calls[c].dir][f], ![c].todo = @ \ {f},
                           ![c].step = IF calls[c].todo = {f} THEN "spawning" ELSE @]
        PROVE PackageInv'
    <3> DEFINE x == [calls[c] EXCEPT !.pack[f] = files[calls[c].dir][f], !.todo = @ \ {f},
                                     !.step = IF calls[c].todo = {f} THEN "spawning" ELSE @]
    <3>1. calls' = [calls EXCEPT ![c] = x]
      BY <2>3
    <3>2. /\ x.dir = calls[c].dir /\ x.todo = calls[c].todo \ {f} /\ x.manifest = calls[c].manifest
          /\ x.target = calls[c].target /\ x.disturbed = calls[c].disturbed
          /\ x.pack = [calls[c].pack EXCEPT ![f] = files[calls[c].dir][f]]
      BY <1>0 DEF CallType
    <3>3. \A g \in File : x.pack[g] = IF g = f THEN files[calls[c].dir][f] ELSE calls[c].pack[g]
      BY <1>0, <3>2 DEF CallType
    <3>4. f \in File
      BY <1>0 DEF CallType
    <3> HIDE DEF x
    <3>5. Faithful(x)
      BY <1>0, <2>1, <3>2, <3>3, <3>4 DEF Faithful, Whole
    <3> QED
      BY <2>1, <3>1, <3>5, OneCallPackages
  <2> QED
    BY <1>2, <2>2, <2>3 DEF PackFile
<1>3. CASE Spawn(c)
  <2>1. UNCHANGED FileSystem /\ (Step(c, "socket") \/ End(c, "failed"))
    BY <1>3, Zenon DEF Spawn
  <2> QED
    BY <2>1, EndPackages, StepPackages
<1>4. CASE FindSocket(c)
  <2>1. UNCHANGED FileSystem /\ Step(c, "booting")
    BY <1>4, Zenon DEF FindSocket
  <2> QED
    BY <2>1, StepPackages
<1>5. CASE Boot(c)
  <2>1. UNCHANGED FileSystem /\ (Step(c, "exit") \/ End(c, "refused"))
    BY <1>5, Zenon DEF Boot
  <2> QED
    BY <2>1, EndPackages, StepPackages
<1>6. CASE GiveUpSocket(c) \/ Collect(c) \/ TimeOut(c) \/ Cancel(c)
  BY <1>6, EndPackages, Zenon DEF GiveUpSocket, Collect, TimeOut, Cancel
<1>7. CASE Listen(c) \/ Exit(c)
  <2>1. UNCHANGED FileSystem /\ calls' = calls
    BY <1>7, Zenon DEF Listen, Exit
  <2> QED
    BY <2>1, CallsPackages DEF PackageInv
<1> QED
  BY <1>1, <1>2, <1>3, <1>4, <1>5, <1>6, <1>7, Zenon DEF CallStep

\* A new call has read nothing yet.
LEMMA StartCallPackages ==
  ASSUME ToolTyped, PackageInv, NEW c \in Call, NEW target, NEW deadline, StartCall(c, target, deadline)
  PROVE  PackageInv'
<1> DEFINE x == [IdleCall EXCEPT
       !.target = target, !.deadline = deadline,
       !.step = IF ~Authorized(policy, target.subject, target.requested) THEN "denied"
                ELSE IF ~target.sandboxed THEN "done"
                ELSE IF target.skill = None THEN "spawning"
                ELSE "found"]
<1>1. calls' = [calls EXCEPT ![c] = x] /\ UNCHANGED FileSystem
  BY DEF StartCall
<1>2. x.manifest = None
  BY DEF IdleCall
<1> HIDE DEF x
<1> QED
  BY <1>1, <1>2, OneCallPackages DEF Faithful

\* The engine stops, starts, or the policy file changes: no directory does.
LEMMA ServicePackages ==
  ASSUME ToolTyped, PackageInv, EngineStops \/ EngineStarts \/ \E p \in Policies : EditPolicy(p)
  PROVE  PackageInv'
<1>1. CASE EngineStops
  <2>1. \A c \in Call : calls'[c] = IF calls[c].step \in Busy THEN EndCall(calls[c], "lost") ELSE calls[c]
    BY <1>1 DEF EngineStops
  <2>2. \A c \in Call : Faithful(calls'[c])
    <3>1. \A c \in Call : EndCall(calls[c], "lost").manifest = None
      BY DEF EndCall, IdleCall
    <3> QED
      BY <2>1, <3>1 DEF Faithful, PackageInv
  <2> QED
    BY <1>1, <2>2, CallsPackages DEF EngineStops
<1>2. CASE EngineStarts \/ \E p \in Policies : EditPolicy(p)
  <2>1. UNCHANGED FileSystem /\ calls' = calls
    BY <1>2, Zenon DEF EngineStarts, EditPolicy
  <2> QED
    BY <2>1, CallsPackages DEF PackageInv
<1> QED
  BY <1>1, <1>2

\* Every step of an installer, a call or the engine keeps the directories in order.
LEMMA ToolsStepPackages == ToolTyped /\ ToolTyped' /\ PackageInv /\ ToolsStep => PackageInv'
BY InstallPackages, CallStepPackages, ServicePackages, Zenon DEF ToolsStep
=================================================================================

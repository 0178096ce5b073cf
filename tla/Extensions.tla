----------------------------- MODULE Extensions -----------------------------
(***************************************************************************)
(* The extension manager, internal/extensions/extensions.go: a map of      *)
(* installed extensions beside the directory tree they are read from.      *)
(* Install writes the tree before it takes the lock for the map; Uninstall *)
(* changes the map before it removes from the tree.  Names share nothing,  *)
(* so one name is modelled, in both of the directories it may live in.     *)
(*                                                                         *)
(* A file is the set of the installs whose bytes it holds: os.WriteFile    *)
(* truncates it ({}) and then writes, so two installs that overlap may     *)
(* leave a mixture.                                                        *)
(***************************************************************************)
EXTENDS Naturals, FiniteSets

CONSTANTS Callers,   \* threads that use the manager
          MaxExtCalls   \* bound: installs and removals each of them makes

ASSUME ExtensionsAssumption == MaxExtCalls \in Nat

Types == {"tool", "channel"}
Extension == [type : Types, active : BOOLEAN]
Steps == {"idle", "mkdir", "open", "write", "config", "remove"}

VARIABLES ext,      \* the entry of the name in Manager.extensions, {} for none
          tree,     \* type -> what there is of the name's directory
          wasm,     \* type -> whose bytes the module file holds
          open,     \* type -> the installs that hold the present file open
          step,     \* caller -> what it does next
          target,   \* caller -> the type its call is about
          calls,    \* caller -> calls begun
          known,    \* history: the map was written since the process started
          clean,    \* history: since the last install that ran alone no call has
                    \* failed and none was overlapped or cut off
          vetted    \* history: what the module held when it was activated

extMap == <<ext, known, vetted>>
disk == <<tree, wasm, open>>
callVars == <<step, target, calls>>
extVars == <<extMap, disk, callVars, clean>>

ExtTypeOK ==
  /\ ext \in SUBSET Extension /\ Cardinality(ext) <= 1
  /\ tree \in [Types -> {"none", "dir", "file"}]
  /\ wasm \in [Types -> SUBSET Callers]
  /\ open \in [Types -> SUBSET Callers]
  /\ step \in [Callers -> Steps]
  /\ target \in [Callers -> Types]
  /\ calls \in [Callers -> 0..MaxExtCalls]
  /\ {known, clean} \subseteq BOOLEAN
  /\ vetted \in SUBSET Callers

ExtInit ==
  /\ ext = {} /\ known = FALSE
  /\ tree = [t \in Types |-> "none"]
  /\ wasm = [t \in Types |-> {}]
  /\ open = [t \in Types |-> {}]
  /\ step = [c \in Callers |-> "idle"]
  /\ target = [c \in Callers |-> "tool"]
  /\ calls = [c \in Callers |-> 0]
  /\ clean = TRUE /\ vetted = {}

Quiet == \A c \in Callers : step[c] = "idle"

Begin(c, next, t) ==
  /\ step[c] = "idle" /\ calls[c] < MaxExtCalls
  /\ step' = [step EXCEPT ![c] = next]
  /\ target' = [target EXCEPT ![c] = t]
  /\ calls' = [calls EXCEPT ![c] = @ + 1]

Goes(c, next) == step' = [step EXCEPT ![c] = next] /\ UNCHANGED <<target, calls>>

\* An early return with an error.
Fails(c, here) ==
  /\ step[c] = here
  /\ Goes(c, "idle")
  /\ clean' = FALSE
  /\ UNCHANGED <<extMap, disk>>

-----------------------------------------------------------------------------
(* Install.  Another type than the one installed before leaves the old     *)
(* directory behind.                                                       *)

\* An install that runs alone makes good whatever happened before, unless it
\* leaves a module under the other type.
InstallBegin(c, t) ==
  /\ Begin(c, "mkdir", t)
  /\ clean' = (Quiet /\ \A u \in Types \ {t} : tree[u] # "file")
  /\ UNCHANGED <<extMap, disk>>

MkdirAll(c) ==
  /\ step[c] = "mkdir"
  /\ tree' = [tree EXCEPT ![target[c]] = IF @ = "none" THEN "dir" ELSE @]
  /\ Goes(c, "open")
  /\ UNCHANGED <<extMap, wasm, open, clean>>

\* os.WriteFile opens and truncates; without the directory it fails.
WriteOpen(c) ==
  LET t == target[c]
  IN /\ step[c] = "open" /\ tree[t] # "none"
     /\ tree' = [tree EXCEPT ![t] = "file"]
     /\ wasm' = [wasm EXCEPT ![t] = {}]
     /\ open' = [open EXCEPT ![t] = @ \cup {c}]
     /\ Goes(c, "write")
     /\ UNCHANGED <<extMap, clean>>

\* The bytes land in the file that was opened, which may be unlinked by now, and
\* cover what another install has written or leave its longer tail.  The
\* configuration, if there is one, goes to a file that nothing reads.
WriteBytes(c) ==
  LET t == target[c]
  IN /\ step[c] = "write"
     /\ IF c \in open[t]
        THEN \E bytes \in {{c}, wasm[t] \cup {c}} : wasm' = [wasm EXCEPT ![t] = bytes]
        ELSE UNCHANGED wasm
     /\ open' = [open EXCEPT ![t] = @ \ {c}]
     /\ Goes(c, "config")
     /\ UNCHANGED <<extMap, tree, clean>>

\* Fault: a new version stays activated.
InstallRegisterKeep(c) ==
  /\ step[c] = "config"
  /\ known' = TRUE
  /\ ext' = {[type |-> target[c], active |-> \E e \in ext : e.active]}
  /\ Goes(c, "idle")
  /\ UNCHANGED <<vetted, disk, clean>>

InstallRegister(c) ==
  /\ step[c] = "config"
  /\ known' = TRUE
  /\ ext' = {[type |-> target[c], active |-> FALSE]}
  /\ Goes(c, "idle")
  /\ UNCHANGED <<vetted, disk, clean>>

\* Each step before the last may fail.
InstallFails(c) ==
  \/ Fails(c, "mkdir") \/ Fails(c, "open") \/ Fails(c, "config")
  \/ /\ step[c] = "write"
     /\ open' = [t \in Types |-> open[t] \ {c}]
     /\ Goes(c, "idle")
     /\ clean' = FALSE
     /\ UNCHANGED <<extMap, tree, wasm>>

-----------------------------------------------------------------------------
(* The other methods.                                                      *)

UninstallBegin(c) ==
  \E e \in ext :
    /\ Begin(c, "remove", e.type)
    /\ clean' = (clean /\ Quiet)
    /\ ext' = {}
    /\ UNCHANGED <<known, vetted, disk>>

\* os.RemoveAll.
RemoveAll(c) ==
  LET t == target[c]
  IN /\ step[c] = "remove"
     /\ tree' = [tree EXCEPT ![t] = "none"]
     /\ wasm' = [wasm EXCEPT ![t] = {}]
     /\ open' = [open EXCEPT ![t] = {}]
     /\ Goes(c, "idle")
     /\ UNCHANGED <<extMap, clean>>

UninstallFails(c) == Fails(c, "remove")

SetActive(active) ==
  /\ ext # {}
  /\ ext' = {[e EXCEPT !.active = active] : e \in ext}
  /\ vetted' = IF active THEN CHOOSE w \in {wasm[e.type] : e \in ext} : TRUE ELSE vetted
  /\ UNCHANGED <<known, disk, callVars, clean>>

\* The types in which Discover finds the name.
Found == {t \in Types : tree[t] = "file"}

\* Tools are scanned before channels, and the later one stays.  It holds the
\* lock, but reads the tree other calls are writing.
Discover ==
  /\ ext' = CASE "channel" \in Found -> {[type |-> "channel", active |-> FALSE]}
              [] "channel" \notin Found /\ "tool" \in Found -> {[type |-> "tool", active |-> FALSE]}
              [] OTHER -> ext
  /\ known' = TRUE
  /\ clean' = (clean /\ Quiet)
  /\ UNCHANGED <<vetted, disk, callVars>>

\* The process ends anywhere and starts again with an empty map.
Restart ==
  /\ ext' = {} /\ known' = FALSE
  /\ open' = [t \in Types |-> {}]
  /\ step' = [c \in Callers |-> "idle"]
  /\ clean' = (clean /\ Quiet)
  /\ UNCHANGED <<vetted, tree, wasm, target, calls>>

ExtNext ==
  \/ \E c \in Callers :
       \/ \E t \in Types : InstallBegin(c, t)
       \/ MkdirAll(c) \/ WriteOpen(c) \/ WriteBytes(c) \/ InstallRegister(c) \/ InstallFails(c)
       \/ UninstallBegin(c) \/ RemoveAll(c) \/ UninstallFails(c)
  \/ (\E active \in BOOLEAN : SetActive(active)) \/ Discover \/ Restart

ExtSpec == ExtInit /\ [][ExtNext]_extVars

-----------------------------------------------------------------------------
(* Properties.                                                             *)

\* Between calls the map and the tree agree, whatever failed, was overlapped or
\* was cut off by a crash before the last install that ran alone: an entry has
\* exactly its own module, whole, and there is no module without an entry.
MapMatchesDisk ==
  clean /\ Quiet =>
    /\ \A e \in ext : Found = {e.type} /\ \E c \in Callers : wasm[e.type] = {c}
    /\ known /\ ext = {} => Found = {}

\* Between calls an active extension is the one that was activated: neither a
\* new version, nor a removal, nor a restart carries the activation over.
ActiveIsVetted ==
  clean /\ Quiet => \A e \in ext : e.active => wasm[e.type] = vetted

\* As long as nothing has failed or overlapped, one caller is inside a call and
\* has done to the tree what its steps so far do; a module that no entry names,
\* as after a restart, is the only one and whole.
CallsApart ==
  /\ \A e, f \in ext : e = f
  /\ ext # {} => known
  /\ \A t \in Types : \A c \in open[t] : step[c] = "write" /\ target[c] = t
  /\ clean => \A c, d \in Callers : step[c] # "idle" /\ step[d] # "idle" => c = d
  /\ clean => \A c \in Callers : step[c] # "idle" =>
       LET t == target[c] IN
       /\ Found \subseteq {t}
       /\ step[c] \in {"open", "write", "config"} => tree[t] # "none"
       /\ step[c] = "write" => t \in Found /\ c \in open[t] /\ wasm[t] = {}
       /\ step[c] = "config" => t \in Found /\ wasm[t] = {c}
       /\ step[c] = "remove" => ext = {} /\ known
  /\ clean /\ Quiet => \A t \in Found : Found = {t} /\ \E c \in Callers : wasm[t] = {c}

\* The safety of the extension manager: the map, the disk and what was activated
\* agree between calls (extensions.go).
ExtInv ==
  /\ ExtTypeOK
  /\ CallsApart
  /\ MapMatchesDisk
  /\ ActiveIsVetted
=============================================================================

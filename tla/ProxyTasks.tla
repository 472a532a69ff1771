----------------------------- MODULE ProxyTasks -----------------------------
(***************************************************************************)
(* The tasks that deploy the bridge, its handlers and the signature hub    *)
(* behind proxies (tasks/DeployProxyAll.ts, DeploySigProxy.ts) and record  *)
(* where in one file per network (script/deployTool.ts).  A task reads the *)
(* file when it starts, works on its copy, and writes the whole copy when  *)
(* it ends.  Several operators may run tasks at the same time; a task may  *)
(* fail at any await and then writes nothing.                              *)
(*                                                                         *)
(* A proxy is named by its place in the order of deployments, 0 being the  *)
(* empty address.  Implementations and the records of single deployments   *)
(* are left out.                                                           *)
(***************************************************************************)
EXTENDS Integers, Sequences, SequencesExt

CONSTANTS
    Operators,
    Handlers,         \* the handlers, in the order in which "all" deploys them
    Domains,          \* domain ids, "0" and "1" among them
    MaxProxies,       \* bound on deployments
    MaxTasks          \* bound on tasks started

ProxyTasksAssumption ==
    /\ "0" \in Domains /\ "1" \in Domains
    /\ Handlers \in Seq(STRING) /\ ToSet(Handlers) \intersect {"bridge", "signature"} = {}
    /\ MaxProxies \in Nat /\ MaxTasks \in Nat

HandlerNames == ToSet(Handlers)
Parts == {"bridge", "signature"} \union HandlerNames

Omitted == "omitted"   \* no --domain on the command line
Empty == ""
NoId == "no id"        \* the number 0 of a new file, which is not the string "0"

VARIABLES
    proxies,     \* [part, bridge, domain, omitted], in the order of deployment
    file,        \* config-proxy.json: the proxy of each part, and the domain id
    task,        \* of each operator: what is left to deploy, its copy of the file, and
                 \* (history) the file as it was read
    started

vars == <<proxies, file, task, started>>

NoFile == [id |-> NoId, at |-> [p \in Parts |-> 0]]
Idle == [running |-> FALSE, left |-> <<>>, domain |-> Empty, config |-> NoFile, read |-> NoFile]

Init ==
    /\ proxies = <<>>
    /\ file = NoFile
    /\ task = [o \in Operators |-> Idle]
    /\ started = 0
-----------------------------------------------------------------------------
loadWrongFile == NoFile   \* as loadConfig, of a file that no task here writes

loadConfig == file

Start(o, parts, domain) ==
    /\ ~task[o].running /\ started < MaxTasks
    /\ task' = [task EXCEPT ![o] = [running |-> TRUE, left |-> parts, domain |-> domain,
                                    config |-> loadConfig, read |-> file]]
    /\ started' = started + 1
    /\ UNCHANGED <<proxies, file>>

DeployProxyAll(o, contract, domain) ==
    Start(o, IF contract = "all" THEN <<"bridge">> \o Handlers ELSE <<contract>>, domain)

DeploySigProxy(o) == Start(o, <<"signature">>, Empty)

(* An option that is left out has the value "0", which is not empty. *)
Given(domain) == IF domain = Omitted THEN "0" ELSE domain

(* domain ? domain : config.id *)
DomainOf(o) == IF Given(task[o].domain) = Empty THEN task[o].config.id ELSE Given(task[o].domain)

(* Deploys the next part, recorded in the copy.  A bridge without a domain and *)
(* a handler without a bridge are passed over.                                 *)
Deploy(o) ==
    LET part == Head(task[o].left)
        config == task[o].config
        able == CASE part = "bridge" -> DomainOf(o) # NoId
                  [] part = "signature" -> TRUE
                  [] OTHER -> config.at["bridge"] # 0
        id == IF part = "bridge" /\ able THEN DomainOf(o) ELSE config.id
        proxy == [part |-> part,
                  bridge |-> IF part \in HandlerNames THEN config.at["bridge"] ELSE 0,
                  domain |-> IF part = "bridge" THEN id ELSE NoId,
                  omitted |-> task[o].domain = Omitted]
    IN  /\ task[o].left # <<>>
        /\ able => Len(proxies) < MaxProxies
        /\ proxies' = IF able THEN Append(proxies, proxy) ELSE proxies
        /\ task' = [task EXCEPT ![o].left = Tail(@),
                                ![o].config = IF able
                                              THEN [id |-> id, at |-> [@.at EXCEPT ![part] = Len(proxies')]]
                                              ELSE @]
        /\ UNCHANGED <<file, started>>

(* As Saved: only what the task deployed goes into the file that is there now. *)
Merged(o) ==
    LET mine == task[o].config
    IN  [id |-> mine.id,
         at |-> [p \in Parts |-> IF mine.at[p] = task[o].read.at[p] THEN file.at[p] ELSE mine.at[p]]]

Saved(o) == task[o].config

saveConfig(o) ==
    /\ task[o].running /\ task[o].left = <<>>
    /\ file' = Saved(o)
    /\ task' = [task EXCEPT ![o] = Idle]
    /\ UNCHANGED <<proxies, started>>

Fail(o) ==
    /\ task[o].running
    /\ task' = [task EXCEPT ![o] = Idle]
    /\ UNCHANGED <<proxies, file, started>>

Next ==
    \E o \in Operators :
        \/ \E contract \in {"all", "bridge"} \union HandlerNames,
              domain \in Domains \union {Omitted, Empty} : DeployProxyAll(o, contract, domain)
        \/ DeploySigProxy(o)
        \/ Deploy(o)
        \/ saveConfig(o)
        \/ Fail(o)

Spec == Init /\ [][Next]_vars
-----------------------------------------------------------------------------
File == [id : Domains \union {NoId}, at : [Parts -> Nat]]

ProxyTasksTypeOK ==
    /\ proxies \in Seq([part : Parts, bridge : Nat, domain : Domains \union {NoId}, omitted : BOOLEAN])
    /\ file \in File
    /\ task \in [Operators -> [running : BOOLEAN, left : Seq(Parts),
                               domain : Domains \union {Omitted, Empty}, config : File, read : File]]
    /\ started \in Nat

HandlersFitIn(config) ==
    \A h \in HandlerNames :
        /\ config.at[h] # 0 => config.at["bridge"] # 0
        /\ config.at[h] > config.at["bridge"] => proxies[config.at[h]].bridge = config.at["bridge"]

IdOfBridgeIn(config) == config.at["bridge"] # 0 => proxies[config.at["bridge"]].domain = config.id

(* Whatever tasks run at the same time or fail half-way, a handler that the   *)
(* file names beside a bridge, and that is newer than it, serves that bridge, *)
(* and no handler is named without a bridge.  (An older one is of the bridge  *)
(* before: its deployment has to be repeated.)                                *)
HandlersFit == HandlersFitIn(file)

(* The bridge that the file names is of the domain that it names: the id is   *)
(* what later tasks take for the domain of tokens.                            *)
IdOfBridge == IdOfBridgeIn(file)

(* With what makes both inductive: they hold of what the tasks work on, no    *)
(* file names what is not deployed, and a copy is not behind what was read.   *)
Fits(config) ==
    /\ \A p \in Parts : config.at[p] <= Len(proxies)
    /\ HandlersFitIn(config) /\ IdOfBridgeIn(config)

ProxyTasksIInv ==
    /\ ProxyTasksTypeOK
    /\ Fits(file)
    /\ \A o \in Operators :
          Fits(task[o].config) /\ \A p \in Parts : task[o].config.at[p] >= task[o].read.at[p]

(* A task never takes a part back to an older proxy than it has read: what is *)
(* lost by its writing the whole file was written after it began.             *)
MovesOn ==
    \A o \in Operators : task[o].running /\ ~task'[o].running /\ file' # file =>
        \A p \in Parts : file'.at[p] >= task[o].read.at[p]

(* README.md of a task without --domain: the domain id is 1 by default.       *)
DefaultDomain ==
    \A i \in DOMAIN proxies :
        proxies[i].part = "bridge" /\ proxies[i].omitted => proxies[i].domain = "1"
=============================================================================

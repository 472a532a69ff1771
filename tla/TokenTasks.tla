----------------------------- MODULE TokenTasks -----------------------------
(***************************************************************************)
(* The tasks that deploy tokens and register them with the bridge of one   *)
(* network and its ERC20 handler (tasks/DeployToken.ts, DeployNative.ts,   *)
(* RegNative.ts, RegResourceId.ts).  A task reads the network's file when  *)
(* it starts, sends transactions one by one, deciding by what it reads of  *)
(* the contracts in between, and some write their copy of the file at the  *)
(* end.  Operators run tasks at the same time; a task may fail at any      *)
(* await, and fails when a transaction is refused.                         *)
(*                                                                         *)
(* The bridge and the handler are deployed and the operators have the      *)
(* admin's key.  The handler's white list is where resourceOf is set.      *)
(***************************************************************************)
EXTENDS Integers, Sequences

CONSTANTS
    Operators,
    Domains, Id,      \* domains of tokens; this network's
    MaxTokens,        \* bound on deployments
    MaxTasks          \* bound on tasks started

TokenTasksAssumption ==
    Id \in Domains /\ MaxTokens \in Nat /\ MaxTasks \in Nat

Native == 0           \* the address 0x...1 that stands for the network's coin
NoToken == -1
Addresses == Native..MaxTokens
Resources == [address : Addresses, from : Domains]

VARIABLES
    deployed,               \* number of tokens deployed
    file,                   \* the tokens in config.json: [address, resource]
    task,                   \* of each operator: the steps left, and its copy of the file
    tokenOf, resourceOf,    \* of the handler; a resource set there is set at the bridge
    isNative,
    started

handler == <<tokenOf, resourceOf, isNative>>
vars == <<deployed, file, task, handler, started>>

Idle == [left |-> <<>>, from |-> Id, token |-> NoToken, config |-> <<>>]

Init ==
    /\ deployed = 0
    /\ file = <<>>
    /\ task = [o \in Operators |-> Idle]
    /\ tokenOf = [r \in Resources |-> NoToken]
    /\ resourceOf = [t \in Addresses |-> {}]
    /\ isNative = {}
    /\ started = 0
-----------------------------------------------------------------------------
cutResourceID(address, from) == [address |-> Native, from |-> from]   \* as createResourceID

createResourceID(address, from) == [address |-> address, from |-> from]

Step(does) == [does |-> does]

(* To look whether a resource, or a token, is registered already. *)
LookResource(r, t) == [does |-> "look", by |-> "resource", resource |-> r, token |-> t, native |-> TRUE]
LookToken(r, t) == [does |-> "look", by |-> "token", resource |-> r, token |-> t, native |-> FALSE]

saveFirst(from) ==   \* as DeployNative, the file written before the registration
    <<Step("push"), Step("save"), LookResource(createResourceID(Native, from), Native)>>

(* A native coin of another domain gets a token here, and what is registered *)
(* for its resource is the coin of this network.                             *)
DeployNative(from) ==
    LET register == LookResource(createResourceID(Native, from), Native)
    IN  IF from = Id THEN <<register, Step("push"), Step("save")>>
        ELSE <<Step("deploy"), Step("push"), register, Step("burnable"), Step("save")>>

DeployToken == <<Step("deploy"), Step("push own"), Step("save")>>

(* What it does for a coin that is registered and not native is not reached. *)
RegNative == <<LookResource(createResourceID(Native, Id), Native)>>

RegResourceId == [i \in DOMAIN file |-> LookToken(file[i].resource, file[i].address)]

Start(o, from, steps) ==
    /\ task[o].left = <<>> /\ started < MaxTasks
    /\ task' = [task EXCEPT ![o] = [left |-> steps, from |-> from, token |-> Native, config |-> file]]
    /\ started' = started + 1
    /\ UNCHANGED <<deployed, file, handler>>
-----------------------------------------------------------------------------
Does(o, what) == task[o].left # <<>> /\ Head(task[o].left).does = what

deployContract(o) ==
    /\ Does(o, "deploy")
    /\ deployed < MaxTokens
    /\ deployed' = deployed + 1
    /\ task' = [task EXCEPT ![o].left = Tail(@), ![o].token = deployed']
    /\ UNCHANGED <<file, handler, started>>

Push(o) ==
    LET token == task[o].token
        of == IF Does(o, "push own") THEN token ELSE Native
        entry == [address |-> token, resource |-> createResourceID(of, task[o].from)]
    IN  /\ Does(o, "push") \/ Does(o, "push own")
        /\ task' = [task EXCEPT ![o].left = Tail(@), ![o].config = Append(@, entry)]
        /\ UNCHANGED <<deployed, file, handler, started>>

Look(o) ==
    LET step == Head(task[o].left)
        free == IF step.by = "resource" THEN tokenOf[step.resource] = NoToken
                ELSE resourceOf[step.token] = {}
    IN  /\ Does(o, "look")
        /\ task' = [task EXCEPT ![o].left =
                       IF free THEN <<[step EXCEPT !.does = "set"]>> \o Tail(@) ELSE Tail(@)]
        /\ UNCHANGED <<deployed, file, handler, started>>

adminSetResource(o) ==
    LET step == Head(task[o].left)
    IN  /\ Does(o, "set")
        /\ tokenOf' = [tokenOf EXCEPT ![step.resource] = step.token]
        /\ resourceOf' = [resourceOf EXCEPT ![step.token] = {step.resource}]
        /\ isNative' = IF step.native THEN isNative \union {step.token} ELSE isNative
        /\ task' = [task EXCEPT ![o].left = Tail(@)]
        /\ UNCHANGED <<deployed, file, started>>

(* Refused if the token is not on the white list. *)
adminSetBurnable(o) ==
    /\ Does(o, "burnable")
    /\ task' = [task EXCEPT ![o] = IF resourceOf[@.token] = {} THEN Idle ELSE [@ EXCEPT !.left = Tail(@)]]
    /\ UNCHANGED <<deployed, file, handler, started>>

saveConfig(o) ==
    /\ Does(o, "save")
    /\ file' = task[o].config
    /\ task' = [task EXCEPT ![o].left = Tail(@)]
    /\ UNCHANGED <<deployed, handler, started>>

Fail(o) ==
    /\ task[o].left # <<>>
    /\ task' = [task EXCEPT ![o] = Idle]
    /\ UNCHANGED <<deployed, file, handler, started>>

Next ==
    \E o \in Operators :
        \/ \E from \in Domains : Start(o, from, DeployNative(from)) \/ Start(o, from, DeployToken)
        \/ Start(o, Id, RegNative)
        \/ Start(o, Id, RegResourceId)
        \/ deployContract(o)
        \/ Push(o)
        \/ Look(o)
        \/ adminSetResource(o)
        \/ adminSetBurnable(o)
        \/ saveConfig(o)
        \/ Fail(o)

Spec == Init /\ [][Next]_vars
-----------------------------------------------------------------------------
Entries == [address : Addresses, resource : Resources]
Looks == [does : {"look", "set"}, by : {"resource", "token"}, resource : Resources,
          token : Addresses, native : BOOLEAN]
Steps == Looks \union {Step(does) : does \in {"deploy", "push", "push own", "burnable", "save"}}

TokenTasksTypeOK ==
    /\ deployed \in 0..MaxTokens
    /\ file \in Seq(Entries)
    /\ task \in [Operators -> [left : Seq(Steps), from : Domains, token : Addresses \union {NoToken},
                               config : Seq(Entries)]]
    /\ tokenOf \in [Resources -> Addresses \union {NoToken}]
    /\ resourceOf \in [Addresses -> SUBSET Resources]
    /\ isNative \subseteq Addresses
    /\ started \in Nat

(* What is registered for a resource stays: two operators who both find it    *)
(* free, or who repeat a task that failed, register the same token, and no    *)
(* token but the coin gets another resource.                                  *)
Registered ==
    /\ \A r \in Resources : tokenOf[r] # NoToken => tokenOf'[r] = tokenOf[r]
    /\ \A t \in Addresses \ {Native} : resourceOf[t] # {} => resourceOf'[t] = resourceOf[t]

(* Whoever registers the network's coin, be it the task for tokens that finds *)
(* it in the file, it is known to be native by then: a handler that took it   *)
(* for a token would call the address 0x...1.                                 *)
NativeKnown == resourceOf[Native] # {} => Native \in isNative

(* What makes both inductive.  The file's entries are of tokens deployed for   *)
(* themselves, each for one domain (own), or of the coin once it is known.     *)
Entry(token, from) == [address |-> token, resource |-> createResourceID(token, from)]

Known(own) == own \union IF Native \in isNative THEN {Entry(Native, from) : from \in Domains} ELSE {}

EntriesKnown(entries, own) == \A i \in DOMAIN entries : entries[i] \in Known(own)

(* The handler knows no others, and the coin's resources are the coin's.       *)
HandlerFits(own) ==
    /\ \A r \in Resources : tokenOf[r] # NoToken =>
          tokenOf[r] = r.address /\ (r.address = Native => Native \in isNative)
    /\ \A t \in Addresses \ {Native} : \A r \in resourceOf[t] : [address |-> t, resource |-> r] \in own
    /\ NativeKnown

(* A step that asks for, or sets, the coin, or an entry that is known.         *)
OfCoin(s) ==
    s \in Looks /\ s.by = "resource" /\ s.native /\ s.token = Native /\ s.resource.address = Native

OfEntry(s, own) == s \in Looks /\ ~s.native /\ [address |-> s.token, resource |-> s.resource] \in Known(own)

(* Where a task can be.  The token that deploy-native deploys for the coin of  *)
(* another domain gets no entry: its task ends at setBurnable, which the       *)
(* handler refuses.                                                            *)
Registering(t, own) == \A i \in DOMAIN t.left : OfCoin(t.left[i]) \/ OfEntry(t.left[i], own)

Recording(t, own) ==
    /\ EntriesKnown(t.config, own)
    /\ \/ t.left = <<Step("save")>>
       \/ /\ t.left = <<Step("push"), Step("save")>>
          /\ t.token = Native /\ Native \in isNative
       \/ /\ \E s \in Looks : OfCoin(s) /\ t.left = <<s, Step("push"), Step("save")>>
          /\ t.token = Native
       \/ t.left = DeployToken
       \/ t.left = Tail(DeployToken) /\ Entry(t.token, t.from) \in own

Ending(t, own) ==
    /\ \E s \in Looks : OfCoin(s) /\
          t.left \in {<<Step("push"), s, Step("burnable"), Step("save")>>,
                      <<s, Step("burnable"), Step("save")>>, <<Step("burnable"), Step("save")>>}
    /\ t.token \in 1..deployed
    /\ \A e \in own : e.address # t.token

Beginning(t) ==
    \E s \in Looks : OfCoin(s) /\
        t.left = <<Step("deploy"), Step("push"), s, Step("burnable"), Step("save")>>

TokenTasksIInv ==
    /\ TokenTasksTypeOK
    /\ \E own \in SUBSET {Entry(token, from) : token \in 1..deployed, from \in Domains} :
          /\ \A e, g \in own : e.address = g.address => e = g
          /\ EntriesKnown(file, own) /\ HandlerFits(own)
          /\ \A o \in Operators :
                \/ Registering(task[o], own) \/ Recording(task[o], own)
                \/ Ending(task[o], own) \/ Beginning(task[o])

(* deploy-native deploys a token for the coin of another domain and registers *)
(* it, as its description says: what the coin of another domain is here is    *)
(* not this network's own coin.                                               *)
ForeignIsToken ==
    \A r \in Resources : r.address = Native /\ r.from # Id => tokenOf[r] # Native
=============================================================================

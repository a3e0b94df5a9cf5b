----------------------------- MODULE MacDeployment -----------------------------
(* The operator's Mac (scripts/mac.py and deployment.py): one VM, the services *)
(* of the friends who share it, and two login agents, one that keeps the VM    *)
(* and one that keeps the tunnel. A command is a sequence of steps; a step may *)
(* fail, halfway too, and what it has done then stays. The owner's services    *)
(* are always part of the stack and no command removes them: they are left out.*)
EXTENDS Naturals, FiniteSets, Sequences

CONSTANTS
    Operators,  \* terminals in which a command may run
    MemberIds,  \* identities: they name routes, services and private volumes
    Emails,     \* login addresses of friends
    Ports,      \* origin ports of friends
    Services,   \* the services of one member
    MaxActive,  \* friends at a time
    MaxTokens   \* bound: tunnel tokens entered

VARIABLES
    members,    \* deployment.json: every member there was, retired ones included
    broken,     \* deployment.json was truncated and not written
    containers, \* each service of each member: "none", "stopped" or "running"
    vm,         \* the VM runs
    agents,     \* each login agent: [plist, loaded]
    token,      \* the tunnel token on disk: 0 is none
    using,      \* the token the tunnel was started with
    command,    \* each operator's: [name, who, email, settings, steps]
    routes,     \* the tunnel routes the operator was told to make: <<port, id>>
    data,       \* whose data each identity's private volumes hold
    cut         \* members whose removal has stopped them, until the next start

deployVars == <<members, broken, containers, vm, agents, token, using, command, routes, data, cut>>

-------------------------------------------------------------------------------

Member == [id : MemberIds, email : Emails, port : Ports, enabled : BOOLEAN]
Members == {members[i] : i \in DOMAIN members}
Active(settings) == {m \in settings : m.enabled}

FreePorts(settings) == Ports \ {m.port : m \in settings}

\* validate_members: identities, addresses and ports are unique, retired ones
\* included, and few are active.
Valid(settings) ==
    /\ \A m, n \in settings : m # n => m.id # n.id /\ m.email # n.email /\ m.port # n.port
    /\ Cardinality(Active(settings)) <= MaxActive

Idle == [name |-> "none"]

\* Mutant: the membership is retired before its services are removed.
RemoveRetiringFirst == <<"select", "retire", "stop", "rm">>

Remove == <<"select", "stop", "rm", "retire">>
Add == <<"admit">>
Start == <<"token there", "vm up", "build", "up", "tunnel off", "tunnel on">>
InstallLogin == <<"colima off", "vm down", "colima on", "tunnel off", "tunnel on">>
Stop == <<"tunnel off", "colima off", "vm down">>
SetToken == <<"new token", "tunnel off", "tunnel on">>
Steps == [add |-> Add, remove |-> Remove, start |-> Start, install |-> InstallLogin,
          stop |-> Stop, token |-> SetToken]

-------------------------------------------------------------------------------

DeployTypeOK ==
    /\ Members \subseteq Member /\ broken \in BOOLEAN /\ vm \in BOOLEAN
    /\ containers \in [MemberIds -> [Services -> {"none", "stopped", "running"}]]
    /\ agents \in [{"colima", "tunnel"} -> [plist : BOOLEAN, loaded : BOOLEAN]]
    /\ token \in 0..MaxTokens /\ using \in 0..MaxTokens
    /\ \A o \in Operators : command[o] = Idle \/ command[o].name \in DOMAIN Steps
    /\ routes \subseteq Ports \X MemberIds
    /\ data \in [MemberIds -> SUBSET Emails] /\ cut \subseteq MemberIds

\* After configure: a token, and nothing started.
Init ==
    /\ members = << >> /\ broken = FALSE
    /\ containers = [id \in MemberIds |-> [s \in Services |-> "none"]]
    /\ vm = FALSE
    /\ agents = [a \in {"colima", "tunnel"} |-> [plist |-> FALSE, loaded |-> FALSE]]
    /\ token = 1 /\ using = 0
    /\ command = [o \in Operators |-> Idle]
    /\ routes = {} /\ data = [id \in MemberIds |-> {}] /\ cut = {}

\* A command reads deployment.json once.
Begin(o, name, who, email) ==
    /\ command[o] = Idle /\ ~broken
    /\ command' = [command EXCEPT ![o] = [name |-> name, who |-> who, email |-> email,
                                          settings |-> members, steps |-> Steps[name]]]
    /\ UNCHANGED <<members, broken, containers, vm, agents, token, using, routes, data, cut>>

At(o, step) == command[o] # Idle /\ Head(command[o].steps) = step
Known(o) == {command[o].settings[i] : i \in DOMAIN command[o].settings}

After(c) == IF Tail(c.steps) = << >> THEN Idle ELSE [c EXCEPT !.steps = Tail(c.steps)]
Done(o) == command' = [command EXCEPT ![o] = After(command[o])]
Failed(o) == command' = [command EXCEPT ![o] = Idle]

\* Refused, or a subprocess failed: exit 1.
Refuse(o) ==
    /\ command[o] # Idle /\ Failed(o)
    /\ UNCHANGED <<members, broken, containers, vm, agents, token, using, routes, data, cut>>

\* save_config truncates the file before it writes it.
Save(o, settings) ==
    \/ members' = settings /\ Done(o) /\ UNCHANGED broken
    \/ broken' = TRUE /\ Failed(o) /\ UNCHANGED members

\* add_member: a new identity, the first free port, and a list that is valid.
Admit(o) ==
    /\ At(o, "admit")
    /\ command[o].who \notin {m.id : m \in Known(o)} /\ FreePorts(Known(o)) # {}
    /\ LET port == CHOOSE p \in FreePorts(Known(o)) : \A q \in FreePorts(Known(o)) : p <= q
           new == [id |-> command[o].who, email |-> command[o].email, port |-> port, enabled |-> TRUE]
       IN  /\ Valid(Known(o) \cup {new})
           /\ Save(o, Append(command[o].settings, new))
           /\ routes' = IF broken' THEN routes ELSE routes \cup {<<port, command[o].who>>}
    /\ UNCHANGED <<containers, vm, agents, token, using, data, cut>>

\* remove_member: an active friend; the stack is rendered with it once more.
Select(o) ==
    /\ At(o, "select") /\ \E m \in Active(Known(o)) : m.id = command[o].who
    /\ Done(o)
    /\ UNCHANGED <<members, broken, containers, vm, agents, token, using, routes, data, cut>>

\* docker compose stop, rm, up: the services in any order, so a failure leaves
\* some of them as they were.
Compose(o, step, ids, from, to) ==
    /\ At(o, step) /\ vm
    /\ \E reached \in SUBSET (ids \X Services) :
         /\ containers' = [id \in MemberIds |-> [s \in Services |->
              IF <<id, s>> \in reached /\ containers[id][s] \in from THEN to ELSE containers[id][s]]]
         /\ IF reached = ids \X Services THEN Done(o) ELSE Failed(o)
         /\ cut' = (IF to = "running" THEN cut \ ids
                    ELSE IF reached = ids \X Services THEN cut \cup ids ELSE cut)
    /\ UNCHANGED <<members, broken, vm, agents, token, using, routes>>

ComposeStop(o) == Compose(o, "stop", {command[o].who}, {"running"}, "stopped") /\ UNCHANGED data
ComposeRemove(o) == Compose(o, "rm", {command[o].who}, {"stopped"}, "none") /\ UNCHANGED data

\* The stack of the owner and every active member is rendered and started.
ComposeUp(o) ==
    LET active == Active(Known(o))
    IN  /\ At(o, "up") /\ Valid(Known(o))
        /\ Compose(o, "up", {m.id : m \in active}, {"none", "stopped"}, "running")
        /\ data' = [id \in MemberIds |-> data[id] \cup
             {m.email : m \in {a \in active : a.id = id /\ \E s \in Services : containers'[id][s] = "running"}}]

Retire(o) ==
    /\ At(o, "retire")
    /\ Save(o, [i \in DOMAIN command[o].settings |->
                  IF command[o].settings[i].id = command[o].who
                  THEN [command[o].settings[i] EXCEPT !.enabled = FALSE]
                  ELSE command[o].settings[i]])
    /\ UNCHANGED <<containers, vm, agents, token, using, routes, data, cut>>

\* A token on disk, the images built.
Prepare(o) ==
    /\ \/ At(o, "token there") /\ token # 0
       \/ At(o, "build") /\ vm
    /\ Done(o)
    /\ UNCHANGED <<members, broken, containers, vm, agents, token, using, routes, data, cut>>

VmUp(o) ==
    /\ At(o, "vm up") /\ vm' = TRUE /\ Done(o)
    /\ UNCHANGED <<members, broken, containers, agents, token, using, routes, data, cut>>
VmDown(o) ==
    /\ At(o, "vm down") /\ vm' = FALSE /\ Done(o)
    /\ UNCHANGED <<members, broken, containers, agents, token, using, routes, data, cut>>

\* unload_agent waits until launchd no longer knows the agent; when that takes
\* too long the command fails, and the agent may go afterwards.
Unload(o, agent) ==
    /\ At(o, IF agent = "colima" THEN "colima off" ELSE "tunnel off")
    /\ agents' = [agents EXCEPT ![agent].loaded = FALSE]
    /\ Done(o) \/ Failed(o)
    /\ UNCHANGED <<members, broken, containers, vm, token, using, routes, data, cut>>

\* install_agent, after its unload: the plist is written and handed to launchd.
Load(o, agent) ==
    /\ At(o, IF agent = "colima" THEN "colima on" ELSE "tunnel on")
    /\ \/ agents' = [agents EXCEPT ![agent] = [plist |-> TRUE, loaded |-> TRUE]] /\ Done(o)
          /\ using' = IF agent = "tunnel" THEN token ELSE using
       \/ agents' = [agents EXCEPT ![agent].plist = TRUE] /\ Failed(o) /\ UNCHANGED using
    /\ UNCHANGED <<members, broken, containers, vm, token, routes, data, cut>>

NewToken(o) ==
    /\ At(o, "new token") /\ token < MaxTokens /\ token' = token + 1 /\ Done(o)
    /\ UNCHANGED <<members, broken, containers, vm, agents, using, routes, data, cut>>

\* The agent keeps the VM up (KeepAlive); containers come back as their restart
\* policy says: unless they were stopped.
Supervise ==
    /\ agents["colima"].loaded /\ ~vm /\ vm' = TRUE
    /\ UNCHANGED <<members, broken, containers, agents, token, using, command, routes, data, cut>>

\* The Mac restarts: commands die, and the next login loads the installed agents.
Reboot ==
    /\ vm' = FALSE /\ command' = [o \in Operators |-> Idle]
    /\ agents' = [a \in DOMAIN agents |-> [agents[a] EXCEPT !.loaded = agents[a].plist]]
    /\ using' = IF agents["tunnel"].plist THEN token ELSE using
    /\ UNCHANGED <<members, broken, containers, token, routes, data, cut>>

Next ==
    \/ \E o \in Operators :
         \/ \E id \in MemberIds, email \in Emails : Begin(o, "add", id, email)
         \/ \E id \in MemberIds : Begin(o, "remove", id, "")
         \/ \E name \in {"start", "install", "stop", "token"} : Begin(o, name, "", "")
         \/ Refuse(o) \/ Admit(o) \/ Select(o) \/ ComposeStop(o) \/ ComposeRemove(o) \/ ComposeUp(o)
         \/ Retire(o) \/ Prepare(o) \/ VmUp(o) \/ VmDown(o) \/ NewToken(o)
         \/ \E agent \in {"colima", "tunnel"} : Unload(o, agent) \/ Load(o, agent)
    \/ Supervise \/ Reboot

Spec == Init /\ [][Next]_deployVars

-------------------------------------------------------------------------------
\* A retired member has nothing left that a restart of the VM or of its
\* containers could bring back, however its removal went.
RetiredIsGone ==
    \A m \in Members : ~m.enabled => \A s \in Services : containers[m.id][s] = "none"

\* Private volumes and the tunnel's route to a port belong to one person for
\* good, also after that person was retired.
NamespacesKept ==
    /\ \A id \in MemberIds : \A email, other \in data[id] : email = other
    /\ \A r, q \in routes : r[1] = q[1] <=> r[2] = q[2]

\* Once a removal has stopped a member's services, only start brings them back:
\* not a reboot, not the agent that keeps the VM.
CutStaysCut == \A id \in cut, s \in Services : containers[id][s] # "running"

===============================================================================

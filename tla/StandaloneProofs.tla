---------------------------- MODULE StandaloneProofs ----------------------------
(* What the Mac deployment and the server keep, for any members, ports and      *)
(* tokens, and for any calls, owners, receipts and limits; what a purchase      *)
(* comparison answers, for any candidates, bills and rates; what a reader of    *)
(* pages has received, for any lists, sizes and limits; and what the markers of *)
(* an installation say, for any data files, requests, drifts and runs by hand.  *)
EXTENDS MCStandalone, ListsProofs, SequenceTheorems, FiniteSetTheorems

-------------------------------------------------------------------------------
(* The deployment *)

\* A list of members, retired ones included, in which nothing occurs twice.
GoodList(list) ==
    /\ list \in Seq(Mac!Member)
    /\ \A i, j \in DOMAIN list :
         list[i].id = list[j].id \/ list[i].email = list[j].email \/ list[i].port = list[j].port => i = j

CommandNames == {"add", "remove", "start", "install", "stop", "token"}

OtherSteps == {"token there", "vm up", "vm down", "build", "up", "tunnel off", "tunnel on",
               "colima off", "colima on", "new token"}
StepNames == OtherSteps \cup {"admit", "select", "stop", "rm", "retire"}

\* What is left of a command.
GoodSteps(name, steps) ==
    /\ steps # << >>
    /\ name = "add" => steps = <<"admit">>
    /\ name = "remove" =>
         steps \in {<<"select", "stop", "rm", "retire">>, <<"stop", "rm", "retire">>,
                    <<"rm", "retire">>, <<"retire">>}
    /\ name \notin {"add", "remove"} => steps \in Seq(OtherSteps)

\* A command under way works on the members of the file, which it changes, if
\* at all, with its last step.
Commands(list) ==
    {c \in [name : CommandNames, who : MemberIds \cup {""}, email : Emails \cup {""},
            settings : {list}, steps : Seq(StepNames)] :
       /\ GoodSteps(c.name, c.steps)
       /\ c.name = "add" => c.who \in MemberIds /\ c.email \in Emails
       /\ c.name = "remove" => c.who \in MemberIds}

\* A removal has stopped the services before it removes them, and removed them
\* before it retires their owner.
Cleared(c, services) ==
    c # Mac!Idle /\ c.name = "remove" =>
      /\ Head(c.steps) = "rm" => \A s \in Services : services[c.who][s] # "running"
      /\ Head(c.steps) = "retire" => \A s \in Services : services[c.who][s] = "none"

CommandInv ==
    /\ command \in [Operators -> {Mac!Idle} \cup Commands(members)]
    /\ \A o \in Operators : Cleared(command[o], containers)

MacTypes ==
    /\ broken \in BOOLEAN /\ vm \in BOOLEAN
    /\ containers \in [MemberIds -> [Services -> {"none", "stopped", "running"}]]
    /\ agents \in [{"colima", "tunnel"} -> [plist : BOOLEAN, loaded : BOOLEAN]]
    /\ token \in 0 .. MaxTokens /\ using \in 0 .. MaxTokens
    /\ data \in [MemberIds -> SUBSET Emails] /\ cut \subseteq MemberIds

\* A route or a volume is of a member there was.
OwnersInv ==
    /\ \A r \in routes : \E i \in DOMAIN members : r = <<members[i].port, members[i].id>>
    /\ \A id \in MemberIds : \A email \in data[id] :
         \E i \in DOMAIN members : members[i].id = id /\ members[i].email = email

MacInv ==
    /\ MacTypes /\ GoodList(members) /\ CommandInv /\ OwnersInv
    /\ Mac!RetiredIsGone /\ Mac!CutStaysCut

-------------------------------------------------------------------------------
(* Commands *)

LEMMA ListedSteps ==
    /\ Head(<<"admit">>) = "admit" /\ Tail(<<"admit">>) = << >>
    /\ Head(<<"retire">>) = "retire" /\ Tail(<<"retire">>) = << >>
    /\ Head(<<"rm", "retire">>) = "rm" /\ Tail(<<"rm", "retire">>) = <<"retire">>
    /\ Head(<<"stop", "rm", "retire">>) = "stop" /\ Tail(<<"stop", "rm", "retire">>) = <<"rm", "retire">>
    /\ Head(<<"select", "stop", "rm", "retire">>) = "select"
    /\ Tail(<<"select", "stop", "rm", "retire">>) = <<"stop", "rm", "retire">>
OBVIOUS

LEMMA CommandFields ==
    ASSUME NEW list, NEW c \in Commands(list)
    PROVE  /\ c # Mac!Idle /\ c.name \in CommandNames /\ c.settings = list
           /\ c.steps \in Seq(StepNames) /\ c.steps # << >> /\ GoodSteps(c.name, c.steps)
           /\ c = [name |-> c.name, who |-> c.who, email |-> c.email, settings |-> c.settings,
                   steps |-> c.steps]
           /\ Head(c.steps) = "admit" =>
                c.name = "add" /\ c.who \in MemberIds /\ c.email \in Emails /\ Tail(c.steps) = << >>
           /\ Head(c.steps) \in {"select", "stop", "rm", "retire"} =>
                c.name = "remove" /\ c.who \in MemberIds
           /\ Head(c.steps) = "retire" => Tail(c.steps) = << >>
<1>1. /\ c.name \in CommandNames /\ c.settings = list /\ c.steps \in Seq(StepNames)
      /\ GoodSteps(c.name, c.steps) /\ c.steps # << >>
      /\ c.name = "add" => c.who \in MemberIds /\ c.email \in Emails
      /\ c.name = "remove" => c.who \in MemberIds
      /\ c = [name |-> c.name, who |-> c.who, email |-> c.email, settings |-> c.settings,
              steps |-> c.steps]
  BY DEF Commands, GoodSteps
<1>2. c # Mac!Idle
  <2>1. Mac!Idle.name = "none"
    BY DEF Mac!Idle
  <2> QED
    BY <1>1, <2>1 DEF CommandNames
<1>3. 1 \in DOMAIN c.steps /\ Head(c.steps) = c.steps[1]
  BY <1>1
<1>a. c.name \notin {"add", "remove"} => Head(c.steps) \in OtherSteps
  BY <1>1, <1>3 DEF GoodSteps
<1>b. Head(c.steps) \in {"admit", "select", "stop", "rm", "retire"} => c.name \in {"add", "remove"}
  BY <1>a DEF OtherSteps
<1>c. /\ c.name = "add" => Head(c.steps) = "admit" /\ Tail(c.steps) = << >>
      /\ c.name = "remove" => Head(c.steps) \in {"select", "stop", "rm", "retire"}
  BY <1>1, ListedSteps DEF GoodSteps
<1>4. Head(c.steps) = "admit" => c.name = "add" /\ Tail(c.steps) = << >>
  BY <1>b, <1>c
<1>5. Head(c.steps) \in {"select", "stop", "rm", "retire"} => c.name = "remove"
  BY <1>b, <1>c
<1>6. Head(c.steps) = "retire" => Tail(c.steps) = << >>
  BY <1>1, <1>5, ListedSteps DEF GoodSteps
<1> QED
  BY <1>1, <1>2, <1>4, <1>5, <1>6

\* A step of a command is done.
LEMMA StepDone ==
    ASSUME NEW list, NEW c \in Commands(list)
    PROVE  /\ Mac!After(c) \in {Mac!Idle} \cup Commands(list)
           /\ Mac!After(c) # Mac!Idle /\ Mac!After(c).name = "remove" =>
                /\ c.name = "remove" /\ Mac!After(c).who = c.who
                /\ Head(Mac!After(c).steps) = "rm" => Head(c.steps) = "stop"
                /\ Head(Mac!After(c).steps) = "retire" => Head(c.steps) = "rm"
<1>1. CASE Tail(c.steps) = << >>
  BY <1>1 DEF Mac!After
<1>2. CASE Tail(c.steps) # << >>
  <2> DEFINE d == [c EXCEPT !.steps = Tail(@)]
  <2>1. /\ c.steps \in Seq(StepNames) /\ GoodSteps(c.name, c.steps)
        /\ c = [name |-> c.name, who |-> c.who, email |-> c.email, settings |-> c.settings,
                steps |-> c.steps]
    BY CommandFields
  <2>2. /\ d \in [name : CommandNames, who : MemberIds \cup {""}, email : Emails \cup {""},
                 settings : {list}, steps : Seq(StepNames)]
        /\ d.name = c.name /\ d.who = c.who /\ d.email = c.email /\ d.steps = Tail(c.steps)
    <3>1. c \in [name : CommandNames, who : MemberIds \cup {""}, email : Emails \cup {""},
                 settings : {list}, steps : Seq(StepNames)]
      BY DEF Commands
    <3>2. Tail(c.steps) \in Seq(StepNames)
      BY <1>2, <2>1
    <3> QED
      BY <3>1, <3>2
  <2>3. GoodSteps(c.name, Tail(c.steps)) /\ Tail(c.steps) \in Seq(StepNames)
    <3>1. CASE c.name \notin {"add", "remove"}
      <4>1. c.steps \in Seq(OtherSteps)
        BY <2>1, <3>1 DEF GoodSteps
      <4>2. Tail(c.steps) \in Seq(OtherSteps) /\ Tail(c.steps) \in Seq(StepNames)
        BY <1>2, <2>1, <4>1
      <4> QED
        BY <1>2, <2>1, <3>1, <4>2 DEF GoodSteps
    <3>2. CASE c.name \in {"add", "remove"}
      <4>1. Tail(c.steps) \in Seq(StepNames) /\ Tail(c.steps) # << >>
        BY <1>2, <2>1
      <4>2. c.name = "remove"
        BY <1>2, <2>1, <3>2, ListedSteps DEF GoodSteps
      <4>3. Tail(c.steps) \in {<<"stop", "rm", "retire">>, <<"rm", "retire">>, <<"retire">>}
        BY <2>1, <4>1, <4>2, ListedSteps DEF GoodSteps
      <4> QED
        BY <4>1, <4>2, <4>3 DEF GoodSteps
    <3> QED
      BY <3>1, <3>2
  <2>4. c.name = "remove" => /\ Head(Tail(c.steps)) = "rm" => Head(c.steps) = "stop"
                             /\ Head(Tail(c.steps)) = "retire" => Head(c.steps) = "rm"
    BY <1>2, <2>1, ListedSteps DEF GoodSteps
  <2>5. d \in Commands(list)
    <3> HIDE DEF d
    <3>1. /\ c.name = "add" => c.who \in MemberIds /\ c.email \in Emails
          /\ c.name = "remove" => c.who \in MemberIds
      BY DEF Commands
    <3> QED
      BY <2>2, <2>3, <3>1 DEF Commands
  <2>6. Mac!After(c) = d
    BY <1>2 DEF Mac!After
  <2> HIDE DEF d
  <2> QED
    BY <2>2, <2>4, <2>5, <2>6
<1> QED
  BY <1>1, <1>2

\* Nobody else is at a terminal.
LEMMA OneTerminal ==
    ASSUME CommandInv, NEW o \in Operators, NEW step, Mac!At(o, step)
    PROVE  /\ command[o] \in Commands(members) /\ Head(command[o].steps) = step
           /\ \A p \in Operators : p = o
BY DeploymentAssumption DEF CommandInv, Mac!At

LEMMA DoneKeeps ==
    ASSUME CommandInv, NEW o \in Operators, command[o] \in Commands(members), Mac!Done(o)
    PROVE  /\ members' = members => command' \in [Operators -> {Mac!Idle} \cup Commands(members')]
           /\ command'[o] = Mac!After(command[o])
BY StepDone DEF CommandInv, Mac!Done

\* A step that is none of the removal's leaves nothing to be cleared.
LEMMA QuietCommand ==
    ASSUME CommandInv, NEW o \in Operators, NEW step, Mac!At(o, step), step \notin {"stop", "rm"},
           Mac!Done(o) \/ Mac!Failed(o), members' = members
    PROVE  CommandInv'
<1>1. /\ command[o] \in Commands(members) /\ Head(command[o].steps) = step
      /\ \A p \in Operators : p = o
  BY OneTerminal
<1>2. CASE Mac!Failed(o)
  BY <1>1, <1>2 DEF Mac!Failed, CommandInv, Cleared
<1>3. CASE Mac!Done(o)
  <2>1. /\ command' \in [Operators -> {Mac!Idle} \cup Commands(members')]
        /\ command'[o] = Mac!After(command[o])
    BY <1>1, <1>3, DoneKeeps
  <2>2. Mac!After(command[o]) # Mac!Idle /\ Mac!After(command[o]).name = "remove" =>
          /\ Head(Mac!After(command[o]).steps) = "rm" => FALSE
          /\ Head(Mac!After(command[o]).steps) = "retire" => FALSE
    BY <1>1, StepDone
  <2>3. Cleared(command'[o], containers')
    BY <2>1, <2>2 DEF Cleared
  <2> QED
    BY <1>1, <2>1, <2>3 DEF CommandInv
<1> QED
  BY <1>2, <1>3

LEMMA StartingSteps ==
    ASSUME NEW name \in CommandNames
    PROVE  /\ Mac!Steps[name] \in Seq(StepNames) /\ GoodSteps(name, Mac!Steps[name])
           /\ Head(Mac!Steps[name]) \notin {"rm", "retire"}
<1>1. CASE name = "add"
  <2> DEFINE steps == <<"admit">>
  <2>1. Mac!Steps[name] = steps
    BY <1>1 DEF Mac!Steps, Mac!Add
  <2>2. steps \in Seq(StepNames) /\ steps # << >> /\ Head(steps) \notin {"rm", "retire"}
    BY DEF StepNames, OtherSteps
  <2>3. GoodSteps(name, steps)
    BY <1>1 DEF GoodSteps
  <2> QED
    BY <2>1, <2>2, <2>3
<1>2. CASE name = "remove"
  <2> DEFINE steps == <<"select", "stop", "rm", "retire">>
  <2>1. Mac!Steps[name] = steps
    BY <1>2 DEF Mac!Steps, Mac!Remove
  <2>2. steps \in Seq(StepNames) /\ steps # << >> /\ Head(steps) \notin {"rm", "retire"}
    BY DEF StepNames, OtherSteps
  <2>3. GoodSteps(name, steps)
    BY <1>2 DEF GoodSteps
  <2> QED
    BY <2>1, <2>2, <2>3
<1>3. CASE name = "start"
  <2> DEFINE steps == <<"token there", "vm up", "build", "up", "tunnel off", "tunnel on">>
  <2>1. Mac!Steps[name] = steps
    BY <1>3 DEF Mac!Steps, Mac!Start
  <2>2. steps \in Seq(StepNames) /\ steps # << >> /\ Head(steps) \notin {"rm", "retire"}
    BY DEF StepNames, OtherSteps
  <2>3. GoodSteps(name, steps)
    <3>1. steps \in Seq(OtherSteps)
      BY DEF OtherSteps
    <3> HIDE DEF steps
    <3> QED
      BY <1>3, <2>2, <3>1 DEF GoodSteps
  <2> QED
    BY <2>1, <2>2, <2>3
<1>4. CASE name = "install"
  <2> DEFINE steps == <<"colima off", "vm down", "colima on", "tunnel off", "tunnel on">>
  <2>1. Mac!Steps[name] = steps
    BY <1>4 DEF Mac!Steps, Mac!InstallLogin
  <2>2. steps \in Seq(StepNames) /\ steps # << >> /\ Head(steps) \notin {"rm", "retire"}
    BY DEF StepNames, OtherSteps
  <2>3. GoodSteps(name, steps)
    <3>1. steps \in Seq(OtherSteps)
      BY DEF OtherSteps
    <3> HIDE DEF steps
    <3> QED
      BY <1>4, <2>2, <3>1 DEF GoodSteps
  <2> QED
    BY <2>1, <2>2, <2>3
<1>5. CASE name = "stop"
  <2> DEFINE steps == <<"tunnel off", "colima off", "vm down">>
  <2>1. Mac!Steps[name] = steps
    BY <1>5 DEF Mac!Steps, Mac!Stop
  <2>2. steps \in Seq(StepNames) /\ steps # << >> /\ Head(steps) \notin {"rm", "retire"}
    BY DEF StepNames, OtherSteps
  <2>3. GoodSteps(name, steps)
    <3>1. steps \in Seq(OtherSteps)
      BY DEF OtherSteps
    <3> HIDE DEF steps
    <3> QED
      BY <1>5, <2>2, <3>1 DEF GoodSteps
  <2> QED
    BY <2>1, <2>2, <2>3
<1>6. CASE name = "token"
  <2> DEFINE steps == <<"new token", "tunnel off", "tunnel on">>
  <2>1. Mac!Steps[name] = steps
    BY <1>6 DEF Mac!Steps, Mac!SetToken
  <2>2. steps \in Seq(StepNames) /\ steps # << >> /\ Head(steps) \notin {"rm", "retire"}
    BY DEF StepNames, OtherSteps
  <2>3. GoodSteps(name, steps)
    <3>1. steps \in Seq(OtherSteps)
      BY DEF OtherSteps
    <3> HIDE DEF steps
    <3> QED
      BY <1>6, <2>2, <3>1 DEF GoodSteps
  <2> QED
    BY <2>1, <2>2, <2>3
<1> QED
  BY <1>1, <1>2, <1>3, <1>4, <1>5, <1>6 DEF CommandNames

\* A command that ends with this step leaves the file as it likes.
LEMMA LastCommand ==
    ASSUME CommandInv, NEW o \in Operators, NEW step, Mac!At(o, step),
           Mac!Failed(o) \/ (Mac!Done(o) /\ step \in {"admit", "retire"})
    PROVE  CommandInv'
<1>1. /\ command[o] \in Commands(members) /\ Head(command[o].steps) = step
      /\ \A p \in Operators : p = o
  BY OneTerminal
<1>2. command'[o] = Mac!Idle /\ command' \in [Operators -> {Mac!Idle}]
  <2>1. CASE Mac!Failed(o)
    BY <1>1, <2>1 DEF Mac!Failed, CommandInv
  <2>2. CASE Mac!Done(o) /\ step \in {"admit", "retire"}
    <3>1. Tail(command[o].steps) = << >>
      BY <1>1, <2>2, CommandFields
    <3>2. Mac!After(command[o]) = Mac!Idle
      BY <3>1 DEF Mac!After
    <3> QED
      BY <1>1, <2>2, <3>2 DEF Mac!Done, CommandInv
  <2> QED
    BY <2>1, <2>2
<1> QED
  BY <1>1, <1>2 DEF CommandInv, Cleared

-------------------------------------------------------------------------------
(* Every step of the deployment *)

LEMMA DeployBegins == ASSUME Mac!Init PROVE MacInv
<1>1. members = << >> /\ routes = {} /\ cut = {} /\ \A id \in MemberIds : data[id] = {}
  BY DEF Mac!Init
<1>2. MacTypes
  <2>1. token \in 0 .. MaxTokens /\ using \in 0 .. MaxTokens
    BY DeploymentAssumption DEF Mac!Init
  <2>2. /\ broken = FALSE /\ vm = FALSE
        /\ containers = [id \in MemberIds |-> [s \in Services |-> "none"]]
        /\ agents = [a \in {"colima", "tunnel"} |-> [plist |-> FALSE, loaded |-> FALSE]]
        /\ data = [id \in MemberIds |-> {}] /\ cut = {}
    BY DEF Mac!Init
  <2>3. agents \in [{"colima", "tunnel"} -> [plist : BOOLEAN, loaded : BOOLEAN]]
    BY <2>2
  <2> QED
    BY <2>1, <2>2, <2>3 DEF MacTypes
<1>3. GoodList(members)
  BY <1>1 DEF GoodList
<1>4. CommandInv
  BY DEF Mac!Init, CommandInv, Cleared
<1>5. OwnersInv /\ Mac!RetiredIsGone /\ Mac!CutStaysCut
  BY <1>1 DEF OwnersInv, Mac!RetiredIsGone, Mac!CutStaysCut, Mac!Members
<1> QED
  BY <1>2, <1>3, <1>4, <1>5 DEF MacInv

\* The members, the containers and what they own stay as they are.
LEMMA NothingMoved ==
    ASSUME MacInv, MacTypes', CommandInv', UNCHANGED <<members, containers, routes, data, cut>>
    PROVE  MacInv'
BY DEF MacInv, GoodList, OwnersInv, Mac!RetiredIsGone, Mac!CutStaysCut, Mac!Members

LEMMA BeginStep ==
    ASSUME MacInv, NEW o \in Operators, NEW name \in CommandNames,
           NEW who \in MemberIds \cup {""}, NEW email \in Emails \cup {""},
           name = "add" => who \in MemberIds /\ email \in Emails,
           name = "remove" => who \in MemberIds, Mac!Begin(o, name, who, email)
    PROVE  MacInv'
<1> DEFINE c == [name |-> name, who |-> who, email |-> email, settings |-> members,
                 steps |-> Mac!Steps[name]]
<1>1. /\ command' = [command EXCEPT ![o] = c]
      /\ UNCHANGED <<members, broken, containers, vm, agents, token, using, routes, data, cut>>
  BY DEF Mac!Begin
<1>2. c \in Commands(members) /\ Cleared(c, containers)
  <2> DEFINE steps == Mac!Steps[name]
  <2>1. steps \in Seq(StepNames) /\ GoodSteps(name, steps) /\ Head(steps) \notin {"rm", "retire"}
    BY StartingSteps
  <2> HIDE DEF steps
  <2>2. c = [name |-> name, who |-> who, email |-> email, settings |-> members, steps |-> steps]
    BY DEF steps
  <2> QED
    BY <2>1, <2>2 DEF Commands, Cleared
<1> HIDE DEF c
<1>3. CommandInv'
  BY <1>1, <1>2 DEF MacInv, CommandInv
<1>4. MacTypes'
  BY <1>1 DEF MacInv, MacTypes
<1> QED
  BY <1>1, <1>3, <1>4, NothingMoved

\* The steps of a command that concern neither members nor containers.
LEMMA QuietStep ==
    ASSUME MacInv, NEW o \in Operators,
           \/ Mac!Refuse(o) \/ Mac!Select(o) \/ Mac!Prepare(o) \/ Mac!VmUp(o) \/ Mac!VmDown(o)
           \/ Mac!NewToken(o)
           \/ \E agent \in {"colima", "tunnel"} : Mac!Unload(o, agent) \/ Mac!Load(o, agent)
    PROVE  MacInv'
<1>1. UNCHANGED <<members, containers, routes, data, cut>>
  BY DEF Mac!Refuse, Mac!Select, Mac!Prepare, Mac!VmUp, Mac!VmDown, Mac!NewToken, Mac!Unload, Mac!Load
<1>2. CommandInv'
  <2>1. CASE Mac!Refuse(o)
    <3>1. command' = [command EXCEPT ![o] = Mac!Idle] /\ \A p \in Operators : p = o
      BY <2>1, DeploymentAssumption DEF Mac!Refuse, Mac!Failed
    <3> QED
      BY <1>1, <3>1 DEF MacInv, CommandInv, Cleared
  <2>2. CASE ~Mac!Refuse(o)
    <3>1. \E step \in {"select", "token there", "build", "vm up", "vm down", "new token",
                       "colima off", "tunnel off", "colima on", "tunnel on"} :
            Mac!At(o, step) /\ (Mac!Done(o) \/ Mac!Failed(o))
      BY <2>2 DEF Mac!Select, Mac!Prepare, Mac!VmUp, Mac!VmDown, Mac!NewToken, Mac!Unload, Mac!Load
    <3> QED
      BY <1>1, <3>1, QuietCommand DEF MacInv
  <2> QED
    BY <2>1, <2>2
<1>3. MacTypes'
  <2>1. MacTypes /\ MaxTokens \in Nat
    BY DeploymentAssumption DEF MacInv
  <2>2. ASSUME NEW agent \in {"colima", "tunnel"}, Mac!Unload(o, agent) \/ Mac!Load(o, agent)
        PROVE  MacTypes'
    <3>1. agents \in [{"colima", "tunnel"} -> [plist : BOOLEAN, loaded : BOOLEAN]]
      BY <2>1 DEF MacTypes
    <3>2. \/ agents' = [agents EXCEPT ![agent].loaded = FALSE]
          \/ agents' = [agents EXCEPT ![agent] = [plist |-> TRUE, loaded |-> TRUE]]
          \/ agents' = [agents EXCEPT ![agent].plist = TRUE]
      BY <2>2 DEF Mac!Unload, Mac!Load
    <3>3. agents' \in [{"colima", "tunnel"} -> [plist : BOOLEAN, loaded : BOOLEAN]]
      <4>1. [agents EXCEPT ![agent].loaded = FALSE]
              \in [{"colima", "tunnel"} -> [plist : BOOLEAN, loaded : BOOLEAN]]
        BY <3>1
      <4>2. [agents EXCEPT ![agent] = [plist |-> TRUE, loaded |-> TRUE]]
              \in [{"colima", "tunnel"} -> [plist : BOOLEAN, loaded : BOOLEAN]]
        BY <3>1
      <4>3. [agents EXCEPT ![agent].plist = TRUE]
              \in [{"colima", "tunnel"} -> [plist : BOOLEAN, loaded : BOOLEAN]]
        BY <3>1
      <4> QED
        BY <3>2, <4>1, <4>2, <4>3
    <3>4. using' \in {using, token} /\ UNCHANGED <<broken, containers, vm, token, data, cut>>
      BY <2>2 DEF Mac!Unload, Mac!Load
    <3> QED
      BY <2>1, <3>3, <3>4 DEF MacTypes
  <2>3. CASE Mac!NewToken(o)
    <3>1. /\ token < MaxTokens /\ token' = token + 1
          /\ UNCHANGED <<broken, containers, vm, agents, using, data, cut>>
      BY <2>3 DEF Mac!NewToken
    <3>2. token' \in 0 .. MaxTokens
      BY <2>1, <3>1 DEF MacTypes
    <3> QED
      BY <2>1, <3>1, <3>2 DEF MacTypes
  <2>4. CASE Mac!Refuse(o) \/ Mac!Select(o) \/ Mac!Prepare(o) \/ Mac!VmUp(o) \/ Mac!VmDown(o)
    BY <2>1, <2>4 DEF MacTypes, Mac!Refuse, Mac!Select, Mac!Prepare, Mac!VmUp, Mac!VmDown
  <2> QED
    BY <2>2, <2>3, <2>4
<1> QED
  BY <1>1, <1>2, <1>3, NothingMoved

LEMMA RestartStep ==
    ASSUME MacInv, Mac!Supervise \/ Mac!Reboot
    PROVE  MacInv'
<1>1. UNCHANGED <<members, containers, routes, data, cut>>
  BY DEF Mac!Supervise, Mac!Reboot
<1>2. command' = command \/ command' = [o \in Operators |-> Mac!Idle]
  BY DEF Mac!Supervise, Mac!Reboot
<1>3. CommandInv'
  BY <1>1, <1>2 DEF MacInv, CommandInv, Cleared
<1>4. MacTypes'
  <2>1. CASE Mac!Supervise
    BY <2>1 DEF MacInv, MacTypes, Mac!Supervise
  <2>2. CASE Mac!Reboot
    BY <2>2 DEF MacInv, MacTypes, Mac!Reboot
  <2> QED
    BY <2>1, <2>2
<1> QED
  BY <1>1, <1>3, <1>4, NothingMoved

-------------------------------------------------------------------------------
(* docker compose *)

LEMMA MemberFields ==
    ASSUME GoodList(members), NEW m \in Mac!Members
    PROVE  /\ m \in Mac!Member
           /\ m.id \in MemberIds /\ m.email \in Emails /\ m.port \in Ports /\ m.enabled \in BOOLEAN
           /\ \E i \in DOMAIN members : m = members[i]
           /\ \A n \in Mac!Members : m.id = n.id => m = n
<1>1. PICK i \in DOMAIN members : m = members[i]
  BY DEF Mac!Members
<1>2. \A j \in DOMAIN members : members[i].id = members[j].id => i = j
  BY <1>1 DEF GoodList
<1>3. members \in Seq(Mac!Member)
  BY DEF GoodList
<1>4. m \in Mac!Member
  BY <1>1, <1>3
<1> QED
  BY <1>1, <1>2, <1>4 DEF Mac!Members, Mac!Member

\* What one command of docker compose does to the services.
Reached(reached, from, to) ==
    [id \in MemberIds |-> [s \in Services |->
       IF <<id, s>> \in reached /\ containers[id][s] \in from THEN to ELSE containers[id][s]]]

LEMMA ComposeMoves ==
    ASSUME MacInv, NEW o \in Operators, NEW step, NEW ids, NEW from, NEW to,
           Mac!Compose(o, step, ids, from, to)
    PROVE  /\ Mac!At(o, step)
           /\ UNCHANGED <<members, broken, vm, agents, token, using, routes>>
           /\ \E reached \in SUBSET (ids \X Services) :
                /\ containers' = Reached(reached, from, to)
                /\ IF reached = ids \X Services THEN Mac!Done(o) ELSE Mac!Failed(o)
                /\ cut' = (IF to = "running" THEN cut \ ids
                           ELSE IF reached = ids \X Services THEN cut \cup ids ELSE cut)
BY DEF Mac!Compose, Reached

\* Each service is where it was, or was reached and moved.
LEMMA ReachedService ==
    ASSUME NEW reached, NEW from, NEW to, containers' = Reached(reached, from, to)
    PROVE  \A id \in MemberIds, s \in Services :
             IF <<id, s>> \in reached /\ containers[id][s] \in from
             THEN containers'[id][s] = to ELSE containers'[id][s] = containers[id][s]
BY DEF Reached

LEMMA ReachedTypes ==
    ASSUME MacTypes, NEW reached, NEW from, NEW to \in {"none", "stopped", "running"},
           containers' = Reached(reached, from, to)
    PROVE  containers' \in [MemberIds -> [Services -> {"none", "stopped", "running"}]]
<1>1. \A id \in MemberIds, s \in Services : containers[id][s] \in {"none", "stopped", "running"}
  BY DEF MacTypes
<1> QED
  BY <1>1 DEF Reached

\* Stopping or removing a friend's services.
LEMMA RemovalStep ==
    ASSUME MacInv, NEW o \in Operators, Mac!ComposeStop(o) \/ Mac!ComposeRemove(o)
    PROVE  MacInv'
<1> DEFINE c == command[o]
<1>1. PICK step \in {"stop", "rm"}, from \in {{"running"}, {"stopped"}}, to \in {"stopped", "none"} :
        /\ Mac!Compose(o, step, {c.who}, from, to)
        /\ step = "stop" => from = {"running"} /\ to = "stopped"
        /\ step = "rm" => from = {"stopped"} /\ to = "none"
  BY DEF Mac!ComposeStop, Mac!ComposeRemove
<1>2. /\ Mac!At(o, step) /\ UNCHANGED <<members, broken, vm, agents, token, using, routes, data>>
      /\ \E reached \in SUBSET ({c.who} \X Services) :
           /\ containers' = Reached(reached, from, to)
           /\ IF reached = {c.who} \X Services THEN Mac!Done(o) ELSE Mac!Failed(o)
           /\ cut' = (IF to = "running" THEN cut \ {c.who}
                      ELSE IF reached = {c.who} \X Services THEN cut \cup {c.who} ELSE cut)
  BY <1>1, ComposeMoves DEF Mac!ComposeStop, Mac!ComposeRemove
<1>3. PICK reached \in SUBSET ({c.who} \X Services) :
           /\ containers' = Reached(reached, from, to)
           /\ IF reached = {c.who} \X Services THEN Mac!Done(o) ELSE Mac!Failed(o)
           /\ cut' = (IF reached = {c.who} \X Services THEN cut \cup {c.who} ELSE cut)
  BY <1>2
<1>r. \A id \in MemberIds, s \in Services :
        IF <<id, s>> \in reached /\ containers[id][s] \in from
        THEN containers'[id][s] = to ELSE containers'[id][s] = containers[id][s]
  <2>1. containers' = Reached(reached, from, to)
    BY <1>3
  <2> QED
    BY <2>1 DEF Reached
<1>4. /\ MacTypes /\ CommandInv /\ c \in Commands(members) /\ Head(c.steps) = step
      /\ c.name = "remove" /\ c.who \in MemberIds /\ \A p \in Operators : p = o
  BY <1>2, OneTerminal, CommandFields DEF MacInv
<1>5. \A id \in MemberIds, s \in Services : containers[id][s] \in {"none", "stopped", "running"}
  BY <1>4 DEF MacTypes
<1>6. step = "rm" => \A s \in Services : containers[c.who][s] # "running"
  BY <1>4, CommandFields DEF CommandInv, Cleared
<1>7. \A id \in MemberIds, s \in Services :
        /\ containers'[id][s] = "running" => containers[id][s] = "running"
        /\ containers[id][s] = "none" => containers'[id][s] = "none"
  <2>1. "none" \notin from /\ to # "running"
    BY <1>1
  <2> QED
    BY <1>r, <2>1
<1>8. reached = {c.who} \X Services =>
        \A s \in Services : /\ containers'[c.who][s] # "running"
                            /\ step = "rm" => containers'[c.who][s] = "none"
  <2>1. ASSUME reached = {c.who} \X Services, NEW s \in Services
        PROVE  /\ containers'[c.who][s] # "running"
               /\ step = "rm" => containers'[c.who][s] = "none"
    <3>1. <<c.who, s>> \in reached
      BY <2>1
    <3>2. \/ containers'[c.who][s] = containers[c.who][s] /\ containers[c.who][s] \notin from
          \/ containers'[c.who][s] = to
      <4> HIDE DEF c
      <4> QED
        BY <1>4, <1>r, <2>1, <3>1
    <3> HIDE DEF c
    <3> QED
      BY <1>1, <1>4, <1>5, <1>6, <2>1, <3>1, <3>2
  <2> QED
    BY <2>1
<1>9. MacTypes'
  <2>1. containers' \in [MemberIds -> [Services -> {"none", "stopped", "running"}]]
    BY <1>3, <1>4, ReachedTypes
  <2>2. cut' \subseteq MemberIds
    BY <1>3, <1>4 DEF MacTypes
  <2> QED
    BY <1>2, <1>4, <2>1, <2>2 DEF MacTypes
<1>10. CommandInv'
  <2>1. CASE reached = {c.who} \X Services
    <3>1. Mac!Done(o)
      BY <1>3, <2>1
    <3>2. /\ command' \in [Operators -> {Mac!Idle} \cup Commands(members')]
          /\ command'[o] = Mac!After(c)
      BY <1>2, <1>4, <3>1, DoneKeeps
    <3>3. Mac!After(c) # Mac!Idle /\ Mac!After(c).name = "remove" =>
            /\ Mac!After(c).who = c.who
            /\ Head(Mac!After(c).steps) = "retire" => step = "rm"
      BY <1>4, StepDone
    <3>4. Cleared(command'[o], containers')
      BY <1>8, <2>1, <3>2, <3>3 DEF Cleared
    <3> QED
      BY <1>4, <3>2, <3>4 DEF CommandInv
  <2>2. CASE reached # {c.who} \X Services
    <3>1. Mac!Failed(o)
      BY <1>3, <2>2
    <3> QED
      BY <1>2, <1>4, <3>1, LastCommand
  <2> QED
    BY <2>1, <2>2
<1>11. Mac!RetiredIsGone'
  <2>1. \A m \in Mac!Members : m.id \in MemberIds
    BY MemberFields DEF MacInv
  <2> QED
    BY <1>2, <1>7, <2>1 DEF MacInv, Mac!RetiredIsGone, Mac!Members
<1>12. Mac!CutStaysCut'
  <2>1. cut \subseteq MemberIds
    BY <1>4 DEF MacTypes
  <2> QED
    BY <1>3, <1>7, <1>8, <2>1 DEF MacInv, Mac!CutStaysCut
<1>13. GoodList(members)' /\ OwnersInv'
  BY <1>2 DEF MacInv, GoodList, OwnersInv
<1> QED
  BY <1>9, <1>10, <1>11, <1>12, <1>13 DEF MacInv

\* Starting the stack of the active friends.
LEMMA StartStep ==
    ASSUME MacInv, NEW o \in Operators, Mac!ComposeUp(o)
    PROVE  MacInv'
<1> DEFINE active == Mac!Active(Mac!Known(o))
           ids == {m.id : m \in active}
           from == {"none", "stopped"}
           starting(id) == {m.email : m \in {a \in active :
                                a.id = id /\ \E s \in Services : containers'[id][s] = "running"}}
<1>1. /\ Mac!At(o, "up") /\ Mac!Compose(o, "up", ids, from, "running")
      /\ data' = [id \in MemberIds |-> data[id] \cup starting(id)]
  BY DEF Mac!ComposeUp
<1>2. /\ UNCHANGED <<members, broken, vm, agents, token, using, routes>>
      /\ \E reached \in SUBSET (ids \X Services) :
           /\ containers' = Reached(reached, from, "running")
           /\ IF reached = ids \X Services THEN Mac!Done(o) ELSE Mac!Failed(o)
           /\ cut' = (IF "running" = "running" THEN cut \ ids
                      ELSE IF reached = ids \X Services THEN cut \cup ids ELSE cut)
  <2> HIDE DEF ids, from, active
  <2> QED
    BY <1>1, ComposeMoves
<1>3. PICK reached \in SUBSET (ids \X Services) :
           /\ containers' = Reached(reached, from, "running")
           /\ IF reached = ids \X Services THEN Mac!Done(o) ELSE Mac!Failed(o)
           /\ cut' = cut \ ids
  <2> HIDE DEF ids, from, active
  <2> QED
    BY <1>2
<1>4. /\ MacTypes /\ CommandInv /\ GoodList(members) /\ command[o] \in Commands(members)
      /\ Mac!Known(o) = Mac!Members
  <2>1. /\ MacTypes /\ CommandInv /\ GoodList(members) /\ command[o] \in Commands(members)
    BY <1>1, OneTerminal DEF MacInv
  <2>2. command[o].settings = members
    BY <2>1, CommandFields
  <2> QED
    BY <2>1, <2>2 DEF Mac!Known, Mac!Members
<1>5. \A m \in active : /\ m.enabled /\ m.id \in MemberIds /\ m.email \in Emails
                        /\ \E i \in DOMAIN members : m = members[i]
  BY <1>4, MemberFields DEF Mac!Active
<1>6. ids \subseteq MemberIds
  BY <1>5
<1>7. \A m \in Mac!Members : ~m.enabled => m.id \notin ids /\ m.id \in MemberIds
  BY <1>4, MemberFields DEF Mac!Active
<1>8. \A id \in MemberIds, s \in Services : id \notin ids => containers'[id][s] = containers[id][s]
  <2>1. ASSUME NEW id \in MemberIds, NEW s \in Services, id \notin ids
        PROVE  containers'[id][s] = containers[id][s]
    <3>1. <<id, s>> \notin reached
      <4> HIDE DEF ids
      <4> QED
        BY <2>1
    <3> HIDE DEF ids, from
    <3> QED
      BY <1>3, <3>1, ReachedService
  <2> QED
    BY <2>1
<1>9. MacTypes'
  <2>1. containers' \in [MemberIds -> [Services -> {"none", "stopped", "running"}]]
    <3> HIDE DEF ids, from
    <3> QED
      BY <1>3, <1>4, ReachedTypes
  <2>2. data' \in [MemberIds -> SUBSET Emails]
    <3>1. \A id \in MemberIds : starting(id) \subseteq Emails
      BY <1>5
    <3> HIDE DEF starting
    <3> QED
      BY <1>1, <1>4, <3>1 DEF MacTypes
  <2>3. cut' \subseteq MemberIds
    BY <1>3, <1>4 DEF MacTypes
  <2> QED
    BY <1>2, <1>4, <2>1, <2>2, <2>3 DEF MacTypes
<1>10. CommandInv'
  <2>1. Mac!Done(o) \/ Mac!Failed(o)
    BY <1>3
  <2> QED
    BY <1>1, <1>2, <1>4, <2>1, QuietCommand
<1>11. Mac!RetiredIsGone'
  BY <1>2, <1>7, <1>8 DEF MacInv, Mac!RetiredIsGone, Mac!Members
<1>12. Mac!CutStaysCut'
  <2> HIDE DEF ids
  <2>1. cut \subseteq MemberIds
    BY <1>4 DEF MacTypes
  <2> QED
    BY <1>3, <1>8, <2>1 DEF MacInv, Mac!CutStaysCut
<1>13. OwnersInv'
  <2>1. \A id \in MemberIds : \A email \in starting(id) :
          \E i \in DOMAIN members : members[i].id = id /\ members[i].email = email
    BY <1>5
  <2> HIDE DEF starting
  <2>2. \A id \in MemberIds : data'[id] = data[id] \cup starting(id)
    BY <1>1
  <2> QED
    BY <1>2, <2>1, <2>2 DEF MacInv, OwnersInv
<1> QED
  BY <1>2, <1>4, <1>9, <1>10, <1>11, <1>12, <1>13 DEF MacInv, GoodList

-------------------------------------------------------------------------------
(* deployment.json *)

\* A new friend gets a free port, and is like nobody there was.
LEMMA AdmitStep ==
    ASSUME MacInv, NEW o \in Operators, Mac!Admit(o)
    PROVE  MacInv'
<1> DEFINE c == command[o]
           free == Mac!FreePorts(Mac!Known(o))
           port == CHOOSE p \in free : \A q \in free : p <= q
           new == [id |-> c.who, email |-> c.email, port |-> port, enabled |-> TRUE]
<1>1. /\ Mac!At(o, "admit") /\ c.who \notin {m.id : m \in Mac!Known(o)} /\ free # {}
      /\ Mac!Valid(Mac!Known(o) \cup {new})
      /\ Mac!Save(o, Append(c.settings, new))
      /\ routes' = (IF broken' THEN routes ELSE routes \cup {<<port, c.who>>})
      /\ UNCHANGED <<containers, vm, agents, token, using, data, cut>>
  BY DEF Mac!Admit
<1>2. /\ MacTypes /\ CommandInv /\ GoodList(members) /\ c \in Commands(members)
      /\ Head(c.steps) = "admit"
  BY <1>1, OneTerminal DEF MacInv
<1>3. /\ c.settings = members /\ c.who \in MemberIds /\ c.email \in Emails
      /\ Mac!Known(o) = Mac!Members
  <2>1. c.settings = members /\ c.who \in MemberIds /\ c.email \in Emails
    BY <1>2, CommandFields
  <2> QED
    BY <2>1 DEF Mac!Known, Mac!Members
<1>4. port \in Ports
  <2>1. free \subseteq Ports /\ free \subseteq Nat
    BY DeploymentAssumption DEF Mac!FreePorts
  <2> HIDE DEF free
  <2>2. \E p \in free : \A q \in free : p <= q
    BY <1>1, <2>1, LeastNatural
  <2> QED
    BY <2>1, <2>2
<1> HIDE DEF port, free
<1>5. new \in Mac!Member /\ new.id = c.who /\ new.enabled
  BY <1>3, <1>4 DEF Mac!Member
<1>6. \A m \in Mac!Members : /\ m.id # new.id
                             /\ m.email # new.email /\ m.port # new.port
  <2> HIDE DEF new
  <2>1. \A m \in Mac!Members : m.id # new.id
    BY <1>1, <1>3, <1>5
  <2>2. \A m, n \in Mac!Members \cup {new} :
          m # n => m.id # n.id /\ m.email # n.email /\ m.port # n.port
    BY <1>1, <1>3 DEF Mac!Valid
  <2> QED
    BY <2>1, <2>2
<1> HIDE DEF new
<1>7. CASE broken' = TRUE /\ Mac!Failed(o) /\ UNCHANGED members
  <2>1. CommandInv'
    BY <1>1, <1>2, <1>7, LastCommand
  <2>2. MacTypes'
    BY <1>1, <1>2, <1>7 DEF MacTypes
  <2>3. routes' = routes
    BY <1>1, <1>7
  <2> QED
    BY <1>1, <1>7, <2>1, <2>2, <2>3, NothingMoved
<1>8. CASE members' = Append(members, new) /\ Mac!Done(o) /\ UNCHANGED broken
  <2>1. CommandInv'
    BY <1>1, <1>2, <1>8, LastCommand
  <2>2. MacTypes'
    BY <1>1, <1>2, <1>8 DEF MacTypes
  <2>3. /\ members \in Seq(Mac!Member) /\ members' \in Seq(Mac!Member)
        /\ DOMAIN members' = DOMAIN members \cup {Len(members) + 1}
        /\ Len(members) + 1 \notin DOMAIN members
        /\ \A i \in DOMAIN members : members'[i] = members[i]
        /\ members'[Len(members) + 1] = new
    BY <1>2, <1>5, <1>8 DEF GoodList
  <2>4. \A i \in DOMAIN members : members[i] \in Mac!Members
    BY DEF Mac!Members
  <2>5. GoodList(members)'
    <3>1. ASSUME NEW i \in DOMAIN members', NEW j \in DOMAIN members',
                 members'[i].id = members'[j].id \/ members'[i].email = members'[j].email
                   \/ members'[i].port = members'[j].port
          PROVE  i = j
      <4>1. CASE i \in DOMAIN members /\ j \in DOMAIN members
        BY <1>2, <2>3, <3>1, <4>1 DEF GoodList
      <4>2. CASE i = Len(members) + 1 /\ j = Len(members) + 1
        BY <4>2
      <4>3. CASE i \in DOMAIN members /\ j = Len(members) + 1
        BY <1>6, <2>3, <2>4, <3>1, <4>3
      <4>4. CASE i = Len(members) + 1 /\ j \in DOMAIN members
        BY <1>6, <2>3, <2>4, <3>1, <4>4
      <4> QED
        BY <2>3, <4>1, <4>2, <4>3, <4>4
    <3> QED
      BY <2>3, <3>1 DEF GoodList
  <2>6. OwnersInv'
    <3>1. new.port = port /\ new.id = c.who
      BY <1>5 DEF new
    <3>2. \A r \in routes' : r \in routes \/ r = <<new.port, new.id>>
      BY <1>1, <3>1
    <3>3. \A r \in routes' : \E i \in DOMAIN members' : r = <<members'[i].port, members'[i].id>>
      BY <2>3, <3>2 DEF MacInv, OwnersInv
    <3>4. \A id \in MemberIds : \A email \in data'[id] :
            \E i \in DOMAIN members' : members'[i].id = id /\ members'[i].email = email
      BY <1>1, <2>3 DEF MacInv, OwnersInv
    <3> QED
      BY <3>3, <3>4 DEF OwnersInv
  <2>7. Mac!RetiredIsGone'
    <3>1. \A m \in Mac!Members' : m \in Mac!Members \/ m = new
      BY <2>3 DEF Mac!Members
    <3> QED
      BY <1>1, <1>5, <3>1 DEF MacInv, Mac!RetiredIsGone
  <2>8. Mac!CutStaysCut'
    BY <1>1 DEF MacInv, Mac!CutStaysCut
  <2> QED
    BY <2>1, <2>2, <2>5, <2>6, <2>7, <2>8 DEF MacInv
<1> QED
  BY <1>1, <1>3, <1>7, <1>8 DEF Mac!Save

\* A retired friend's services were removed before.
LEMMA RetireStep ==
    ASSUME MacInv, NEW o \in Operators, Mac!Retire(o)
    PROVE  MacInv'
<1> DEFINE c == command[o]
           retired == [i \in DOMAIN c.settings |->
                         IF c.settings[i].id = c.who
                         THEN [c.settings[i] EXCEPT !.enabled = FALSE] ELSE c.settings[i]]
<1>1. /\ Mac!At(o, "retire") /\ Mac!Save(o, retired)
      /\ UNCHANGED <<containers, vm, agents, token, using, routes, data, cut>>
  BY DEF Mac!Retire
<1>2. /\ MacTypes /\ CommandInv /\ GoodList(members) /\ c \in Commands(members)
      /\ Head(c.steps) = "retire"
  BY <1>1, OneTerminal DEF MacInv
<1>3. c.settings = members /\ c.who \in MemberIds /\ c.name = "remove" /\ c # Mac!Idle
  BY <1>2, CommandFields
<1>4. \A s \in Services : containers[c.who][s] = "none"
  BY <1>2, <1>3 DEF CommandInv, Cleared
<1>5. CASE broken' = TRUE /\ Mac!Failed(o) /\ UNCHANGED members
  <2>1. CommandInv'
    BY <1>1, <1>2, <1>5, LastCommand
  <2>2. MacTypes'
    BY <1>1, <1>2, <1>5 DEF MacTypes
  <2> QED
    BY <1>1, <1>5, <2>1, <2>2, NothingMoved
<1>6. CASE members' = retired /\ Mac!Done(o) /\ UNCHANGED broken
  <2>1. CommandInv'
    BY <1>1, <1>2, <1>6, LastCommand
  <2>2. MacTypes'
    BY <1>1, <1>2, <1>6 DEF MacTypes
  <2>3. members \in Seq(Mac!Member) /\ \A i \in DOMAIN members : members[i] \in Mac!Member
    BY <1>2 DEF GoodList
  <2>4. \A i \in DOMAIN members :
          /\ retired[i] \in Mac!Member
          /\ retired[i].id = members[i].id /\ retired[i].email = members[i].email
          /\ retired[i].port = members[i].port
          /\ retired[i].enabled = members[i].enabled \/ members[i].id = c.who
    <3>1. ASSUME NEW i \in DOMAIN members
          PROVE  /\ retired[i] \in Mac!Member
                 /\ retired[i].id = members[i].id /\ retired[i].email = members[i].email
                 /\ retired[i].port = members[i].port
                 /\ retired[i].enabled = members[i].enabled \/ members[i].id = c.who
      <4>1. members[i] \in Mac!Member
        BY <2>3
      <4>2. /\ [members[i] EXCEPT !.enabled = FALSE] \in Mac!Member
            /\ [members[i] EXCEPT !.enabled = FALSE].id = members[i].id
            /\ [members[i] EXCEPT !.enabled = FALSE].email = members[i].email
            /\ [members[i] EXCEPT !.enabled = FALSE].port = members[i].port
        BY <4>1 DEF Mac!Member
      <4>3. retired[i] = IF members[i].id = c.who
                         THEN [members[i] EXCEPT !.enabled = FALSE] ELSE members[i]
        BY <1>3
      <4> HIDE DEF retired, c
      <4> QED
        BY <4>1, <4>2, <4>3
    <3> QED
      BY <3>1
  <2>5. DOMAIN retired = DOMAIN members /\ retired \in Seq(Mac!Member)
    <3>1. DOMAIN retired = 1 .. Len(members) /\ DOMAIN members = 1 .. Len(members)
          /\ Len(members) \in Nat
      BY <1>3, <2>3
    <3>2. retired = [i \in DOMAIN members |-> retired[i]]
      BY <1>3
    <3> HIDE DEF retired
    <3> QED
      BY <2>4, <3>1, <3>2
  <2> HIDE DEF retired, c
  <2>6. GoodList(members)'
    BY <1>2, <1>6, <2>4, <2>5 DEF GoodList
  <2>7. OwnersInv'
    BY <1>1, <1>6, <2>4, <2>5 DEF MacInv, OwnersInv
  <2>8. Mac!RetiredIsGone'
    <3>1. \A i \in DOMAIN members : ~members[i].enabled =>
            \A s \in Services : containers[members[i].id][s] = "none"
      BY DEF MacInv, Mac!RetiredIsGone, Mac!Members
    <3>2. \A i \in DOMAIN members' : ~members'[i].enabled =>
            \A s \in Services : containers'[members'[i].id][s] = "none"
      BY <1>1, <1>4, <1>6, <2>4, <2>5, <3>1
    <3> QED
      BY <3>2 DEF Mac!RetiredIsGone, Mac!Members
  <2>9. Mac!CutStaysCut'
    BY <1>1 DEF MacInv, Mac!CutStaysCut
  <2> QED
    BY <2>1, <2>2, <2>6, <2>7, <2>8, <2>9 DEF MacInv
<1> QED
  BY <1>1, <1>5, <1>6 DEF Mac!Save

-------------------------------------------------------------------------------

LEMMA MacStep == MacInv /\ [Mac!Next]_deployVars => MacInv'
<1> SUFFICES ASSUME MacInv, [Mac!Next]_deployVars
             PROVE  MacInv'
  OBVIOUS
<1>1. CASE UNCHANGED deployVars
  BY <1>1 DEF deployVars, MacInv, MacTypes, GoodList, CommandInv, Cleared, OwnersInv,
              Mac!RetiredIsGone, Mac!CutStaysCut, Mac!Members
<1>2. CASE \E o \in Operators :
             \/ \E id \in MemberIds, email \in Emails : Mac!Begin(o, "add", id, email)
             \/ \E id \in MemberIds : Mac!Begin(o, "remove", id, "")
             \/ \E name \in {"start", "install", "stop", "token"} : Mac!Begin(o, name, "", "")
  <2>1. ASSUME NEW o \in Operators, NEW id \in MemberIds, NEW email \in Emails,
               Mac!Begin(o, "add", id, email)
        PROVE  MacInv'
    BY <2>1, BeginStep DEF CommandNames
  <2>2. ASSUME NEW o \in Operators, NEW id \in MemberIds, Mac!Begin(o, "remove", id, "")
        PROVE  MacInv'
    BY <2>2, BeginStep DEF CommandNames
  <2>3. ASSUME NEW o \in Operators, NEW name \in {"start", "install", "stop", "token"},
               Mac!Begin(o, name, "", "")
        PROVE  MacInv'
    BY <2>3, BeginStep DEF CommandNames
  <2> QED
    BY <1>2, <2>1, <2>2, <2>3
<1>3. ASSUME NEW o \in Operators,
             \/ Mac!Refuse(o) \/ Mac!Select(o) \/ Mac!Prepare(o) \/ Mac!VmUp(o) \/ Mac!VmDown(o)
             \/ Mac!NewToken(o)
             \/ \E agent \in {"colima", "tunnel"} : Mac!Unload(o, agent) \/ Mac!Load(o, agent)
      PROVE  MacInv'
  BY <1>3, QuietStep
<1>4. ASSUME NEW o \in Operators, Mac!ComposeStop(o) \/ Mac!ComposeRemove(o)
      PROVE  MacInv'
  BY <1>4, RemovalStep
<1>5. ASSUME NEW o \in Operators, Mac!ComposeUp(o)
      PROVE  MacInv'
  BY <1>5, StartStep
<1>6. ASSUME NEW o \in Operators, Mac!Admit(o)
      PROVE  MacInv'
  BY <1>6, AdmitStep
<1>7. ASSUME NEW o \in Operators, Mac!Retire(o)
      PROVE  MacInv'
  BY <1>7, RetireStep
<1>8. CASE Mac!Supervise \/ Mac!Reboot
  BY <1>8, RestartStep
<1>9. CASE Mac!Next
  BY <1>9, <1>2, <1>3, <1>4, <1>5, <1>6, <1>7, <1>8 DEF Mac!Next
<1> QED
  BY <1>1, <1>9

\* The invariant is what the runs check.
LEMMA MacSound ==
    ASSUME MacInv
    PROVE  Mac!DeployTypeOK /\ Mac!RetiredIsGone /\ Mac!NamespacesKept /\ Mac!CutStaysCut
<1>1. GoodList(members) /\ \A i \in DOMAIN members : members[i] \in Mac!Member
  BY DEF MacInv, GoodList
<1>2. \A r \in routes : \E i \in DOMAIN members : r = <<members[i].port, members[i].id>>
  BY DEF MacInv, OwnersInv
<1>3. Mac!DeployTypeOK
  <2>1. Mac!Members \subseteq Mac!Member
    BY <1>1 DEF Mac!Members
  <2>2. routes \subseteq Ports \X MemberIds
    BY <1>1, <1>2 DEF Mac!Member
  <2>3. \A o \in Operators : command[o] = Mac!Idle \/ command[o].name \in DOMAIN Mac!Steps
    <3>1. DOMAIN Mac!Steps = CommandNames
      BY DEF Mac!Steps, CommandNames
    <3> QED
      BY <3>1, CommandFields DEF MacInv, CommandInv
  <2> QED
    BY <2>1, <2>2, <2>3 DEF MacInv, MacTypes, Mac!DeployTypeOK
<1>4. \A id \in MemberIds : \A email, other \in data[id] : email = other
  BY <1>1 DEF MacInv, OwnersInv, GoodList
<1>5. \A r, q \in routes : r[1] = q[1] <=> r[2] = q[2]
  <2>1. ASSUME NEW r \in routes, NEW q \in routes
        PROVE  r[1] = q[1] <=> r[2] = q[2]
    <3>1. PICK i, j \in DOMAIN members : /\ r = <<members[i].port, members[i].id>>
                                         /\ q = <<members[j].port, members[j].id>>
      BY <1>2
    <3>2. /\ r[1] = members[i].port /\ r[2] = members[i].id
          /\ q[1] = members[j].port /\ q[2] = members[j].id
      BY <3>1
    <3>3. members[i].id = members[j].id \/ members[i].port = members[j].port => i = j
      BY <1>1 DEF GoodList
    <3> QED
      BY <3>2, <3>3
  <2> QED
    BY <2>1
<1> QED
  BY <1>3, <1>4, <1>5 DEF MacInv, Mac!NamespacesKept

\* DeploymentSound: mac.py retires a friend whose services are all gone, gives
\* a volume and a route to one person for good, and brings back what a removal
\* stopped only by start, wherever a command of the one terminal fails.
THEOREM DeploymentIsSound == AloneSpec => []DeploymentSound
<1> DEFINE Inv == part = "mac" => MacInv
<1>1. AloneInit => Inv
  BY DeployBegins DEF AloneInit
<1>2. Inv /\ [AloneNext]_<<part, vars, purchaseVars, pageVars, serverVars, installVars, deployVars>> => Inv'
  <2> SUFFICES ASSUME Inv, part' = "mac",
                      [AloneNext]_<<part, vars, purchaseVars, pageVars, serverVars, installVars, deployVars>>
               PROVE  MacInv'
    OBVIOUS
  <2>1. part = "mac" /\ [Mac!Next]_deployVars
    BY DEF AloneNext
  <2> QED
    BY <2>1, MacStep
<1>3. Inv => DeploymentSound
  BY MacSound DEF DeploymentSound
<1> QED
  BY <1>1, <1>2, <1>3, PTL DEF AloneSpec


-------------------------------------------------------------------------------
(* The server *)

People == Owners \cup {Nobody}

TaskRecords ==
    [tool : ToolNames \cup {""}, owner : People \cup {""}, parent : Calls \cup {""},
     stage : {"", "awaiting", "stepping", "fetching", "preparing"}, about : Nat \cup Listings]

\* What is under way: nothing, or a call of somebody.
TaskInv ==
    /\ tasks \in [Calls -> TaskRecords]
    /\ \A c \in Calls : tasks[c] = NoTask \/ (tasks[c].owner \in People /\ tasks[c].tool \in ToolNames)
    /\ \A c \in Calls : tasks[c].stage = "awaiting" => tasks[c].about = 0

\* A call that a workflow step makes is a calculation of the step's owner, and
\* the step waits for it.
FamilyInv ==
    \A d \in Calls : tasks[d].parent \in Calls =>
      /\ tasks[d].tool = "recalculate_build" /\ tasks[d].stage = "awaiting"
      /\ tasks[tasks[d].parent].stage = "stepping"
      /\ tasks[tasks[d].parent].owner = tasks[d].owner

\* A receipt somebody may be told of is theirs.
Told(id, owner) == id # 0 => id \in DOMAIN issued /\ issued[id] = owner

ToldInv ==
    /\ \A c \in Calls : tasks[c].stage = "stepping" => Told(tasks[c].about, tasks[c].owner)
    /\ Told(reply.receipt, reply.owner)

\* A handoff is under way for a signed-in owner and a listing of the search, and
\* what is prepared was offered.
OfferInv ==
    /\ search \in [alive : BOOLEAN, rows : [Listings -> {"unread", "gone", "listed"}]]
    /\ \A c \in Calls : tasks[c].stage \in {"fetching", "preparing"} =>
         tasks[c].owner \in Owners /\ tasks[c].about \in Listings
    /\ \A l \in Listings : search.rows[l] = "listed" => l \in offered
    /\ \A c \in Calls : tasks[c].stage = "preparing" => tasks[c].about \in offered
    /\ HandoffsAreOffered

KeptInv ==
    /\ issued \in Seq(People)
    /\ receipts \in Seq([id : Nat, owner : People, expiry : Nat, size : Sizes])
    /\ \A i \in DOMAIN receipts :
         receipts[i].id \in DOMAIN issued /\ receipts[i].owner = issued[receipts[i].id]
    /\ ReceiptsHeld

TraceInv ==
    /\ config \in ServerConfigs /\ serving \in {"no", "yes", "refused"}
    /\ failures \in 0 .. MaxFailures /\ clock \in Nat
    /\ error_traces \in Seq([tool : ToolNames \cup {"unknown"}, number : Nat])
    /\ TracesAreLatest

ServerInv == TaskInv /\ FamilyInv /\ ToldInv /\ OfferInv /\ KeptInv /\ TraceInv /\ AnswersArePublic

-------------------------------------------------------------------------------
(* The end of a call *)

LEMMA NoTaskFields ==
    /\ NoTask \in TaskRecords /\ NoTask.stage = "" /\ NoTask.parent = "" /\ NoTask.about = 0
    /\ NoTask.tool = "" /\ NoTask.owner = ""
BY DEF NoTask, TaskRecords

\* The two ways in which a call is answered.
Ends(c, task, text, raised, receipt) ==
    /\ tasks' = [d \in Calls |->
         IF d = c THEN NoTask
         ELSE IF d = task.parent THEN [tasks[d] EXCEPT !.about = receipt] ELSE tasks[d]]
    /\ reply' = [owner |-> task.owner, text |-> text, raised |-> raised, receipt |-> receipt]

Untraced == UNCHANGED <<error_traces, failures>>

Traced(task) ==
    /\ failures' = failures + 1
    /\ error_traces' = Latest(error_traces, [tool |-> TracedAs(task.tool), number |-> failures'])

Public(text, raised) ==
    text = "own" =>
      /\ raised.safe /\ raised.depth <= ChainLimit
      /\ raised.class \in {"WorkflowError", "EngineError", "TradeError", "BuildError", "CharacterError"}

\* No step waits for another, and none is answered before its own call.
InFamily(c, task) ==
    /\ \A d \in Calls : tasks[d].parent # c
    /\ task.parent \in Calls =>
         /\ task.parent # c /\ tasks[task.parent].owner = task.owner
         /\ tasks[task.parent].stage = "stepping"

ToldNext(receipt, owner) == receipt # 0 => receipt \in DOMAIN issued' /\ issued'[receipt] = owner

IssuedGrows == issued' = issued \/ (\E owner \in People : issued' = Append(issued, owner))

\* A child's answer reaches its parent, and nothing else changes but the call.
LEMMA AnswerTasks ==
    ASSUME TaskInv, NEW c \in Calls, NEW task, NEW receipt \in Nat,
           tasks' = [d \in Calls |->
             IF d = c THEN NoTask
             ELSE IF d = task.parent THEN [tasks[d] EXCEPT !.about = receipt] ELSE tasks[d]]
    PROVE  /\ tasks' \in [Calls -> TaskRecords] /\ tasks'[c] = NoTask
           /\ \A d \in Calls : d # c =>
                /\ tasks'[d].tool = tasks[d].tool /\ tasks'[d].owner = tasks[d].owner
                /\ tasks'[d].parent = tasks[d].parent /\ tasks'[d].stage = tasks[d].stage
                /\ d = task.parent \/ tasks'[d] = tasks[d]
                /\ d = task.parent => tasks'[d].about = receipt
<1> DEFINE told(d) == [tasks[d] EXCEPT !.about = receipt]
<1>1. \A d \in Calls : /\ told(d) \in TaskRecords
                       /\ told(d).tool = tasks[d].tool /\ told(d).owner = tasks[d].owner
                       /\ told(d).parent = tasks[d].parent /\ told(d).stage = tasks[d].stage
                       /\ told(d).about = receipt
  <2>1. ASSUME NEW d \in Calls
        PROVE  /\ told(d) \in TaskRecords
               /\ told(d).tool = tasks[d].tool /\ told(d).owner = tasks[d].owner
               /\ told(d).parent = tasks[d].parent /\ told(d).stage = tasks[d].stage
               /\ told(d).about = receipt
    <3>1. tasks[d] \in TaskRecords
      BY DEF TaskInv
    <3> QED
      BY <3>1 DEF TaskRecords
  <2> QED
    BY <2>1
<1>2. tasks' = [d \in Calls |-> IF d = c THEN NoTask ELSE IF d = task.parent THEN told(d) ELSE tasks[d]]
  OBVIOUS
<1>3. \A d \in Calls : tasks[d] \in TaskRecords
  BY DEF TaskInv
<1> HIDE DEF told
<1>4. \A d \in Calls : tasks'[d] = IF d = c THEN NoTask ELSE IF d = task.parent THEN told(d) ELSE tasks[d]
  BY <1>2
<1>5. tasks' \in [Calls -> TaskRecords]
  BY <1>1, <1>2, <1>3, NoTaskFields
<1> QED
  BY <1>1, <1>4, <1>5

\* Receipts are issued to somebody for good.
LEMMA ToldStays ==
    ASSUME KeptInv, IssuedGrows, NEW id, NEW owner, Told(id, owner)
    PROVE  id # 0 => id \in DOMAIN issued' /\ issued'[id] = owner
<1>1. issued \in Seq(People)
  BY DEF KeptInv
<1>2. \A i \in DOMAIN issued : i \in DOMAIN issued' /\ issued'[i] = issued[i]
  BY <1>1 DEF IssuedGrows
<1> QED
  BY <1>2 DEF Told

LEMMA LatestTraces ==
    ASSUME TraceInv, NEW trace \in [tool : ToolNames \cup {"unknown"}, number : Nat],
           trace.number = failures + 1, failures' = failures + 1, failures < MaxFailures,
           error_traces' = Latest(error_traces, trace), UNCHANGED <<config, serving, clock>>
    PROVE  TraceInv'
<1> DEFINE T == [tool : ToolNames \cup {"unknown"}, number : Nat]
           len == Len(error_traces)
<1>1. /\ error_traces \in Seq(T) /\ len \in Nat /\ failures \in Nat /\ TraceLimit \in Nat \ {0}
      /\ MaxFailures \in Nat /\ failures' \in 0 .. MaxFailures
      /\ len = (IF failures < TraceLimit THEN failures ELSE TraceLimit)
      /\ \A i \in DOMAIN error_traces : error_traces[i].number = failures - len + i
  <2>1. /\ error_traces \in Seq(T) /\ failures \in 0 .. MaxFailures /\ MaxFailures \in Nat
        /\ TraceLimit \in Nat \ {0} /\ TracesAreLatest
    BY ServerAssumption DEF TraceInv
  <2>2. failures \in Nat /\ failures + 1 \in 0 .. MaxFailures
    BY <2>1
  <2>3. len \in Nat
    BY <2>1
  <2>4. /\ len = (IF failures < TraceLimit THEN failures ELSE TraceLimit)
        /\ \A i \in DOMAIN error_traces : error_traces[i].number = failures - len + i
    BY <2>1 DEF TracesAreLatest
  <2> HIDE DEF T, len
  <2> QED
    BY <2>1, <2>2, <2>3, <2>4
<1> HIDE DEF T
<1>2. trace \in T
  BY DEF T
<1>3. CASE len < TraceLimit
  <2>1. error_traces' = Append(error_traces, trace) /\ len = failures
    BY <1>1, <1>3 DEF Latest
  <2>2. /\ error_traces' \in Seq(T) /\ Len(error_traces') = len + 1
        /\ \A i \in DOMAIN error_traces' : error_traces'[i].number = i
    BY <1>1, <1>2, <2>1
  <2>3. TracesAreLatest'
    BY <1>1, <1>3, <2>1, <2>2 DEF TracesAreLatest
  <2> QED
    BY <1>1, <2>2, <2>3 DEF TraceInv, T
<1>4. CASE ~(len < TraceLimit)
  <2>1. error_traces' = Append(Tail(error_traces), trace) /\ len = TraceLimit /\ TraceLimit <= failures
    BY <1>1, <1>4 DEF Latest
  <2>2. /\ Tail(error_traces) \in Seq(T) /\ Len(Tail(error_traces)) = len - 1
        /\ \A i \in 1 .. len - 1 : Tail(error_traces)[i] = error_traces[i + 1]
    BY <1>1, <2>1
  <2>3. /\ error_traces' \in Seq(T) /\ Len(error_traces') = len
        /\ \A i \in 1 .. len - 1 : error_traces'[i] = error_traces[i + 1]
        /\ error_traces'[len] = trace
    BY <1>1, <1>2, <2>1, <2>2
  <2>4. \A i \in DOMAIN error_traces' : error_traces'[i].number = failures + 1 - len + i
    <3>1. ASSUME NEW i \in DOMAIN error_traces'
          PROVE  error_traces'[i].number = failures + 1 - len + i
      <4>1. i \in 1 .. len
        BY <2>3
      <4>2. CASE i = len
        BY <1>1, <2>3, <4>2
      <4>3. CASE i # len
        <5>1. i \in 1 .. len - 1 /\ i + 1 \in DOMAIN error_traces
          BY <1>1, <4>1, <4>3
        <5>2. error_traces[i + 1].number = failures - len + (i + 1)
          BY <1>1, <5>1
        <5>3. error_traces'[i].number = failures - len + (i + 1)
          BY <2>3, <5>1, <5>2
        <5>4. i \in Int /\ len \in Int /\ failures \in Int
          BY <1>1, <5>1
        <5> HIDE DEF len
        <5> QED
          BY <5>3, <5>4
      <4> QED
        BY <4>2, <4>3
    <3> QED
      BY <3>1
  <2>5. TracesAreLatest'
    BY <1>1, <2>1, <2>3, <2>4 DEF TracesAreLatest
  <2> QED
    BY <1>1, <2>3, <2>5 DEF TraceInv, T
<1> QED
  BY <1>3, <1>4

\* What a call that ends may say: a receipt of its owner's, to its owner or, from a
\* workflow step's own call, to the step; a text of its own only when it is public.
LEMMA AnswerKeeps ==
    ASSUME ServerInv, NEW c \in Calls, NEW task, NEW text, NEW raised, NEW receipt \in Nat,
           Ends(c, task, text, raised, receipt),
           Untraced \/ (Traced(task) /\ failures < MaxFailures),
           task.tool \in ToolNames, task.owner \in People,
           InFamily(c, task), ToldNext(receipt, task.owner), IssuedGrows, Public(text, raised),
           UNCHANGED <<config, serving, clock>>
    PROVE  /\ TaskInv' /\ FamilyInv' /\ ToldInv' /\ TraceInv' /\ AnswersArePublic'
           /\ \A d \in Calls : tasks'[d].stage \in {"fetching", "preparing"} =>
                tasks'[d] = tasks[d]
<1>1. TaskInv /\ FamilyInv /\ ToldInv /\ OfferInv /\ KeptInv /\ TraceInv
  BY DEF ServerInv
<1>2. /\ tasks' \in [Calls -> TaskRecords] /\ tasks'[c] = NoTask
      /\ \A d \in Calls : d # c =>
           /\ tasks'[d].tool = tasks[d].tool /\ tasks'[d].owner = tasks[d].owner
           /\ tasks'[d].parent = tasks[d].parent /\ tasks'[d].stage = tasks[d].stage
           /\ d = task.parent \/ tasks'[d] = tasks[d]
           /\ d = task.parent => tasks'[d].about = receipt
  BY <1>1, AnswerTasks DEF Ends
<1>3. reply' = [owner |-> task.owner, text |-> text, raised |-> raised, receipt |-> receipt]
  BY DEF Ends
<1>4. TaskInv'
  <2>1. ASSUME NEW d \in Calls
        PROVE  /\ tasks'[d] = NoTask \/ (tasks'[d].owner \in People /\ tasks'[d].tool \in ToolNames)
               /\ tasks'[d].stage = "awaiting" => tasks'[d].about = 0
    <3>1. CASE d = c
      BY <1>2, <3>1, NoTaskFields
    <3>2. CASE d # c /\ d = task.parent
      <4>1. /\ tasks'[d].owner = task.owner /\ tasks'[d].stage = "stepping"
            /\ tasks'[d].tool = tasks[d].tool /\ tasks[d].stage = "stepping"
        BY <1>2, <3>2 DEF InFamily
      <4>2. tasks[d] # NoTask
        BY <4>1, NoTaskFields
      <4> QED
        BY <1>1, <4>1, <4>2 DEF TaskInv
    <3>3. CASE d # c /\ d # task.parent
      <4>1. tasks'[d] = tasks[d]
        BY <1>2, <3>3
      <4> QED
        BY <1>1, <4>1 DEF TaskInv
    <3> QED
      BY <3>1, <3>2, <3>3
  <2> QED
    BY <1>2, <2>1 DEF TaskInv
<1>5. FamilyInv'
  <2>1. ASSUME NEW d \in Calls, tasks'[d].parent \in Calls
        PROVE  /\ tasks'[d].tool = "recalculate_build" /\ tasks'[d].stage = "awaiting"
               /\ tasks'[tasks'[d].parent].stage = "stepping"
               /\ tasks'[tasks'[d].parent].owner = tasks'[d].owner
    <3>1. d # c /\ tasks'[d].parent = tasks[d].parent /\ tasks[d].parent # c
      BY <1>2, <2>1, NoTaskFields, ServerAssumption DEF InFamily
    <3> QED
      BY <1>1, <1>2, <2>1, <3>1 DEF FamilyInv
  <2> QED
    BY <2>1 DEF FamilyInv
<1>6. ToldInv'
  <2>1. Told(reply.receipt, reply.owner)'
    BY <1>3 DEF Told, ToldNext
  <2>2. ASSUME NEW d \in Calls, tasks'[d].stage = "stepping"
        PROVE  Told(tasks[d].about, tasks[d].owner)'
    <3>1. d # c
      BY <1>2, <2>2, NoTaskFields
    <3>2. CASE d = task.parent
      BY <1>2, <3>1, <3>2 DEF Told, ToldNext, InFamily
    <3>3. CASE d # task.parent
      <4>1. tasks'[d] = tasks[d] /\ Told(tasks[d].about, tasks[d].owner)
        BY <1>1, <1>2, <2>2, <3>1, <3>3 DEF ToldInv
      <4> QED
        BY <1>1, <4>1, ToldStays DEF Told
    <3> QED
      BY <3>2, <3>3
  <2> QED
    BY <2>1, <2>2 DEF ToldInv
<1>7. TraceInv'
  <2>1. CASE Traced(task) /\ failures < MaxFailures
    <3> DEFINE trace == [tool |-> TracedAs(task.tool), number |-> failures']
    <3>1. failures' = failures + 1 /\ error_traces' = Latest(error_traces, trace)
      BY <2>1 DEF Traced
    <3>2. trace \in [tool : ToolNames \cup {"unknown"}, number : Nat] /\ trace.number = failures + 1
      <4>1. failures \in Nat
        <5>1. failures \in 0 .. MaxFailures /\ MaxFailures \in Nat
          BY <1>1, ServerAssumption DEF TraceInv
        <5> QED
          BY <5>1
      <4> QED
        BY <3>1, <4>1 DEF TracedAs
    <3> HIDE DEF trace
    <3> QED
      BY <1>1, <2>1, <3>1, <3>2, LatestTraces
  <2>2. CASE Untraced
    BY <1>1, <2>2 DEF Untraced, TraceInv, TracesAreLatest
  <2> QED
    BY <2>1, <2>2
<1>8. AnswersArePublic'
  BY <1>3 DEF AnswersArePublic, Public
<1>9. \A d \in Calls : tasks'[d].stage \in {"fetching", "preparing"} => tasks'[d] = tasks[d]
  <2>1. ASSUME NEW d \in Calls, tasks'[d].stage \in {"fetching", "preparing"}
        PROVE  tasks'[d] = tasks[d]
    <3>1. d # c
      BY <1>2, <2>1, NoTaskFields
    <3>2. d # task.parent
      BY <1>2, <2>1, <3>1 DEF InFamily
    <3> QED
      BY <1>2, <3>1, <3>2
  <2> QED
    BY <2>1
<1> QED
  BY <1>4, <1>5, <1>6, <1>7, <1>8, <1>9

\* Nothing was read and nothing handed over.
LEMMA OfferStays ==
    ASSUME OfferInv, UNCHANGED <<search, offered, handoffs>>,
           \A d \in Calls : tasks'[d].stage \in {"fetching", "preparing"} => tasks'[d] = tasks[d]
    PROVE  OfferInv'
BY DEF OfferInv, HandoffsAreOffered

LEMMA KeptStays ==
    ASSUME KeptInv, UNCHANGED <<issued, receipts>>
    PROVE  KeptInv'
BY DEF KeptInv, ReceiptsHeld

\* The fixed texts are none of a handler's own.
LEMMA FixedTexts ==
    ASSUME NEW tool
    PROVE  Refusal(tool) # "own" /\ Fallback(tool) # "own"
BY DEF Refusal, Fallback

LEMMA FreeCall ==
    ASSUME ServerInv, NEW c \in Calls, Free(c)
    PROVE  tasks[c] = NoTask /\ failures < MaxFailures /\ \A d \in Calls : tasks[d].parent # c
BY NoTaskFields DEF Free, ServerInv, FamilyInv

LEMMA GoodEnds ==
    ASSUME NEW c, NEW task, NEW text, NEW receipt, Good(c, task, text, receipt)
    PROVE  Ends(c, task, text, "", receipt) /\ Untraced
BY DEF Good, Answer, Ends, Untraced

LEMMA BadEnds ==
    ASSUME NEW c, NEW task, NEW text, Bad(c, task, text)
    PROVE  Ends(c, task, text, "", 0) /\ Traced(task)
BY DEF Bad, Answer, Ends, Traced

\* What a handler raises is shown when it is public.
LEMMA ThrownEnds ==
    ASSUME NEW c, NEW task, NEW raised, Thrown(c, task, raised)
    PROVE  \E text, shown : /\ Ends(c, task, text, shown, 0) /\ Traced(task)
                            /\ Public(text, shown)
<1>1. CASE Shown(task.tool, raised)
  <2>1. raised.class \in {"WorkflowError", "EngineError", "TradeError", "BuildError", "CharacterError"}
    BY <1>1 DEF Shown, PublicClasses
  <2>2. Ends(c, task, "own", raised, 0) /\ Traced(task)
    BY <1>1 DEF Thrown, Answer, Ends, Traced
  <2> QED
    BY <1>1, <2>1, <2>2 DEF Shown, Public
<1>2. CASE ~Shown(task.tool, raised)
  <2>1. Ends(c, task, Fallback(task.tool), "", 0) /\ Traced(task)
    BY <1>2, BadEnds DEF Thrown
  <2>2. Public(Fallback(task.tool), "")
    BY FixedTexts DEF Public
  <2> QED
    BY <2>1, <2>2
<1> QED
  BY <1>1, <1>2

-------------------------------------------------------------------------------
(* Receipts *)

Receipts == [id : Nat, owner : People, expiry : Nat, size : Sizes]

LEMMA NewestEntries ==
    ASSUME NEW T, NEW list \in Seq(T), NEW len \in Nat, len = Len(list), NEW n \in 0 .. len
    PROVE  LET short == SubSeq(list, n + 1, len)
           IN  /\ short \in Seq(T) /\ Len(short) = len - n
               /\ \A i \in 1 .. len - n : short[i] = list[n + i]
<1> DEFINE short == SubSeq(list, n + 1, len)
<1>1. /\ \A i \in n + 1 .. len : list[i] \in T
      /\ n + 1 \in Int /\ len \in Int /\ n \in Nat /\ n <= len
  OBVIOUS
<1>2. /\ short \in Seq(T)
      /\ Len(short) = IF n + 1 <= len THEN len - (n + 1) + 1 ELSE 0
      /\ \A i \in 1 .. len - (n + 1) + 1 : short[i] = list[n + 1 + i - 1]
  BY <1>1, SubSeqProperties
<1> HIDE DEF short
<1>3. Len(short) = len - n
  BY <1>1, <1>2
<1>4. ASSUME NEW i \in 1 .. len - n
      PROVE  short[i] = list[n + i]
  <2>1. i \in 1 .. len - (n + 1) + 1 /\ n + 1 + i - 1 = n + i
    BY <1>1
  <2> QED
    BY <1>2, <2>1
<1> QED
  BY <1>2, <1>3, <1>4 DEF short

LEMMA OneFits ==
    ASSUME NEW rows, Len(rows) = 1
    PROVE  Fits(rows)
<1>1. Capacity \in Nat /\ Capacity # 0
  BY ServerAssumption
<1>2. 1 <= Capacity /\ ~(1 > 1)
  BY <1>1
<1> QED
  BY <1>2 DEF Fits

\* The newest receipt fits by itself, so it is never given up for room.
LEMMA RetainedKeeps ==
    ASSUME KeptInv, NEW row \in Receipts, row.id = Len(issued) + 1,
           issued' = Append(issued, row.owner), receipts' = Retained(row)
    PROVE  KeptInv'
<1> DEFINE alive == {i \in DOMAIN receipts : ~Expired(receipts[i])}
           live == Picked(receipts, alive)
           all == Append(live, row)
           newest(n) == SubSeq(all, n + 1, Len(all))
           good == {n \in 0 .. Len(all) : Fits(newest(n))}
           kept == CHOOSE n \in 0 .. Len(all) : Fits(newest(n)) /\ \A m \in 0 .. (n - 1) : ~Fits(newest(m))
<1>1. /\ issued \in Seq(People) /\ receipts \in Seq(Receipts) /\ row.owner \in People
      /\ \A i \in DOMAIN receipts :
           receipts[i].id \in DOMAIN issued /\ receipts[i].owner = issued[receipts[i].id]
  BY DEF KeptInv, Receipts
<1>2. /\ issued' \in Seq(People) /\ Len(issued') = Len(issued) + 1 /\ Len(issued) \in Nat
      /\ \A i \in DOMAIN issued : i \in DOMAIN issued' /\ issued'[i] = issued[i]
      /\ Len(issued) + 1 \in DOMAIN issued' /\ issued'[Len(issued) + 1] = row.owner
  BY <1>1
<1>3. /\ live \in Seq(Receipts)
      /\ \A i \in DOMAIN live : \E j \in DOMAIN receipts : live[i] = receipts[j]
  <2> HIDE DEF alive
  <2>1. LET places == Places(Len(receipts), alive)
        IN  /\ live \in Seq(Receipts)
            /\ \A i \in DOMAIN live : places[i] \in DOMAIN receipts /\ live[i] = receipts[places[i]]
    BY <1>1, PickedEntries
  <2> QED
    BY <2>1
<1> HIDE DEF live
<1>4. /\ all \in Seq(Receipts) /\ Len(all) \in Nat \ {0} /\ all[Len(all)] = row
      /\ DOMAIN all = 1 .. Len(all)
      /\ \A i \in 1 .. Len(all) - 1 : i \in DOMAIN live /\ all[i] = live[i]
  BY <1>3
<1>5. \A i \in DOMAIN all : all[i].id \in DOMAIN issued' /\ all[i].owner = issued'[all[i].id]
  <2>1. ASSUME NEW i \in DOMAIN all
        PROVE  all[i].id \in DOMAIN issued' /\ all[i].owner = issued'[all[i].id]
    <3>1. CASE i = Len(all)
      BY <1>2, <1>4, <3>1
    <3>2. CASE i # Len(all)
      <4>1. i \in 1 .. Len(all) - 1
        BY <1>4, <3>2
      <4>2. PICK j \in DOMAIN receipts : all[i] = receipts[j]
        BY <1>3, <1>4, <4>1
      <4> QED
        BY <1>1, <1>2, <4>2
    <3> QED
      BY <3>1, <3>2
  <2> QED
    BY <2>1
<1> HIDE DEF all
<1>6. ASSUME NEW n \in 0 .. Len(all)
      PROVE  /\ newest(n) \in Seq(Receipts) /\ Len(newest(n)) = Len(all) - n
             /\ \A i \in 1 .. Len(all) - n : newest(n)[i] = all[n + i]
  BY <1>4, NewestEntries
<1> HIDE DEF newest
<1>7. Len(all) - 1 \in good
  <2>1. Len(all) - 1 \in 0 .. Len(all) /\ Len(all) - (Len(all) - 1) = 1
    BY <1>4
  <2>2. Len(newest(Len(all) - 1)) = 1
    BY <1>6, <2>1
  <2>3. Fits(newest(Len(all) - 1))
    BY <2>2, OneFits
  <2> QED
    BY <2>1, <2>3
<1>8. PICK n \in good : \A m \in good : n <= m
  <2>1. good \in SUBSET Nat /\ good # {}
    BY <1>4, <1>7
  <2> HIDE DEF good
  <2> QED
    BY <2>1, LeastNatural
<1>9. /\ kept \in 0 .. Len(all) /\ Fits(newest(kept))
      /\ \A m \in 0 .. (kept - 1) : ~Fits(newest(m))
  <2>1. n \in 0 .. Len(all) /\ Fits(newest(n)) /\ \A m \in 0 .. (n - 1) : ~Fits(newest(m))
    <3>1. n \in 0 .. Len(all) /\ Fits(newest(n))
      BY <1>8
    <3>2. ASSUME NEW m \in 0 .. (n - 1) PROVE ~Fits(newest(m))
      <4>1. m \in 0 .. Len(all) /\ ~(n <= m)
        BY <1>4, <3>1
      <4> QED
        BY <1>8, <4>1
    <3> QED
      BY <3>1, <3>2
  <2> QED
    BY <2>1
<1>10. kept <= Len(all) - 1
  BY <1>4, <1>7, <1>9
<1>11. receipts' = newest(kept)
  BY DEF Retained, newest, all, live
<1> HIDE DEF kept, good
<1>12. /\ receipts' \in Seq(Receipts) /\ Len(receipts') = Len(all) - kept /\ Len(all) - kept \in Nat \ {0}
       /\ \A i \in DOMAIN receipts' : kept + i \in DOMAIN all /\ receipts'[i] = all[kept + i]
  <2>1. receipts' \in Seq(Receipts) /\ Len(receipts') = Len(all) - kept /\ Len(all) - kept \in Nat \ {0}
    <3>1. receipts' \in Seq(Receipts) /\ Len(receipts') = Len(all) - kept
      BY <1>6, <1>9, <1>11
    <3>2. Len(all) - kept \in Nat \ {0}
      <4>1. kept \in Nat /\ kept <= Len(all) - 1 /\ Len(all) \in Nat
        BY <1>4, <1>9, <1>10
      <4> QED
        BY <4>1
    <3> QED
      BY <3>1, <3>2
  <2>2. DOMAIN receipts' = 1 .. Len(all) - kept
    BY <2>1
  <2>3. \A i \in 1 .. Len(all) - kept : receipts'[i] = all[kept + i]
    BY <1>6, <1>9, <1>11
  <2>4. \A i \in 1 .. Len(all) - kept : kept + i \in 1 .. Len(all)
    BY <1>4, <1>9, <1>10
  <2> QED
    BY <1>4, <2>1, <2>2, <2>3, <2>4
<1>13. receipts' # << >> /\ Last(receipts').id = Len(issued')
  <2>1. Len(receipts') \in DOMAIN receipts' /\ kept + Len(receipts') = Len(all)
    <3>1. kept \in Int /\ Len(all) \in Int
      BY <1>4, <1>9
    <3>2. kept + (Len(all) - kept) = Len(all)
      BY <3>1
    <3>3. DOMAIN receipts' = 1 .. Len(receipts') /\ Len(receipts') \in Nat \ {0}
      BY <1>12
    <3> QED
      BY <1>12, <3>2, <3>3
  <2>2. Last(receipts') = row
    BY <1>4, <1>12, <2>1 DEF Last
  <2> QED
    BY <1>2, <1>12, <2>2
<1>14. ReceiptsHeld'
  <2>1. Len(receipts') <= Capacity /\ (Len(receipts') > 1 => TotalSize(receipts') <= SizeLimit)
    BY <1>9, <1>11 DEF Fits
  <2>2. (TotalSize(receipts) <= SizeLimit)' <=> TotalSize(receipts') <= SizeLimit
    BY DEF TotalSize
  <2> QED
    BY <1>13, <2>1, <2>2 DEF ReceiptsHeld
<1> QED
  BY <1>2, <1>5, <1>12, <1>14 DEF KeptInv, Receipts

-------------------------------------------------------------------------------
(* Every step of the server *)

\* A call ends and nothing is handed over.
LEMMA EndsQuietly ==
    ASSUME ServerInv, NEW c \in Calls, NEW task, NEW text, NEW raised, NEW receipt \in Nat,
           Ends(c, task, text, raised, receipt),
           Untraced \/ (Traced(task) /\ failures < MaxFailures),
           task.tool \in ToolNames, task.owner \in People,
           InFamily(c, task), ToldNext(receipt, task.owner), IssuedGrows, Public(text, raised), KeptInv',
           UNCHANGED <<config, serving, clock, search, offered, handoffs>>
    PROVE  ServerInv'
<1>1. /\ TaskInv' /\ FamilyInv' /\ ToldInv' /\ TraceInv' /\ AnswersArePublic'
      /\ \A d \in Calls : tasks'[d].stage \in {"fetching", "preparing"} => tasks'[d] = tasks[d]
  BY AnswerKeeps
<1>2. OfferInv'
  BY <1>1, OfferStays DEF ServerInv
<1> QED
  BY <1>1, <1>2 DEF ServerInv

\* A call whose handler never awaits.
LEMMA EndsAtOnce ==
    ASSUME ServerInv, NEW c \in Calls, NEW tool \in ToolNames, NEW owner \in People, NEW about,
           NEW stage, NEW text, NEW raised, NEW receipt \in Nat, Free(c),
           Ends(c, Task(tool, owner, "", stage, about), text, raised, receipt),
           Untraced \/ Traced(Task(tool, owner, "", stage, about)),
           Told(receipt, owner), Public(text, raised),
           UNCHANGED <<config, serving, clock, search, offered, handoffs, issued, receipts>>
    PROVE  ServerInv'
<1> DEFINE task == Task(tool, owner, "", stage, about)
<1>1. task.tool = tool /\ task.owner = owner /\ task.parent = ""
  BY DEF Task
<1> HIDE DEF task
<1>2. failures < MaxFailures /\ InFamily(c, task)
  BY <1>1, FreeCall, ServerAssumption DEF InFamily
<1>3. IssuedGrows /\ ToldNext(receipt, task.owner) /\ KeptInv'
  BY <1>1, KeptStays DEF IssuedGrows, Told, ToldNext, ServerInv
<1>4. Ends(c, task, text, raised, receipt) /\ (Untraced \/ Traced(task))
  BY DEF task
<1> QED
  BY <1>1, <1>2, <1>3, <1>4, EndsQuietly

\* A call under way that makes no other call.
LEMMA RunningCall ==
    ASSUME ServerInv, NEW c \in Calls, tasks[c].stage # "",
           tasks[c].stage # "stepping" \/ (\A d \in Calls : tasks[d].parent # c)
    PROVE  /\ tasks[c] \in TaskRecords /\ tasks[c].tool \in ToolNames /\ tasks[c].owner \in People
           /\ InFamily(c, tasks[c])
<1>1. TaskInv /\ FamilyInv
  BY DEF ServerInv
<1>2. tasks[c] # NoTask
  BY NoTaskFields
<1>3. tasks[c] \in TaskRecords /\ tasks[c].tool \in ToolNames /\ tasks[c].owner \in People
  BY <1>1, <1>2 DEF TaskInv
<1>4. \A d \in Calls : tasks[d].parent # c
  BY <1>1 DEF FamilyInv
<1>5. tasks[c].parent \in Calls =>
        /\ tasks[c].parent # c /\ tasks[tasks[c].parent].owner = tasks[c].owner
        /\ tasks[tasks[c].parent].stage = "stepping"
  BY <1>1, <1>4 DEF FamilyInv
<1> QED
  BY <1>3, <1>4, <1>5 DEF InFamily

LEMMA RefuseStep ==
    ASSUME ServerInv, NEW c \in Calls, NEW tool \in ToolNames, NEW owner \in People,
           Refuse(c, tool, owner)
    PROVE  ServerInv'
<1>1. PICK text \in {Refusal(tool), Fallback(tool)} : Bad(c, Task(tool, owner, "", "", 0), text)
  BY DEF Refuse
<1>2. Free(c) /\ UNCHANGED <<config, serving, receipts, search, offered, handoffs, issued, clock>>
  BY DEF Refuse
<1>3. /\ Ends(c, Task(tool, owner, "", "", 0), text, "", 0)
      /\ Traced(Task(tool, owner, "", "", 0))
  BY <1>1, BadEnds
<1>4. Public(text, "") /\ Told(0, owner)
  BY <1>1, FixedTexts DEF Public, Told
<1> QED
  BY <1>2, <1>3, <1>4, EndsAtOnce

LEMMA ReadStep ==
    ASSUME ServerInv, NEW c \in Calls, NEW tool \in ToolNames, NEW owner \in People,
           NEW id \in 0 .. MaxIssued, Read(c, tool, owner, id)
    PROVE  ServerInv'
<1> DEFINE task == Task(tool, owner, "", "", id)
           rows == {r \in Range(receipts) : r.id = id /\ Readable(r, owner)}
           raised == [class |-> "EngineError", safe |-> TRUE, depth |-> 2]
<1>1. Free(c) /\ UNCHANGED <<config, serving, receipts, search, offered, handoffs, issued, clock>>
  BY DEF Read
<1>2. \/ id = 0 /\ Good(c, task, "ok", 0)
      \/ rows # {} /\ Good(c, task, "ok", id)
      \/ Thrown(c, task, raised)
  BY DEF Read
<1>3. Public("ok", "") /\ Told(0, owner)
  BY DEF Public, Told
<1>4. CASE id = 0 /\ Good(c, task, "ok", 0)
  <2>1. Ends(c, task, "ok", "", 0) /\ Untraced
    BY <1>4, GoodEnds
  <2> QED
    BY <1>1, <1>3, <2>1, EndsAtOnce
<1>5. CASE rows # {} /\ Good(c, task, "ok", id)
  <2>1. Ends(c, task, "ok", "", id) /\ Untraced
    BY <1>5, GoodEnds
  <2>2. PICK i \in DOMAIN receipts : receipts[i].id = id /\ receipts[i].owner = owner
    BY <1>5 DEF Range, Readable
  <2>3. id \in DOMAIN issued /\ issued[id] = owner /\ issued \in Seq(People)
    BY <2>2 DEF ServerInv, KeptInv
  <2>4. Told(id, owner) /\ id \in Nat
    BY <2>3 DEF Told
  <2> QED
    BY <1>1, <1>3, <2>1, <2>4, EndsAtOnce
<1>6. CASE Thrown(c, task, raised)
  <2>1. PICK text, shown : Ends(c, task, text, shown, 0) /\ Traced(task) /\ Public(text, shown)
    BY <1>6, ThrownEnds
  <2> QED
    BY <1>1, <1>3, <2>1, EndsAtOnce
<1> QED
  BY <1>2, <1>4, <1>5, <1>6

\* A call begins to await something.
LEMMA EnterKeeps ==
    ASSUME ServerInv, NEW c \in Calls, Free(c), NEW t \in TaskRecords,
           t.tool \in ToolNames, t.owner \in People, t.parent = "",
           \/ t.stage = "awaiting" /\ t.about = 0
           \/ /\ t.stage \in {"fetching", "preparing"} /\ t.owner \in Owners /\ t.about \in Listings
              /\ t.stage = "preparing" => t.about \in offered,
           tasks' = [tasks EXCEPT ![c] = t],
           UNCHANGED <<config, serving, reply, error_traces, receipts, search, offered, handoffs, issued, failures, clock>>
    PROVE  ServerInv'
<1>1. TaskInv /\ FamilyInv /\ ToldInv /\ OfferInv /\ KeptInv /\ TraceInv /\ AnswersArePublic
  BY DEF ServerInv
<1>2. /\ tasks \in [Calls -> TaskRecords] /\ tasks[c] = NoTask
      /\ \A d \in Calls : tasks[d].parent # c
  BY <1>1, FreeCall DEF TaskInv
<1>3. /\ tasks' \in [Calls -> TaskRecords] /\ tasks'[c] = t
      /\ \A d \in Calls : d # c => tasks'[d] = tasks[d]
  BY <1>2
<1>4. TaskInv'
  BY <1>1, <1>3 DEF TaskInv
<1>5. FamilyInv'
  <2>1. ASSUME NEW d \in Calls, tasks'[d].parent \in Calls
        PROVE  /\ tasks'[d].tool = "recalculate_build" /\ tasks'[d].stage = "awaiting"
               /\ tasks'[tasks'[d].parent].stage = "stepping"
               /\ tasks'[tasks'[d].parent].owner = tasks'[d].owner
    <3>1. d # c
      BY <1>3, <2>1, ServerAssumption
    <3> QED
      BY <1>1, <1>2, <1>3, <2>1, <3>1 DEF FamilyInv
  <2> QED
    BY <2>1 DEF FamilyInv
<1>6. ToldInv'
  BY <1>1, <1>3 DEF ToldInv, Told
<1>7. OfferInv'
  BY <1>1, <1>3 DEF OfferInv, HandoffsAreOffered
<1>8. KeptInv' /\ TraceInv' /\ AnswersArePublic'
  BY <1>1, KeptStays DEF TraceInv, TracesAreLatest, AnswersArePublic
<1> QED
  BY <1>4, <1>5, <1>6, <1>7, <1>8 DEF ServerInv

LEMMA EnterStep ==
    ASSUME ServerInv, NEW c \in Calls, NEW tool \in ToolNames, NEW owner \in People,
           Enter(c, tool, owner)
    PROVE  ServerInv'
<1> DEFINE t == Task(tool, owner, "", "awaiting", 0)
<1>1. /\ t \in TaskRecords /\ t.tool = tool /\ t.owner = owner /\ t.parent = ""
      /\ t.stage = "awaiting" /\ t.about = 0
  BY DEF Task, TaskRecords
<1>2. /\ Free(c) /\ tasks' = [tasks EXCEPT ![c] = t]
      /\ UNCHANGED <<config, serving, reply, error_traces, receipts, search, offered, handoffs, issued, failures, clock>>
  BY DEF Enter
<1> HIDE DEF t
<1> QED
  BY <1>1, <1>2, EnterKeeps

LEMMA TravelStep ==
    ASSUME ServerInv, NEW c \in Calls, NEW owner \in People, NEW listing \in Listings,
           Travel(c, owner, listing)
    PROVE  ServerInv'
<1> DEFINE stage == IF search.rows[listing] = "listed" THEN "preparing" ELSE "fetching"
           t == Task("prepare_hideout_travel", owner, "", stage, listing)
<1>0. "prepare_hideout_travel" \in ToolNames
  BY DEF ToolNames, AccountTools
<1>1. /\ t \in TaskRecords /\ t.tool = "prepare_hideout_travel" /\ t.owner = owner /\ t.parent = ""
      /\ t.stage = stage /\ t.about = listing
  BY <1>0 DEF Task, TaskRecords
<1>2. Free(c) /\ UNCHANGED <<config, serving, receipts, search, offered, handoffs, issued, clock>>
  BY DEF Travel
<1>3. \/ \E status \in {"authentication_required", "search_unavailable", "listing_unavailable"} :
           Good(c, t, status, 0)
      \/ /\ owner # Nobody /\ tasks' = [tasks EXCEPT ![c] = t]
         /\ UNCHANGED <<reply, error_traces, failures>>
  BY DEF Travel
<1>4. ASSUME NEW status \in {"authentication_required", "search_unavailable", "listing_unavailable"},
             Good(c, t, status, 0)
      PROVE  ServerInv'
  <2>1. Ends(c, t, status, "", 0) /\ Untraced
    BY <1>4, GoodEnds
  <2>2. Public(status, "") /\ Told(0, owner)
    BY DEF Public, Told
  <2> QED
    BY <1>0, <1>2, <2>1, <2>2, EndsAtOnce
<1> HIDE DEF t
<1>5. CASE /\ owner # Nobody /\ tasks' = [tasks EXCEPT ![c] = t]
           /\ UNCHANGED <<reply, error_traces, failures>>
  <2>1. owner \in Owners
    BY <1>5 DEF People
  <2>2. t.stage \in {"fetching", "preparing"} /\ (t.stage = "preparing" => t.about \in offered)
    BY <1>1 DEF ServerInv, OfferInv
  <2> QED
    BY <1>0, <1>1, <1>2, <1>5, <2>1, <2>2, EnterKeeps
<1> QED
  BY <1>3, <1>4, <1>5

\* A workflow step makes its own call.
LEMMA StepStep ==
    ASSUME ServerInv, NEW c \in Calls, NEW inner \in Calls, Step(c, inner)
    PROVE  ServerInv'
<1> DEFINE t == Task("recalculate_build", tasks[c].owner, c, "awaiting", 0)
           waiting == [tasks[c] EXCEPT !.stage = "stepping"]
<1>1. TaskInv /\ FamilyInv /\ ToldInv /\ OfferInv /\ KeptInv /\ TraceInv /\ AnswersArePublic
  BY DEF ServerInv
<1>2. /\ tasks[c].tool = "run_workflow_step" /\ tasks[c].stage = "awaiting" /\ Free(inner)
      /\ tasks' = [tasks EXCEPT ![c].stage = "stepping", ![inner] = t]
      /\ UNCHANGED <<config, serving, reply, error_traces, receipts, search, offered, handoffs, issued, failures, clock>>
  BY DEF Step
<1>3. /\ tasks[inner] = NoTask /\ (\A d \in Calls : tasks[d].parent # inner)
      /\ (\A d \in Calls : tasks[d].parent # c) /\ tasks[c].parent \notin Calls
      /\ tasks[c] \in TaskRecords /\ tasks[c].owner \in People /\ tasks[c].tool \in ToolNames
      /\ tasks[c].about = 0
  <2>1. tasks[inner] = NoTask /\ \A d \in Calls : tasks[d].parent # inner
    BY <1>2, FreeCall
  <2>2. tasks[c] \in TaskRecords /\ tasks[c].owner \in People /\ tasks[c].tool \in ToolNames /\ InFamily(c, tasks[c])
    BY <1>2, RunningCall
  <2>3. tasks[c].parent \notin Calls /\ tasks[c].about = 0
    BY <1>1, <1>2 DEF FamilyInv, TaskInv
  <2> QED
    BY <2>1, <2>2, <2>3 DEF InFamily
<1>4. c # inner
  BY <1>2, <1>3, NoTaskFields
<1>5. /\ t \in TaskRecords /\ t.tool = "recalculate_build" /\ t.owner = tasks[c].owner
      /\ t.parent = c /\ t.stage = "awaiting" /\ t.about = 0
  <2>1. "recalculate_build" \in ToolNames
    BY DEF ToolNames, EngineTools
  <2>2. tasks[c].owner \in People
    BY <1>3
  <2> QED
    BY <2>1, <2>2 DEF Task, TaskRecords
<1>6. /\ waiting \in TaskRecords /\ waiting.stage = "stepping" /\ waiting.owner = tasks[c].owner
      /\ waiting.tool = tasks[c].tool /\ waiting.parent = tasks[c].parent /\ waiting.about = 0
  BY <1>3 DEF TaskRecords
<1>7. /\ tasks' \in [Calls -> TaskRecords] /\ tasks'[c] = waiting /\ tasks'[inner] = t
      /\ \A d \in Calls : d \notin {c, inner} => tasks'[d] = tasks[d]
  <2>1. tasks \in [Calls -> TaskRecords]
    BY <1>1 DEF TaskInv
  <2>2. tasks' = [[tasks EXCEPT ![c] = waiting] EXCEPT ![inner] = t]
    BY <1>2, <2>1
  <2> HIDE DEF t, waiting
  <2> QED
    BY <1>4, <1>5, <1>6, <2>1, <2>2
<1> HIDE DEF t, waiting
<1>8. TaskInv'
  <2>1. ASSUME NEW d \in Calls
        PROVE  /\ tasks'[d] = NoTask \/ (tasks'[d].owner \in People /\ tasks'[d].tool \in ToolNames)
               /\ tasks'[d].stage = "awaiting" => tasks'[d].about = 0
    <3>1. "recalculate_build" \in ToolNames
      BY DEF ToolNames, EngineTools
    <3> QED
      BY <1>1, <1>3, <1>5, <1>6, <1>7, <3>1 DEF TaskInv
  <2> QED
    BY <1>7, <2>1 DEF TaskInv
<1>9. FamilyInv'
  <2>1. ASSUME NEW d \in Calls, tasks'[d].parent \in Calls
        PROVE  /\ tasks'[d].tool = "recalculate_build" /\ tasks'[d].stage = "awaiting"
               /\ tasks'[tasks'[d].parent].stage = "stepping"
               /\ tasks'[tasks'[d].parent].owner = tasks'[d].owner
    <3>1. CASE d = inner
      BY <1>5, <1>6, <1>7, <3>1
    <3>2. CASE d # inner
      <4>1. d # c
        BY <1>3, <1>6, <1>7, <2>1
      <4> QED
        BY <1>1, <1>3, <1>7, <2>1, <3>2, <4>1 DEF FamilyInv
    <3> QED
      BY <3>1, <3>2
  <2> QED
    BY <2>1 DEF FamilyInv
<1>10. ToldInv'
  BY <1>1, <1>2, <1>5, <1>6, <1>7 DEF ToldInv, Told
<1>11. OfferInv'
  BY <1>1, <1>2, <1>5, <1>6, <1>7 DEF OfferInv, HandoffsAreOffered
<1>12. KeptInv' /\ TraceInv' /\ AnswersArePublic'
  BY <1>1, <1>2, KeptStays DEF TraceInv, TracesAreLatest, AnswersArePublic
<1> QED
  BY <1>8, <1>9, <1>10, <1>11, <1>12 DEF ServerInv

LEMMA SteppedStep ==
    ASSUME ServerInv, NEW c \in Calls, Stepped(c)
    PROVE  ServerInv'
<1>1. /\ tasks[c].stage = "stepping" /\ (\A d \in Calls : tasks[d].parent # c)
      /\ Good(c, tasks[c], "ok", tasks[c].about)
      /\ UNCHANGED <<config, serving, receipts, search, offered, handoffs, issued, clock>>
  BY DEF Stepped
<1>2. Ends(c, tasks[c], "ok", "", tasks[c].about) /\ Untraced
  BY <1>1, GoodEnds
<1>3. /\ tasks[c].tool \in ToolNames /\ tasks[c].owner \in People /\ InFamily(c, tasks[c])
  BY <1>1, RunningCall
<1>4. Told(tasks[c].about, tasks[c].owner) /\ issued \in Seq(People)
  BY <1>1 DEF ServerInv, ToldInv, KeptInv
<1>5. ToldNext(tasks[c].about, tasks[c].owner) /\ tasks[c].about \in Nat
  BY <1>1, <1>4 DEF Told, ToldNext
<1>6. IssuedGrows /\ Public("ok", "") /\ KeptInv'
  BY <1>1, KeptStays DEF IssuedGrows, Public, ServerInv
<1> QED
  BY <1>1, <1>2, <1>3, <1>5, <1>6, EndsQuietly

\* An answered calculation is retained under its owner, who is told of it.
LEMMA FinishStep ==
    ASSUME ServerInv, NEW c \in Calls, Finish(c)
    PROVE  ServerInv'
<1> DEFINE owner == tasks[c].owner
           latest == Len(issued) + 1
<1>1. /\ tasks[c].stage = "awaiting"
      /\ UNCHANGED <<config, serving, search, offered, handoffs, clock>>
  BY DEF Finish
<1>2. tasks[c].tool \in ToolNames /\ tasks[c].owner \in People /\ InFamily(c, tasks[c])
  BY <1>1, RunningCall
<1>3. KeptInv /\ issued \in Seq(People) /\ clock \in Nat /\ Public("ok", "")
  BY DEF ServerInv, KeptInv, TraceInv, Public
<1>4. CASE Good(c, tasks[c], "ok", 0) /\ UNCHANGED <<issued, receipts>>
  <2>1. Ends(c, tasks[c], "ok", "", 0) /\ Untraced
    BY <1>4, GoodEnds
  <2>2. IssuedGrows /\ ToldNext(0, tasks[c].owner) /\ KeptInv'
    BY <1>3, <1>4, KeptStays DEF IssuedGrows, ToldNext
  <2> QED
    BY <1>1, <1>2, <1>3, <2>1, <2>2, EndsQuietly
<1>5. CASE /\ issued' = Append(issued, owner) /\ Good(c, tasks[c], "ok", Len(issued'))
           /\ \E size \in Sizes : receipts' =
                Retained([id |-> Len(issued'), owner |-> owner, expiry |-> clock + ReceiptLife, size |-> size])
  <2>1. /\ Len(issued') = latest /\ latest \in Nat \ {0} /\ latest \in DOMAIN issued' /\ issued'[latest] = owner
    <3>1. owner \in People /\ issued \in Seq(People) /\ issued' = Append(issued, owner)
      BY <1>2, <1>3, <1>5
    <3> HIDE DEF owner
    <3>2. Len(issued) \in Nat /\ DOMAIN issued' = 1 .. (Len(issued) + 1)
      BY <3>1
    <3>3. Len(issued') = Len(issued) + 1 /\ issued'[Len(issued) + 1] = owner
      BY <3>1
    <3> QED
      BY <3>2, <3>3
  <2>2. PICK size \in Sizes : receipts' =
                Retained([id |-> latest, owner |-> owner, expiry |-> clock + ReceiptLife, size |-> size])
    BY <1>5, <2>1
  <2> DEFINE row == [id |-> latest, owner |-> owner, expiry |-> clock + ReceiptLife, size |-> size]
  <2>3. row \in Receipts /\ row.id = latest /\ row.owner = owner
    <3>1. latest \in Nat /\ owner \in People /\ clock + ReceiptLife \in Nat /\ size \in Sizes
      <4>1. ReceiptLife \in Nat
        BY ServerAssumption
      <4>2. clock \in Nat
        BY <1>3
      <4>4. clock + ReceiptLife \in Nat
        BY <4>1, <4>2
      <4>3. latest \in Nat /\ owner \in People
        BY <1>2, <2>1
      <4> QED
        BY <2>2, <4>3, <4>4
    <3> HIDE DEF latest, owner
    <3> QED
      BY <3>1 DEF Receipts
  <2>4. receipts' = Retained(row)
    BY <2>2
  <2> HIDE DEF row
  <2>5. KeptInv'
    BY <1>3, <1>5, <2>3, <2>4, RetainedKeeps
  <2>6. Ends(c, tasks[c], "ok", "", latest) /\ Untraced
    BY <1>5, <2>1, GoodEnds
  <2>7. IssuedGrows /\ ToldNext(latest, tasks[c].owner)
    BY <1>2, <1>5, <2>1 DEF IssuedGrows, ToldNext
  <2> QED
    BY <1>1, <1>2, <1>3, <2>1, <2>5, <2>6, <2>7, EndsQuietly
<1> QED
  BY <1>4, <1>5 DEF Finish

LEMMA FailStep ==
    ASSUME ServerInv, NEW c \in Calls, Fail(c)
    PROVE  ServerInv'
<1>1. /\ tasks[c].stage = "awaiting" /\ failures < MaxFailures
      /\ \E raised \in Raised : Thrown(c, tasks[c], raised)
      /\ UNCHANGED <<config, serving, receipts, search, offered, handoffs, issued, clock>>
  BY DEF Fail
<1>2. tasks[c].tool \in ToolNames /\ tasks[c].owner \in People /\ InFamily(c, tasks[c])
  BY <1>1, RunningCall
<1>3. PICK text, shown : Ends(c, tasks[c], text, shown, 0) /\ Traced(tasks[c]) /\ Public(text, shown)
  BY <1>1, ThrownEnds
<1>4. IssuedGrows /\ ToldNext(0, tasks[c].owner) /\ KeptInv'
  BY <1>1, KeptStays DEF IssuedGrows, ToldNext, ServerInv
<1> QED
  BY <1>1, <1>2, <1>3, <1>4, EndsQuietly

\* A call is cancelled with the one it made.
LEMMA CancelStep ==
    ASSUME ServerInv, NEW c \in Calls, Cancel(c)
    PROVE  ServerInv'
<1>1. TaskInv /\ FamilyInv /\ ToldInv /\ OfferInv /\ KeptInv /\ TraceInv /\ AnswersArePublic
  BY DEF ServerInv
<1>2. /\ tasks' = [d \in Calls |-> IF d = c \/ tasks[d].parent = c THEN NoTask ELSE tasks[d]]
      /\ UNCHANGED <<config, serving, reply, error_traces, receipts, search, offered, handoffs, issued, failures, clock>>
  BY DEF Cancel
<1>3. \A d \in Calls : \/ tasks'[d] = NoTask
                       \/ tasks'[d] = tasks[d] /\ d # c /\ tasks[d].parent # c
  BY <1>2
<1>4. TaskInv'
  <2>1. tasks' \in [Calls -> TaskRecords]
    BY <1>1, <1>2, NoTaskFields DEF TaskInv
  <2> QED
    BY <1>1, <1>3, <2>1, NoTaskFields DEF TaskInv
<1>5. FamilyInv'
  <2>1. ASSUME NEW d \in Calls, tasks'[d].parent \in Calls
        PROVE  /\ tasks'[d].tool = "recalculate_build" /\ tasks'[d].stage = "awaiting"
               /\ tasks'[tasks'[d].parent].stage = "stepping"
               /\ tasks'[tasks'[d].parent].owner = tasks'[d].owner
    <3>1. tasks'[d] = tasks[d] /\ tasks[d].parent # c
      BY <1>3, <2>1, NoTaskFields, ServerAssumption
    <3> DEFINE p == tasks[d].parent
    <3>2. /\ p \in Calls /\ p # c /\ tasks[d].tool = "recalculate_build" /\ tasks[d].stage = "awaiting"
          /\ tasks[p].stage = "stepping" /\ tasks[p].owner = tasks[d].owner
      BY <1>1, <2>1, <3>1 DEF FamilyInv
    <3>3. tasks[p].parent # c
      BY <1>1, <3>2 DEF FamilyInv, Cancel
    <3>4. tasks'[p] = tasks[p]
      BY <1>2, <3>2, <3>3
    <3> QED
      BY <3>1, <3>2, <3>4
  <2> QED
    BY <2>1 DEF FamilyInv
<1>6. ToldInv'
  BY <1>1, <1>2, <1>3, NoTaskFields DEF ToldInv, Told
<1>7. OfferInv'
  <2>1. \A d \in Calls : tasks'[d].stage \in {"fetching", "preparing"} => tasks'[d] = tasks[d]
    BY <1>3, NoTaskFields
  <2> QED
    BY <1>1, <1>2, <2>1, OfferStays
<1>8. KeptInv' /\ TraceInv' /\ AnswersArePublic'
  BY <1>1, <1>2, KeptStays DEF TraceInv, TracesAreLatest, AnswersArePublic
<1> QED
  BY <1>4, <1>5, <1>6, <1>7, <1>8 DEF ServerInv

\* The answer is written over the row; what it lists was offered.
LEMMA ListingStep ==
    ASSUME ServerInv, NEW c \in Calls, ListingFetched(c)
    PROVE  ServerInv'
<1> DEFINE listing == tasks[c].about
           Rows == [Listings -> {"unread", "gone", "listed"}]
<1>1. /\ tasks[c].stage = "fetching" /\ UNCHANGED <<config, serving, receipts, handoffs, issued, clock>>
  BY DEF ListingFetched
<1>2. TaskInv /\ FamilyInv /\ ToldInv /\ OfferInv /\ KeptInv /\ TraceInv /\ AnswersArePublic
  BY DEF ServerInv
<1>3. /\ tasks[c].tool \in ToolNames /\ tasks[c].owner \in People /\ InFamily(c, tasks[c])
      /\ tasks[c] \in TaskRecords /\ tasks[c].owner \in Owners /\ listing \in Listings
  BY <1>1, <1>2, RunningCall DEF OfferInv
<1>4. IssuedGrows /\ ToldNext(0, tasks[c].owner) /\ KeptInv'
  BY <1>1, <1>2, KeptStays DEF IssuedGrows, ToldNext
<1>5. CASE Good(c, tasks[c], "search_unavailable", 0) /\ UNCHANGED <<search, offered>>
  <2>1. Ends(c, tasks[c], "search_unavailable", "", 0) /\ Untraced /\ Public("search_unavailable", "")
    BY <1>5, GoodEnds DEF Public
  <2> QED
    BY <1>1, <1>3, <1>4, <1>5, <2>1, EndsQuietly
<1>6. ASSUME NEW row \in {"gone", "listed"}, search' = [search EXCEPT !.rows[listing] = row]
      PROVE  /\ search' \in [alive : BOOLEAN, rows : Rows] /\ search'.rows[listing] = row
             /\ \A l \in Listings : l # listing => search'.rows[l] = search.rows[l]
  <2>1. search \in [alive : BOOLEAN, rows : Rows]
    BY <1>2 DEF OfferInv
  <2> DEFINE rows == [search.rows EXCEPT ![listing] = row]
  <2>2. /\ rows \in Rows /\ rows[listing] = row
        /\ \A l \in Listings : l # listing => rows[l] = search.rows[l]
    <3> HIDE DEF listing
    <3> QED
      BY <1>3, <1>6, <2>1
  <2>3. search' = [search EXCEPT !.rows = rows]
    BY <1>6
  <2> HIDE DEF rows
  <2>4. search' \in [alive : BOOLEAN, rows : Rows] /\ search'.rows = rows
    BY <2>1, <2>2, <2>3
  <2> HIDE DEF listing
  <2> QED
    BY <2>2, <2>4
<1>7. CASE /\ search' = [search EXCEPT !.rows[listing] = "gone"]
           /\ Good(c, tasks[c], "listing_unavailable", 0) /\ UNCHANGED offered
  <2>1. /\ Ends(c, tasks[c], "listing_unavailable", "", 0) /\ Untraced
        /\ Public("listing_unavailable", "")
    BY <1>7, GoodEnds DEF Public
  <2>2. /\ TaskInv' /\ FamilyInv' /\ ToldInv' /\ TraceInv' /\ AnswersArePublic'
        /\ \A d \in Calls : tasks'[d].stage \in {"fetching", "preparing"} => tasks'[d] = tasks[d]
    BY <1>1, <1>3, <1>4, <2>1, AnswerKeeps
  <2>3. OfferInv'
    BY <1>1, <1>2, <1>6, <1>7, <2>2 DEF OfferInv, HandoffsAreOffered
  <2> QED
    BY <1>4, <2>2, <2>3 DEF ServerInv
<1>8. CASE /\ search' = [search EXCEPT !.rows[listing] = "listed"]
           /\ offered' = offered \cup {listing}
           /\ tasks' = [tasks EXCEPT ![c].stage = "preparing"] /\ UNCHANGED <<reply, error_traces, failures>>
  <2> DEFINE next == [tasks[c] EXCEPT !.stage = "preparing"]
  <2>1. /\ next \in TaskRecords /\ next.stage = "preparing" /\ next.tool = tasks[c].tool
        /\ next.owner = tasks[c].owner /\ next.parent = tasks[c].parent /\ next.about = tasks[c].about
    BY <1>3 DEF TaskRecords
  <2>2. tasks' = [tasks EXCEPT ![c] = next] /\ UNCHANGED <<reply, error_traces, failures>>
    BY <1>8
  <2> HIDE DEF next
  <2>3. /\ tasks' \in [Calls -> TaskRecords] /\ tasks'[c] = next
        /\ \A d \in Calls : d # c => tasks'[d] = tasks[d]
    BY <1>2, <2>1, <2>2 DEF TaskInv
  <2>4. (\A d \in Calls : tasks[d].parent # c) /\ tasks[c].parent \notin Calls
    BY <1>1, <1>2, <1>3 DEF InFamily, FamilyInv
  <2>5. TaskInv'
    BY <1>2, <1>3, <2>1, <2>3 DEF TaskInv
  <2>6. FamilyInv'
    BY <1>2, <2>1, <2>3, <2>4 DEF FamilyInv
  <2>7. ToldInv'
    BY <1>1, <1>2, <2>1, <2>2, <2>3 DEF ToldInv, Told
  <2>8. OfferInv'
    BY <1>1, <1>2, <1>3, <1>6, <1>8, <2>1, <2>3 DEF OfferInv, HandoffsAreOffered
  <2>9. TraceInv' /\ AnswersArePublic'
    BY <1>1, <1>2, <2>2 DEF TraceInv, TracesAreLatest, AnswersArePublic
  <2> QED
    BY <1>4, <2>5, <2>6, <2>7, <2>8, <2>9 DEF ServerInv
<1> QED
  BY <1>5, <1>7, <1>8 DEF ListingFetched

LEMMA PreparedStep ==
    ASSUME ServerInv, NEW c \in Calls, Prepared(c)
    PROVE  ServerInv'
<1> DEFINE handoff == [owner |-> tasks[c].owner, listing |-> tasks[c].about]
<1>1. /\ tasks[c].stage = "preparing"
      /\ UNCHANGED <<config, serving, receipts, search, offered, issued, clock>>
      /\ handoffs' \in {handoffs, handoffs \cup {handoff}}
      /\ \E text \in {"broker_unavailable", "prepared", "account_unavailable"} : Good(c, tasks[c], text, 0)
  BY DEF Prepared
<1>2. TaskInv /\ FamilyInv /\ ToldInv /\ OfferInv /\ KeptInv /\ TraceInv /\ AnswersArePublic
  BY DEF ServerInv
<1>3. /\ tasks[c].tool \in ToolNames /\ tasks[c].owner \in People /\ InFamily(c, tasks[c])
      /\ tasks[c].owner \in Owners /\ tasks[c].about \in Listings
      /\ tasks[c].about \in offered
  BY <1>1, <1>2, RunningCall DEF OfferInv
<1>4. IssuedGrows /\ ToldNext(0, tasks[c].owner) /\ KeptInv'
  BY <1>1, <1>2, KeptStays DEF IssuedGrows, ToldNext
<1>5. PICK text \in {"broker_unavailable", "prepared", "account_unavailable"} : Good(c, tasks[c], text, 0)
  BY <1>1
<1>6. Ends(c, tasks[c], text, "", 0) /\ Untraced /\ Public(text, "")
  BY <1>5, GoodEnds DEF Public
<1>7. /\ TaskInv' /\ FamilyInv' /\ ToldInv' /\ TraceInv' /\ AnswersArePublic'
      /\ \A d \in Calls : tasks'[d].stage \in {"fetching", "preparing"} => tasks'[d] = tasks[d]
  BY <1>1, <1>3, <1>4, <1>6, AnswerKeeps
<1>8. OfferInv'
  BY <1>1, <1>2, <1>3, <1>7 DEF OfferInv, HandoffsAreOffered
<1> QED
  BY <1>4, <1>7, <1>8 DEF ServerInv

\* The server begins, the search is forgotten, or time passes.
LEMMA OtherStep ==
    ASSUME ServerInv, Serve \/ Forget \/ Tick
    PROVE  ServerInv'
<1>1. UNCHANGED <<config, tasks, reply, error_traces, receipts, offered, handoffs, issued, failures>>
  BY DEF Serve, Forget, Tick
<1>2. TaskInv /\ FamilyInv /\ ToldInv /\ OfferInv /\ KeptInv /\ TraceInv /\ AnswersArePublic
  BY DEF ServerInv
<1>3. TaskInv' /\ FamilyInv' /\ ToldInv' /\ KeptInv' /\ AnswersArePublic'
  BY <1>1, <1>2, KeptStays DEF TaskInv, FamilyInv, ToldInv, Told, AnswersArePublic
<1>4. OfferInv'
  <2>1. search \in [alive : BOOLEAN, rows : [Listings -> {"unread", "gone", "listed"}]]
    BY <1>2 DEF OfferInv
  <2>2. search' = search \/ search' = [search EXCEPT !.alive = FALSE]
    BY DEF Serve, Forget, Tick
  <2>3. /\ search' \in [alive : BOOLEAN, rows : [Listings -> {"unread", "gone", "listed"}]]
        /\ search'.rows = search.rows
    BY <2>1, <2>2
  <2> QED
    BY <1>1, <1>2, <2>3 DEF OfferInv, HandoffsAreOffered
<1>5. TraceInv'
  <2>1. serving' \in {"no", "yes", "refused"} /\ clock' \in Nat
    BY <1>2 DEF TraceInv, Serve, Forget, Tick
  <2> QED
    BY <1>1, <1>2, <2>1 DEF TraceInv, TracesAreLatest
<1> QED
  BY <1>3, <1>4, <1>5 DEF ServerInv

LEMMA ServerBegins == ASSUME ServerInit PROVE ServerInv
<1>1. /\ config \in ServerConfigs /\ serving = "no"
      /\ tasks = [c \in Calls |-> NoTask] /\ reply = NoReply
      /\ error_traces = << >> /\ receipts = << >> /\ handoffs = {} /\ issued = << >>
      /\ failures = 0 /\ clock = 0
  BY DEF ServerInit
<1>2. TaskInv /\ FamilyInv /\ ToldInv
  BY <1>1, NoTaskFields, ServerAssumption DEF TaskInv, FamilyInv, ToldInv, Told, NoReply
<1>3. OfferInv
  <2>1. search \in [alive : BOOLEAN, rows : [Listings -> {"unread", "gone", "listed"}]]
    BY DEF ServerInit
  <2>2. \A l \in Listings : search.rows[l] = "unread"
    BY DEF ServerInit
  <2> QED
    BY <1>1, <2>1, <2>2, NoTaskFields DEF OfferInv, HandoffsAreOffered
<1>4. KeptInv
  <2>1. Len(receipts) = 0 /\ 0 <= Capacity
    <3>1. Capacity \in Nat
      BY ServerAssumption
    <3> QED
      BY <1>1, <3>1
  <2>2. ReceiptsHeld
    BY <1>1, <2>1 DEF ReceiptsHeld
  <2> QED
    BY <1>1, <2>2 DEF KeptInv
<1>5. TraceInv
  <2>1. 0 < TraceLimit /\ 0 \in 0 .. MaxFailures
    <3>1. TraceLimit \in Nat \ {0} /\ MaxFailures \in Nat
      BY ServerAssumption
    <3> QED
      BY <3>1
  <2>2. TracesAreLatest
    BY <1>1, <2>1 DEF TracesAreLatest
  <2> QED
    BY <1>1, <2>1, <2>2 DEF TraceInv
<1>6. AnswersArePublic
  BY <1>1 DEF AnswersArePublic, NoReply
<1> QED
  BY <1>2, <1>3, <1>4, <1>5, <1>6 DEF ServerInv

LEMMA ServerStep == ServerInv /\ [ServerNext]_serverVars => ServerInv'
<1> SUFFICES ASSUME ServerInv, [ServerNext]_serverVars
             PROVE  ServerInv'
  OBVIOUS
<1>1. CASE UNCHANGED serverVars
  BY <1>1, KeptStays, OfferStays
     DEF serverVars, ServerInv, TaskInv, FamilyInv, ToldInv, Told, TraceInv, TracesAreLatest, AnswersArePublic
<1>2. ASSUME NEW c \in Calls, NEW owner \in People, NEW tool \in ToolNames,
             Refuse(c, tool, owner) \/ Enter(c, tool, owner)
                \/ (\E id \in 0 .. MaxIssued : Read(c, tool, owner, id))
      PROVE  ServerInv'
  BY <1>2, RefuseStep, EnterStep, ReadStep
<1>3. ASSUME NEW c \in Calls, NEW owner \in People, NEW listing \in Listings, Travel(c, owner, listing)
      PROVE  ServerInv'
  BY <1>3, TravelStep
<1>4. ASSUME NEW c \in Calls,
             \/ \E inner \in Calls : Step(c, inner)
             \/ Stepped(c) \/ Finish(c) \/ Fail(c) \/ Cancel(c) \/ ListingFetched(c) \/ Prepared(c)
      PROVE  ServerInv'
  BY <1>4, StepStep, SteppedStep, FinishStep, FailStep, CancelStep, ListingStep, PreparedStep
<1>5. CASE ServerNext
  <2>1. \/ Serve \/ Tick \/ Forget
        \/ \E c \in Calls :
             \/ \E owner \in People :
                  \/ \E tool \in ToolNames : Refuse(c, tool, owner) \/ Enter(c, tool, owner)
                  \/ \E tool \in ToolNames, id \in 0 .. MaxIssued : Read(c, tool, owner, id)
                  \/ \E listing \in Listings : Travel(c, owner, listing)
             \/ \E inner \in Calls : Step(c, inner)
             \/ Stepped(c) \/ Finish(c) \/ Fail(c) \/ Cancel(c) \/ ListingFetched(c) \/ Prepared(c)
    BY <1>5 DEF ServerNext, People
  <2> QED
    BY <2>1, <1>2, <1>3, <1>4, OtherStep
<1> QED
  BY <1>1, <1>5

LEMMA ServerSounds == ASSUME ServerInv PROVE ServerSound
<1>1. TaskInv /\ ToldInv /\ OfferInv /\ KeptInv /\ TraceInv /\ AnswersArePublic
  BY DEF ServerInv
<1>2. ServerTypeOK
  <2>1. ASSUME NEW c \in Calls
        PROVE  tasks[c] = NoTask \/
                 (tasks[c].owner \in Owners \cup {Nobody} /\ tasks[c].parent \in Calls \cup {""})
    <3>1. tasks[c] \in TaskRecords /\ (tasks[c] = NoTask \/ tasks[c].owner \in People)
      BY <1>1 DEF TaskInv
    <3> QED
      BY <3>1 DEF TaskRecords, People
  <2>2. Range(issued) \subseteq Owners \cup {Nobody}
    BY <1>1 DEF KeptInv, Range, People
  <2> QED
    BY <1>1, <2>1, <2>2 DEF ServerTypeOK, TraceInv
<1>3. ReceiptsAreTheirs
  BY <1>1 DEF ReceiptsAreTheirs, ToldInv, Told, KeptInv
<1>4. ReceiptsHeld /\ TracesAreLatest /\ HandoffsAreOffered
  BY <1>1 DEF KeptInv, TraceInv, OfferInv
<1>5. HandoffsAreOffered
  BY <1>4
<1> QED
  BY <1>1, <1>2, <1>3, <1>4 DEF ServerSound

\* AnswersSound: what a client is told of, and what the store and the traces keep,
\* whatever order the calls of the server take.
THEOREM AnswersAreSound == AloneSpec => []AnswersSound
<1> DEFINE Inv == part = "server" => ServerInv
<1>1. AloneInit => Inv
  BY ServerBegins DEF AloneInit
<1>2. Inv /\ [AloneNext]_<<part, vars, purchaseVars, pageVars, serverVars, installVars, deployVars>> => Inv'
  <2> SUFFICES ASSUME Inv, part' = "server",
                      [AloneNext]_<<part, vars, purchaseVars, pageVars, serverVars, installVars, deployVars>>
               PROVE  ServerInv'
    OBVIOUS
  <2>1. part = "server" /\ [ServerNext]_serverVars
    BY DEF AloneNext
  <2> QED
    BY <2>1, ServerStep
<1>3. Inv => AnswersSound
  BY ServerSounds DEF AnswersSound
<1> QED
  BY <1>1, <1>2, <1>3, PTL DEF AloneSpec

-------------------------------------------------------------------------------
(* Finite sets *)

\* A finite set has an element that no other precedes.
LEMMA FiniteMinimal ==
    ASSUME NEW D, IsFiniteSet(D), D # {}, NEW R,
           \A x \in D : <<x, x>> \notin R,
           \A x, y, z \in D : <<x, y>> \in R /\ <<y, z>> \in R => <<x, z>> \in R
    PROVE  \E m \in D : \A y \in D : <<y, m>> \notin R
<1> DEFINE Below(x) == {y \in D : <<y, x>> \in R}
           Height(x) == Cardinality(Below(x))
           Heights == {Height(x) : x \in D}
<1>1. \A x \in D : IsFiniteSet(Below(x)) /\ Cardinality(Below(x)) \in Nat
  <2>1. ASSUME NEW x \in D PROVE IsFiniteSet(Below(x)) /\ Cardinality(Below(x)) \in Nat
    <3>1. Below(x) \in SUBSET D
      OBVIOUS
    <3> HIDE DEF Below
    <3> QED
      BY <3>1, FS_Subset, FS_CardinalityType
  <2> QED
    BY <2>1
<1>2. Heights \in SUBSET Nat /\ Heights # {}
  <2>1. \A x \in D : Height(x) \in Nat
    BY <1>1
  <2> HIDE DEF Height
  <2> QED
    BY <2>1
<1>3. PICK least \in Heights : \A n \in Heights : least <= n
  BY <1>2, LeastNatural
<1>4. PICK m \in D : least = Height(m)
  BY <1>3
<1>6. \A y \in D : Height(m) <= Height(y)
  <2> HIDE DEF Height
  <2> QED
    BY <1>3, <1>4
<1>5. ASSUME NEW y \in D, <<y, m>> \in R PROVE FALSE
  <2>1. Below(y) \in SUBSET Below(m) /\ y \in Below(m) /\ y \notin Below(y)
    BY <1>5
  <2>2. Cardinality(Below(m)) <= Cardinality(Below(y))
    BY <1>6
  <2>3. IsFiniteSet(Below(m)) /\ Cardinality(Below(m)) \in Nat /\ Cardinality(Below(y)) \in Nat
    BY <1>1
  <2> HIDE DEF Below
  <2>4. Cardinality(Below(y)) <= Cardinality(Below(m))
    BY <2>1, <2>3, FS_Subset
  <2>5. Cardinality(Below(m)) = Cardinality(Below(y))
    BY <2>2, <2>3, <2>4
  <2>6. Below(m) = Below(y)
    BY <2>1, <2>3, <2>5, FS_Subset
  <2> QED
    BY <2>1, <2>6
<1> QED
  BY <1>5

LEMMA FiniteLeast ==
    ASSUME NEW D, D \in SUBSET Int, IsFiniteSet(D), D # {}
    PROVE  \E m \in D : \A y \in D : m <= y
<1> DEFINE R == {p \in D \X D : p[1] < p[2]}
<1>1. \A x, y \in D : <<x, y>> \in R <=> x < y
  OBVIOUS
<1>2. /\ \A x \in D : <<x, x>> \notin R
      /\ \A x, y, z \in D : <<x, y>> \in R /\ <<y, z>> \in R => <<x, z>> \in R
  BY <1>1
<1> HIDE DEF R
<1>3. PICK m \in D : \A y \in D : <<y, m>> \notin R
  BY <1>2, FiniteMinimal
<1>4. ASSUME NEW y \in D PROVE m <= y
  <2>1. ~(y < m)
    BY <1>1, <1>3
  <2>2. y \in Int /\ m \in Int
    OBVIOUS
  <2> QED
    BY <2>1, <2>2
<1> QED
  BY <1>4

\* The values of a function on a finite set.
LEMMA FiniteImage ==
    ASSUME NEW S, IsFiniteSet(S), NEW f
    PROVE  IsFiniteSet({f[x] : x \in S})
<1> DEFINE T == {f[x] : x \in S}
           g == [x \in S |-> f[x]]
<1>1. g \in Surjection(S, T)
  BY DEF Surjection
<1> HIDE DEF g, T
<1>2. IsFiniteSet(T)
  BY <1>1, FS_Surjection
<1> QED
  BY <1>2 DEF T

LEMMA SameTotal ==
    ASSUME NEW base, NEW amounts
    PROVE  Purchase!Total(base, amounts) = Total(base, amounts)
BY DEF Purchase!Total, Total

LEMMA PurchaseCardinality ==
    ASSUME NEW S
    PROVE  Purchase!Cardinality(S) = Cardinality(S)
BY DEF Purchase!Cardinality, Cardinality

-------------------------------------------------------------------------------
(* The comparison *)

BillLine ==
    [kind : STRING, evidence : STRING, price : Int \cup {None},
     observed : Int \cup {None}, foreign : BOOLEAN, gold : Nat]

\* What is saved was computed from what stands when the comparison is over: the
\* copies of the documents stay what they are, and which of their observations
\* are gone is not looked at again.
PurchaseInv ==
    /\ candidates \in [Keys -> Profiles] /\ budget \in Int
    /\ phase \in {"new", "league", "fx", "done", "failed"}
    /\ started \in Nat /\ time \in Nat
    /\ phase = "done" => \E rate \in Rates \cup {1} : comparison = Purchase!Saved(rate)

LEMMA BillType ==
    ASSUME PurchaseInv, NEW k \in Keys
    PROVE  /\ Purchase!Bill(k) \in Seq(BillLine)
           /\ \A s \in Scenarios : Purchase!Score(k, s) \in Int \cup {None}
           /\ Purchase!Lines(k) \subseteq BillLine
<1>1. candidates[k] \in Profiles
  BY DEF PurchaseInv
<1>2. /\ candidates[k].scores \in [Scenarios -> Int \cup {None}]
      /\ candidates[k].lines \in Seq(BillLine)
  BY <1>1, PurchaseAssumption DEF BillLine
<1>3. \A i \in DOMAIN candidates[k].lines : candidates[k].lines[i] \in BillLine
  BY <1>2
<1> QED
  BY <1>2, <1>3 DEF Purchase!Bill, Purchase!Score, Purchase!Lines

LEMMA AmountType ==
    ASSUME NEW line \in BillLine, NEW rate \in Int
    PROVE  Purchase!Amount(line, rate) \in Int
<1> DEFINE factor == IF line.foreign THEN rate ELSE 1
<1>1. line.price \in Int \cup {None} /\ factor \in Int
  BY DEF BillLine
<1>2. Purchase!Amount(line, rate) =
        IF Purchase!Counted(line) /\ line.price # None THEN line.price * factor ELSE 0
  BY DEF Purchase!Amount
<1> HIDE DEF factor
<1>3. line.price # None => line.price * factor \in Int
  BY <1>1
<1> QED
  BY <1>2, <1>3

LEMMA CostType ==
    ASSUME PurchaseInv, NEW k \in Keys, NEW rate \in Int
    PROVE  Purchase!Cost(k, rate) \in Int
<1> DEFINE bill == Purchase!Bill(k)
           amounts == [i \in DOMAIN bill |-> Purchase!Amount(bill[i], rate)]
<1>1. bill \in Seq(BillLine)
  BY BillType
<1>2. \A i \in DOMAIN bill : Purchase!Amount(bill[i], rate) \in Int
  <2>1. \A i \in DOMAIN bill : bill[i] \in BillLine
    BY <1>1
  <2> QED
    BY <2>1, AmountType
<1>3. Purchase!Cost(k, rate) = Purchase!Total(0, amounts)
  BY DEF Purchase!Cost
<1> HIDE DEF bill
<1>4. amounts \in Seq(Int)
  <2>1. DOMAIN bill = 1 .. Len(bill) /\ Len(bill) \in Nat
    BY <1>1
  <2>2. amounts \in [1 .. Len(bill) -> Int]
    BY <1>2, <2>1
  <2> QED
    BY <2>1, <2>2
<1> HIDE DEF amounts
<1>5. Total(0, amounts) \in Int
  BY <1>4, TotalType
<1> QED
  BY <1>3, <1>5, SameTotal

\* A qualified candidate that something beats is beaten by one that nothing
\* beats, since there are finitely many.
LEMMA FrontierCoversKeys ==
    ASSUME PurchaseInv, NEW rate \in Int, NEW k \in Keys, Purchase!Qualified(k, rate)
    PROVE  \E best \in Purchase!Frontier(rate) :
             /\ Purchase!Cost(best, rate) <= Purchase!Cost(k, rate)
             /\ \A s \in Scenarios : Purchase!Score(best, s) >= Purchase!Score(k, s)
<1> DEFINE D == {b \in Keys : Purchase!Qualified(b, rate) /\ (b = k \/ Purchase!Better(b, k, rate))}
           R == {p \in Keys \X Keys : Purchase!Better(p[1], p[2], rate)}
<1>1. \A b \in Keys : Purchase!Cost(b, rate) \in Int
  BY CostType
<1>2. \A b \in Keys : Purchase!Qualified(b, rate) => \A s \in Scenarios : Purchase!Score(b, s) \in Int
  BY BillType DEF Purchase!Qualified, Purchase!ScenariosQualified
<1>3. \A x \in D : ~Purchase!Better(x, x, rate)
  BY <1>1, <1>2 DEF Purchase!Better
<1>4. ASSUME NEW x \in Keys, NEW y \in Keys, NEW z \in Keys,
             Purchase!Qualified(x, rate), Purchase!Qualified(y, rate), Purchase!Qualified(z, rate),
             Purchase!Better(x, y, rate), Purchase!Better(y, z, rate)
      PROVE  Purchase!Better(x, z, rate)
  <2>1. \A s \in Scenarios : /\ Purchase!Score(x, s) \in Int /\ Purchase!Score(y, s) \in Int
                             /\ Purchase!Score(z, s) \in Int
    BY <1>2, <1>4
  <2>2. /\ Purchase!Cost(x, rate) \in Int /\ Purchase!Cost(y, rate) \in Int /\ Purchase!Cost(z, rate) \in Int
        /\ Purchase!Cost(x, rate) <= Purchase!Cost(y, rate) /\ Purchase!Cost(y, rate) <= Purchase!Cost(z, rate)
        /\ \A s \in Scenarios : /\ Purchase!Score(x, s) >= Purchase!Score(y, s)
                                /\ Purchase!Score(y, s) >= Purchase!Score(z, s)
    BY <1>1, <1>4 DEF Purchase!Better
  <2>3. /\ Purchase!Cost(x, rate) <= Purchase!Cost(z, rate)
        /\ \A s \in Scenarios : Purchase!Score(x, s) >= Purchase!Score(z, s)
    BY <2>1, <2>2
  <2>4. CASE Purchase!Cost(x, rate) < Purchase!Cost(y, rate)
    <3>1. Purchase!Cost(x, rate) < Purchase!Cost(z, rate)
      BY <2>2, <2>4
    <3> QED
      BY <2>3, <3>1 DEF Purchase!Better
  <2>5. CASE \E s \in Scenarios : Purchase!Score(x, s) > Purchase!Score(y, s)
    <3>1. PICK s \in Scenarios : Purchase!Score(x, s) > Purchase!Score(y, s)
      BY <2>5
    <3>2. Purchase!Score(x, s) > Purchase!Score(z, s)
      BY <2>1, <2>2, <3>1
    <3> QED
      BY <2>3, <3>2 DEF Purchase!Better
  <2> QED
    BY <1>4, <2>4, <2>5 DEF Purchase!Better
<1>5. IsFiniteSet(D) /\ D # {}
  <2>1. D \in SUBSET Keys /\ k \in D
    OBVIOUS
  <2> HIDE DEF D
  <2>2. IsFiniteSet(Keys)
    BY PurchaseAssumption
  <2> QED
    BY <2>1, <2>2, FS_Subset
<1>6. \A x, y \in D : <<x, y>> \in R <=> Purchase!Better(x, y, rate)
  OBVIOUS
<1>7. /\ \A x \in D : <<x, x>> \notin R
      /\ \A x, y, z \in D : <<x, y>> \in R /\ <<y, z>> \in R => <<x, z>> \in R
  <2>1. \A x \in D : <<x, x>> \notin R
    BY <1>3, <1>6
  <2>2. \A x \in D : x \in Keys /\ Purchase!Qualified(x, rate)
    OBVIOUS
  <2> HIDE DEF D, R
  <2>3. \A x, y, z \in D : <<x, y>> \in R /\ <<y, z>> \in R => <<x, z>> \in R
    BY <1>4, <1>6, <2>2
  <2> QED
    BY <2>1, <2>3
<1>8. PICK m \in D : \A y \in D : <<y, m>> \notin R
  <2> HIDE DEF D, R
  <2> QED
    BY <1>5, <1>7, FiniteMinimal
<1>9. m \in Keys /\ Purchase!Qualified(m, rate) /\ (m = k \/ Purchase!Better(m, k, rate))
  BY <1>8
<1>10. ASSUME NEW b \in Keys \ {m}, Purchase!Qualified(b, rate), Purchase!Better(b, m, rate)
       PROVE  FALSE
  <2>1. m = k \/ Purchase!Better(b, k, rate)
    BY <1>4, <1>9, <1>10
  <2>2. b \in D
    BY <1>10, <2>1
  <2>3. <<b, m>> \in R
    BY <1>6, <1>10, <2>2
  <2> QED
    BY <1>8, <2>2, <2>3
<1>11. m \in Purchase!Frontier(rate)
  BY <1>9, <1>10 DEF Purchase!Frontier
<1>12. /\ Purchase!Cost(m, rate) <= Purchase!Cost(k, rate)
       /\ \A s \in Scenarios : Purchase!Score(m, s) >= Purchase!Score(k, s)
  <2>1. CASE m = k
    BY <1>1, <1>2, <2>1
  <2>2. CASE Purchase!Better(m, k, rate)
    BY <2>2 DEF Purchase!Better
  <2> QED
    BY <1>9, <2>1, <2>2
<1> QED
  BY <1>11, <1>12

\* The primary candidate is one of those that qualify.
LEMMA PrimaryQualifies ==
    ASSUME PurchaseInv, NEW rate \in Int, Purchase!Primary(rate) # None
    PROVE  Purchase!Primary(rate) \in Keys /\ Purchase!Qualified(Purchase!Primary(rate), rate)
<1>1. Purchase!Cardinality(Purchase!Frontier(rate)) = 1
  BY DEF Purchase!Primary
<1>2. Purchase!Frontier(rate) # {}
  BY <1>1, PurchaseCardinality, FS_EmptySet
<1>3. Purchase!Primary(rate) \in Purchase!Frontier(rate)
  BY <1>1, <1>2 DEF Purchase!Primary
<1> QED
  BY <1>3 DEF Purchase!Frontier

\* The time from which the prices are to be checked again is not after the time
\* at which the first of them is too old.
LEMMA RecheckIsEarly ==
    ASSUME PurchaseInv, NEW k \in Keys, NEW line \in Purchase!Lines(k), line.observed # None
    PROVE  Purchase!RecheckAfter \in Int /\ Purchase!RecheckAfter <= line.observed + MaxAge
<1> DEFINE All == UNION {Purchase!Lines(j) : j \in Keys}
           Timed == {l \in All : l.observed # None}
           age == [l \in Timed |-> l.observed + MaxAge]
           T == {started + MaxAge} \cup {age[l] : l \in Timed}
<1>1. MaxAge \in Int /\ started \in Int /\ IsFiniteSet(Keys)
  BY PurchaseAssumption DEF PurchaseInv
<1>2. ASSUME NEW j \in Keys PROVE IsFiniteSet(Purchase!Lines(j))
  <2> DEFINE bill == Purchase!Bill(j)
  <2>1. DOMAIN bill = 1 .. Len(bill) /\ Len(bill) \in Nat
    BY BillType
  <2> HIDE DEF bill
  <2>2. IsFiniteSet(DOMAIN bill)
    BY <2>1, FS_Interval
  <2>3. IsFiniteSet({bill[i] : i \in DOMAIN bill})
    BY <2>2, FiniteImage
  <2> QED
    BY <2>3 DEF bill, Purchase!Lines
<1>3. IsFiniteSet(All)
  <2> DEFINE of == [j \in Keys |-> Purchase!Lines(j)]
             Each == {of[j] : j \in Keys}
  <2>1. \A j \in Keys : IsFiniteSet(of[j])
    BY <1>2
  <2>2. All = UNION Each
    OBVIOUS
  <2> HIDE DEF of
  <2>3. IsFiniteSet(Each)
    BY <1>1, FiniteImage
  <2>4. \A E \in Each : IsFiniteSet(E)
    BY <2>1
  <2> HIDE DEF Each, All
  <2> QED
    BY <2>2, <2>3, <2>4, FS_UNION
<1>4. IsFiniteSet(T)
  <2>1. Timed \in SUBSET All
    OBVIOUS
  <2> HIDE DEF All
  <2>2. IsFiniteSet(Timed)
    BY <1>3, <2>1, FS_Subset
  <2> HIDE DEF Timed, age
  <2>3. IsFiniteSet({age[l] : l \in Timed})
    BY <2>2, FiniteImage
  <2>4. IsFiniteSet({started + MaxAge})
    BY FS_Singleton
  <2> QED
    BY <2>3, <2>4, FS_Union
<1>5. T \in SUBSET Int
  <2>1. \A l \in Timed : l.observed \in Int
    <3>1. \A l \in Timed : l \in BillLine /\ l.observed # None
      BY BillType
    <3> HIDE DEF Timed
    <3> QED
      BY <3>1 DEF BillLine
  <2> HIDE DEF Timed
  <2>2. \A l \in Timed : age[l] \in Int
    BY <1>1, <2>1
  <2>3. started + MaxAge \in Int
    BY <1>1
  <2> QED
    BY <2>2, <2>3
<1>6. line \in Timed /\ line.observed + MaxAge \in T
  <2>1. line \in Timed
    OBVIOUS
  <2> HIDE DEF Timed
  <2>2. age[line] = line.observed + MaxAge
    BY <2>1
  <2> HIDE DEF age
  <2> QED
    BY <2>1, <2>2
<1>7. Purchase!RecheckAfter = Purchase!Min(T)
  <2>1. {age[l] : l \in Timed} =
          {l.observed + MaxAge : l \in {x \in UNION {Purchase!Lines(j) : j \in Keys} : x.observed # None}}
    OBVIOUS
  <2> QED
    BY <2>1 DEF Purchase!RecheckAfter
<1> HIDE DEF T
<1>8. \E m \in T : \A y \in T : m <= y
  BY <1>4, <1>5, <1>6, FiniteLeast
<1>9. Purchase!Min(T) \in T /\ \A y \in T : Purchase!Min(T) <= y
  BY <1>8 DEF Purchase!Min
<1> QED
  BY <1>5, <1>6, <1>7, <1>9

LEMMA PurchaseSounds ==
    ASSUME PurchaseInv
    PROVE  Purchase!FrontierCovers /\ Purchase!PrimaryIsSound /\ Purchase!OldPriceFlagged
<1> SUFFICES ASSUME phase = "done"
             PROVE  Purchase!FrontierCovers /\ Purchase!PrimaryIsSound /\ Purchase!OldPriceFlagged
  BY DEF Purchase!FrontierCovers, Purchase!PrimaryIsSound, Purchase!OldPriceFlagged
<1>1. PICK rate \in Rates \cup {1} : comparison = Purchase!Saved(rate)
  BY DEF PurchaseInv
<1>2. rate \in Int
  <2>1. Rates \subseteq Int
    BY PurchaseAssumption
  <2> QED
    BY <2>1
<1>3. /\ comparison.rate = rate /\ comparison.frontier = Purchase!Frontier(rate)
      /\ comparison.primary = Purchase!Primary(rate) /\ comparison.recheck = Purchase!RecheckAfter
      /\ \A k \in Keys : comparison.total[k] = Purchase!Cost(k, rate)
  BY <1>1 DEF Purchase!Saved
<1>4. Purchase!Frontier(rate) \subseteq Keys
  BY DEF Purchase!Frontier
<1>5. Purchase!FrontierCovers
  <2> SUFFICES ASSUME NEW k \in Keys, Purchase!Qualified(k, rate)
               PROVE  \E best \in Purchase!Frontier(rate) :
                        /\ comparison.total[best] <= comparison.total[k]
                        /\ \A s \in Scenarios : Purchase!Score(best, s) >= Purchase!Score(k, s)
    BY <1>3 DEF Purchase!FrontierCovers
  <2>1. PICK best \in Purchase!Frontier(rate) :
               /\ Purchase!Cost(best, rate) <= Purchase!Cost(k, rate)
               /\ \A s \in Scenarios : Purchase!Score(best, s) >= Purchase!Score(k, s)
    BY <1>2, FrontierCoversKeys
  <2>2. comparison.total[best] <= comparison.total[k]
    BY <1>3, <1>4, <2>1
  <2> QED
    BY <2>1, <2>2
<1>6. Purchase!PrimaryIsSound
  <2> DEFINE k == comparison.primary
  <2> SUFFICES ASSUME k # None
               PROVE  /\ {r \in loaded : r.of = k} \cap expired = {}
                      /\ \A r \in {t \in loaded : t.of = k} : r.said # "adverse"
                      /\ \A r, other \in {t \in loaded : t.of = k} : r.in = other.in => r.said = other.said
                      /\ \A line \in Purchase!Lines(k) :
                            /\ line.evidence \notin {"none", "unknown"}
                            /\ line.evidence = "listing" => line.price # None
                      /\ comparison.total[k] + Reserve <= budget
    BY DEF Purchase!PrimaryIsSound
  <2>1. k \in Keys /\ Purchase!Qualified(k, rate)
    BY <1>2, <1>3, PrimaryQualifies
  <2>2. ~Purchase!Problem(k) /\ Purchase!Complete(k) /\ Purchase!Cost(k, rate) <= Purchase!Spendable
    BY <2>1 DEF Purchase!Qualified
  <2>3. comparison.total[k] = Purchase!Cost(k, rate) /\ Purchase!Cost(k, rate) \in Int
    BY <1>2, <1>3, <2>1, CostType
  <2> HIDE DEF k
  <2>4. comparison.total[k] + Reserve <= budget
    <3>1. budget \in Int /\ Reserve \in Int
      BY PurchaseAssumption DEF PurchaseInv
    <3> QED
      BY <2>2, <2>3, <3>1 DEF Purchase!Spendable
  <2>5. ASSUME NEW line \in Purchase!Lines(k)
        PROVE  /\ line.evidence \notin {"none", "unknown"}
               /\ line.evidence = "listing" => line.price # None
    <3>1. Purchase!Status(line) \notin {"missing", "stale"}
      BY <2>2 DEF Purchase!Complete, Purchase!Counted
    <3> QED
      BY <3>1 DEF Purchase!Status
  <2>6. /\ {r \in loaded : r.of = k} \cap expired = {}
        /\ \A r \in {t \in loaded : t.of = k} : r.said # "adverse"
    BY <2>2 DEF Purchase!Problem
  <2>7. \A r, other \in {t \in loaded : t.of = k} : r.in = other.in => r.said = other.said
    <3>1. ASSUME NEW r \in loaded, NEW other \in loaded, r.of = k, other.of = k, r.in = other.in
          PROVE  r.said = other.said
      <4>1. other \notin expired
        BY <2>6, <3>1
      <4> QED
        BY <2>2, <3>1, <4>1 DEF Purchase!Problem
    <3> QED
      BY <3>1
  <2> QED
    BY <2>4, <2>5, <2>6, <2>7
<1>7. Purchase!OldPriceFlagged
  <2> SUFFICES ASSUME NEW k \in Keys, NEW line \in Purchase!Lines(k), line.observed # None,
                      time > line.observed + MaxAge
               PROVE  time >= comparison.recheck
    BY DEF Purchase!OldPriceFlagged, Purchase!RecheckRequired
  <2>1. comparison.recheck \in Int /\ comparison.recheck <= line.observed + MaxAge
    BY <1>3, RecheckIsEarly
  <2>2. line.observed \in Int
    BY BillType DEF BillLine
  <2>3. time \in Int /\ MaxAge \in Int
    BY PurchaseAssumption DEF PurchaseInv
  <2> QED
    BY <2>1, <2>2, <2>3
<1> QED
  BY <1>5, <1>6, <1>7

\* What would be saved depends on nothing but the request and its observations.
LEMMA SavedStays ==
    ASSUME UNCHANGED <<candidates, budget, gold_available, started, expired, loaded>>
    PROVE  \A rate \in Rates \cup {1} : Purchase!Saved(rate)' = Purchase!Saved(rate)
BY DEF Purchase!Saved, Purchase!Primary, Purchase!Frontier, Purchase!Qualified, Purchase!Problem,
       Purchase!ScenariosQualified, Purchase!Score, Purchase!Complete, Purchase!Lines, Purchase!Bill,
       Purchase!Counted, Purchase!Status, Purchase!Recent, Purchase!Cost, Purchase!Amount,
       Purchase!GoldSufficient, Purchase!GoldKnown, Purchase!Gold, Purchase!GoldOf, Purchase!Spendable,
       Purchase!Better, Purchase!BudgetStatus, Purchase!Crossings, Purchase!Beats, Purchase!RecheckAfter

LEMMA PurchaseStep == PurchaseInv /\ [Purchase!Next]_purchaseVars => PurchaseInv'
<1> SUFFICES ASSUME PurchaseInv, [Purchase!Next]_purchaseVars
             PROVE  PurchaseInv'
  OBVIOUS
<1>1. /\ candidates \in [Keys -> Profiles] /\ budget \in Int
      /\ phase \in {"new", "league", "fx", "done", "failed"}
      /\ started \in Nat /\ time \in Nat
  BY DEF PurchaseInv
<1>2. ASSUME NEW rate \in Rates \cup {1}, phase' = "done", comparison' = Purchase!Saved(rate),
             UNCHANGED <<candidates, budget, gold_available, started, reports, expired, loaded, time>>
      PROVE  PurchaseInv'
  <2>1. Purchase!Saved(rate)' = Purchase!Saved(rate)
    BY <1>2, SavedStays
  <2> QED
    BY <1>1, <1>2, <2>1 DEF PurchaseInv
<1>3. ASSUME phase # "done", phase' # "done", UNCHANGED <<candidates, budget>>,
             started' \in Nat, time' \in Nat,
             phase' \in {"new", "league", "fx", "done", "failed"}
      PROVE  PurchaseInv'
  BY <1>1, <1>3 DEF PurchaseInv
<1>4. CASE Purchase!Begin
  BY <1>1, <1>3, <1>4 DEF Purchase!Begin
<1>5. CASE Purchase!Fails
  BY <1>1, <1>3, <1>5 DEF Purchase!Fails
<1>6. CASE Purchase!LeagueVerified
  BY <1>1, <1>2, <1>3, <1>6 DEF Purchase!LeagueVerified, Purchase!Decided
<1>7. CASE Purchase!Exchanged
  BY <1>2, <1>7 DEF Purchase!Exchanged, Purchase!Decided
<1>8. ASSUME NEW r \in Reports, Purchase!Observe(r) \/ Purchase!Expire(r) PROVE PurchaseInv'
  BY <1>1, <1>3, <1>8 DEF Purchase!Observe, Purchase!Expire, Purchase!Pending
<1>9. CASE Purchase!Tick \/ UNCHANGED purchaseVars
  <2>1. /\ UNCHANGED <<candidates, budget, gold_available, phase, started, reports, expired, loaded, comparison>>
        /\ time' \in Nat
    BY <1>1, <1>9 DEF Purchase!Tick, purchaseVars
  <2>2. \A rate \in Rates \cup {1} : Purchase!Saved(rate)' = Purchase!Saved(rate)
    BY <2>1, SavedStays
  <2> QED
    BY <1>1, <2>1, <2>2 DEF PurchaseInv
<1> QED
  BY <1>4, <1>5, <1>6, <1>7, <1>8, <1>9 DEF Purchase!Next

\* PurchaseSound (purchases.compare): the frontier loses no qualified candidate,
\* the primary one can be bought and no observation listed when its plans were
\* loaded speaks against it, and a price that grew too old is flagged, for any
\* candidates, bills, rates and reports.
THEOREM PurchasesAreSound == AloneSpec => []PurchaseSound
<1> DEFINE Inv == part = "purchase" => PurchaseInv
<1>1. AloneInit => Inv
  <2>1. Budgets \subseteq Int
    BY PurchaseAssumption
  <2> SUFFICES ASSUME AloneInit, part = "purchase" PROVE PurchaseInv
    OBVIOUS
  <2>2. Purchase!Init
    BY DEF AloneInit
  <2> QED
    BY <2>1, <2>2 DEF Purchase!Init, PurchaseInv
<1>2. Inv /\ [AloneNext]_<<part, vars, purchaseVars, pageVars, serverVars, installVars, deployVars>> => Inv'
  <2> SUFFICES ASSUME Inv, part' = "purchase",
                      [AloneNext]_<<part, vars, purchaseVars, pageVars, serverVars, installVars, deployVars>>
               PROVE  PurchaseInv'
    OBVIOUS
  <2>1. part = "purchase" /\ [Purchase!Next]_purchaseVars
    BY DEF AloneNext
  <2> QED
    BY <2>1, PurchaseStep
<1>3. Inv => PurchaseSound
  BY PurchaseSounds DEF PurchaseSound
<1> QED
  BY <1>1, <1>2, <1>3, PTL DEF AloneSpec

-------------------------------------------------------------------------------
(* Pages *)

RowPairs == Nat \X Nat

LEMMA SamePageTotal ==
    ASSUME NEW base, NEW amounts
    PROVE  Paging!Total(base, amounts) = Total(base, amounts)
BY DEF Paging!Total, Total

LEMMA ListOf ==
    ASSUME NEW T, NEW n \in Nat, NEW f \in [1 .. n -> T]
    PROVE  f \in Seq(T) /\ Len(f) = n
OBVIOUS

LEMMA RowsType ==
    ASSUME NEW sizes \in Seq(Nat)
    PROVE  /\ Paging!Rows(sizes) \in Seq(RowPairs) /\ Len(Paging!Rows(sizes)) = Len(sizes)
           /\ \A i \in 1 .. Len(sizes) : Paging!Rows(sizes)[i] = <<i, sizes[i]>>
<1>1. DOMAIN sizes = 1 .. Len(sizes) /\ Len(sizes) \in Nat /\ \A i \in 1 .. Len(sizes) : sizes[i] \in Nat
  OBVIOUS
<1>2. Paging!Rows(sizes) = [i \in 1 .. Len(sizes) |-> <<i, sizes[i]>>]
  BY <1>1 DEF Paging!Rows
<1>3. \A i \in 1 .. Len(sizes) : <<i, sizes[i]>> \in RowPairs
  BY <1>1 DEF RowPairs
<1>4. Paging!Rows(sizes) \in [1 .. Len(sizes) -> RowPairs]
  BY <1>2, <1>3
<1>5. Paging!Rows(sizes) \in Seq(RowPairs) /\ Len(Paging!Rows(sizes)) = Len(sizes)
  BY <1>1, <1>4, ListOf
<1> QED
  BY <1>2, <1>5

\* The largest of some numbers within a bound.
LEMMA MaxWithin ==
    ASSUME NEW most \in Nat, NEW S, S \in SUBSET (0 .. most), S # {}
    PROVE  Paging!Max(S) \in S /\ \A n \in S : n <= Paging!Max(S)
<1> DEFINE T == {most - n : n \in S}
<1>1. \A n \in S : n \in 0 .. most /\ most - n \in Nat
  OBVIOUS
<1>2. T \in SUBSET Nat /\ T # {}
  BY <1>1
<1>3. PICK low \in T : \A n \in T : low <= n
  BY <1>2, LeastNatural
<1>4. PICK m \in S : low = most - m
  BY <1>3
<1>5. ASSUME NEW n \in S PROVE m >= n
  <2>1. most - m <= most - n
    BY <1>3, <1>4
  <2>2. m \in Nat /\ n \in Nat
    BY <1>1
  <2> QED
    BY <2>1, <2>2
<1>6. Paging!Max(S) \in S /\ \A n \in S : Paging!Max(S) >= n
  BY <1>4, <1>5 DEF Paging!Max
<1> QED
  BY <1>1, <1>6

\* How many rows a slice has.
Reach(rows, o, n) == IF o + n < Len(rows) THEN n ELSE IF o < Len(rows) THEN Len(rows) - o ELSE 0

LEMMA SliceIs ==
    ASSUME NEW T, NEW rows \in Seq(T), NEW o \in Nat, NEW n \in Nat
    PROVE  /\ Paging!Slice(rows, o, n) \in Seq(T)
           /\ Len(Paging!Slice(rows, o, n)) = Reach(rows, o, n)
           /\ Reach(rows, o, n) \in Nat /\ Reach(rows, o, n) <= n
           /\ \A i \in 1 .. Reach(rows, o, n) :
                o + i \in 1 .. Len(rows) /\ Paging!Slice(rows, o, n)[i] = rows[o + i]
<1> DEFINE end == IF o + n < Len(rows) THEN o + n ELSE Len(rows)
<1>1. Paging!Slice(rows, o, n) = SubSeq(rows, o + 1, end)
  BY DEF Paging!Slice
<1>2. Len(rows) \in Nat /\ end \in Nat /\ end <= Len(rows)
  OBVIOUS
<1>3. Reach(rows, o, n) = (IF o + 1 <= end THEN end - o ELSE 0)
  BY <1>2 DEF Reach
<1>4. Reach(rows, o, n) \in Nat /\ Reach(rows, o, n) <= n
  BY <1>2 DEF Reach
<1> HIDE DEF end
<1>5. /\ SubSeq(rows, o + 1, end) \in Seq(T)
      /\ Len(SubSeq(rows, o + 1, end)) = IF o + 1 <= end THEN end - o ELSE 0
      /\ \A i \in 1 .. Len(SubSeq(rows, o + 1, end)) : SubSeq(rows, o + 1, end)[i] = rows[o + i]
  <2>1. \A i \in o + 1 .. end : rows[i] \in T
    BY <1>2
  <2>2. /\ SubSeq(rows, o + 1, end) \in Seq(T)
        /\ Len(SubSeq(rows, o + 1, end)) = IF o + 1 <= end THEN end - (o + 1) + 1 ELSE 0
        /\ \A i \in 1 .. end - (o + 1) + 1 : SubSeq(rows, o + 1, end)[i] = rows[o + 1 + i - 1]
    <3>1. o + 1 \in Int /\ end \in Int
      BY <1>2
    <3> QED
      BY <2>1, <3>1, SubSeqProperties
  <2>3. end - (o + 1) + 1 = end - o /\ \A i \in Int : o + 1 + i - 1 = o + i
    BY <1>2
  <2>4. \A i \in 1 .. end - o : SubSeq(rows, o + 1, end)[i] = rows[o + i]
    BY <2>2, <2>3
  <2>5. 1 .. (IF o + 1 <= end THEN end - o ELSE 0) = 1 .. end - o
    BY <1>2
  <2> QED
    BY <2>2, <2>3, <2>4, <2>5
<1>6. \A i \in 1 .. Reach(rows, o, n) : o + i \in 1 .. Len(rows)
  BY <1>2, <1>3
<1> QED
  BY <1>1, <1>3, <1>4, <1>5, <1>6

\* The rows received are the first ones of the list.
ReadTo(rows, received, upto) ==
    /\ received \in Seq(RowPairs) /\ upto \in Nat /\ Len(received) = upto /\ upto <= Len(rows)
    /\ \A i \in 1 .. upto : received[i] = rows[i]

LEMMA SliceContinues ==
    ASSUME NEW rows \in Seq(RowPairs), NEW received, NEW o \in Nat, NEW n \in Nat,
           ReadTo(rows, received, o)
    PROVE  /\ ReadTo(rows, received \o Paging!Slice(rows, o, n), o + Reach(rows, o, n))
           /\ o + n < Len(rows) => o + Reach(rows, o, n) = o + n
           /\ ~(o + n < Len(rows)) => o + Reach(rows, o, n) = Len(rows)
<1> DEFINE slice == Paging!Slice(rows, o, n)
           len == Reach(rows, o, n)
           more == received \o slice
<1>1. /\ slice \in Seq(RowPairs) /\ Len(slice) = len /\ len \in Nat
      /\ \A i \in 1 .. len : o + i \in 1 .. Len(rows) /\ slice[i] = rows[o + i]
  BY SliceIs
<1>2. /\ received \in Seq(RowPairs) /\ Len(received) = o /\ o <= Len(rows)
      /\ \A i \in 1 .. o : received[i] = rows[i]
  BY DEF ReadTo
<1>3. Len(rows) \in Nat /\ (o + n < Len(rows) => len = n) /\ (~(o + n < Len(rows)) => len = Len(rows) - o)
  BY <1>2 DEF Reach
<1> HIDE DEF slice, len
<1>4. /\ more \in Seq(RowPairs) /\ Len(more) = o + len
      /\ \A i \in 1 .. o + len : more[i] = IF i <= o THEN received[i] ELSE slice[i - o]
  <2>1. /\ more \in Seq(RowPairs) /\ Len(more) = Len(received) + Len(slice)
        /\ \A i \in 1 .. Len(received) + Len(slice) :
             more[i] = IF i <= Len(received) THEN received[i] ELSE slice[i - Len(received)]
    BY <1>1, <1>2, ConcatProperties
  <2>2. Len(received) = o /\ Len(slice) = len
    BY <1>1, <1>2
  <2> HIDE DEF more
  <2> QED
    BY <2>1, <2>2
<1>5. ASSUME NEW i \in 1 .. o + len PROVE more[i] = rows[i]
  <2>1. CASE i <= o
    BY <1>2, <1>4, <2>1
  <2>2. CASE ~(i <= o)
    <3>1. i - o \in 1 .. len /\ o + (i - o) = i
      BY <1>1, <2>2
    <3>2. slice[i - o] = rows[o + (i - o)]
      BY <1>1, <3>1
    <3> QED
      BY <1>4, <2>2, <3>1, <3>2
  <2> QED
    BY <2>1, <2>2
<1>6. o + len \in Nat /\ o + len <= Len(rows)
  BY <1>1, <1>2, <1>3
<1>7. ReadTo(rows, more, o + len)
  BY <1>4, <1>5, <1>6 DEF ReadTo
<1> QED
  BY <1>3, <1>7 DEF slice, len

\* An answer continues the list where it was left, and ends it or brings the
\* reader further.
LEMMA AnswerContinues ==
    ASSUME NEW rows \in Seq(RowPairs), NEW received, NEW o \in Nat, NEW n \in Nat,
           ReadTo(rows, received, o)
    PROVE  LET p == Paging!Answer(rows, o, n)
           IN  /\ ReadTo(rows, received \o p.rows, IF p.next = None THEN Len(rows) ELSE p.next)
               /\ p.next \in Nat \cup {None} /\ p.refused = FALSE
               /\ n # 0 \/ o = Len(rows) => p.rows # << >> \/ p.next = None
<1> DEFINE p == Paging!Answer(rows, o, n)
           slice == Paging!Slice(rows, o, n)
<1>1. /\ p.rows = slice /\ p.refused = FALSE
      /\ p.next = IF o + n < Len(rows) THEN o + n ELSE None
  BY DEF Paging!Answer
<1>2. None \notin Nat
  BY PagingAssumption
<1>3. /\ ReadTo(rows, received \o slice, o + Reach(rows, o, n))
      /\ o + n < Len(rows) => o + Reach(rows, o, n) = o + n
      /\ ~(o + n < Len(rows)) => o + Reach(rows, o, n) = Len(rows)
  BY SliceContinues
<1>4. Len(slice) = Reach(rows, o, n)
  BY SliceIs
<1>5. Len(rows) \in Nat /\ o + n \in Nat /\ o <= Len(rows)
  BY DEF ReadTo
<1> HIDE DEF p, slice
<1>6. CASE o + n < Len(rows)
  <2>1. p.next = o + n /\ p.next \in Nat /\ p.next # None
    BY <1>1, <1>2, <1>5, <1>6
  <2>2. o # Len(rows) /\ Len(slice) = n
    BY <1>4, <1>5, <1>6 DEF Reach
  <2>3. n # 0 => slice # << >>
    BY <2>2
  <2> QED
    BY <1>1, <1>3, <1>6, <2>1, <2>2, <2>3 DEF p
<1>7. CASE ~(o + n < Len(rows))
  <2>1. p.next = None
    BY <1>1, <1>7
  <2> QED
    BY <1>1, <1>3, <1>7, <2>1 DEF p
<1> QED
  BY <1>6, <1>7

\* A longer slice is no lighter than its first row.
LEMMA FirstRowFits ==
    ASSUME NEW rows \in Seq(RowPairs), NEW o \in Nat, NEW n \in Nat, n # 0, o < Len(rows),
           Paging!Bounded(Paging!Slice(rows, o, n))
    PROVE  Paging!Bounded(Paging!Slice(rows, o, 1))
<1> DEFINE slice == Paging!Slice(rows, o, n)
           first == Paging!Slice(rows, o, 1)
           weights == [i \in DOMAIN slice |-> slice[i][2]]
           weight == [i \in DOMAIN first |-> first[i][2]]
           one == {1}
           rest == Nat \ {1}
<1>1. /\ slice \in Seq(RowPairs) /\ Len(slice) = Reach(rows, o, n)
      /\ \A i \in 1 .. Reach(rows, o, n) : o + i \in 1 .. Len(rows) /\ slice[i] = rows[o + i]
  BY SliceIs
<1>2. /\ first \in Seq(RowPairs) /\ Len(first) = Reach(rows, o, 1)
      /\ \A i \in 1 .. Reach(rows, o, 1) : first[i] = rows[o + i]
  <2>1. 1 \in Nat
    OBVIOUS
  <2> QED
    BY <2>1, SliceIs
<1>3. Reach(rows, o, 1) = 1 /\ Reach(rows, o, n) \in Nat /\ Reach(rows, o, n) >= 1
  BY DEF Reach
<1>4. first[1] = slice[1] /\ slice[1] \in RowPairs
  BY <1>1, <1>2, <1>3
<1>5. /\ Paging!Weight(slice) = Paging!Total(0, weights)
      /\ Paging!Weight(first) = Paging!Total(0, weight)
  BY DEF Paging!Weight
<1> HIDE DEF slice, first
<1>6. DOMAIN slice = 1 .. Len(slice) /\ DOMAIN first = 1 .. 1 /\ \A i \in DOMAIN slice : slice[i][2] \in Nat
  <2>1. DOMAIN slice = 1 .. Len(slice)
    BY <1>1
  <2>2. DOMAIN first = 1 .. 1
    BY <1>2, <1>3
  <2>3. \A i \in DOMAIN slice : slice[i] \in RowPairs
    BY <1>1
  <2>4. \A r \in RowPairs : r[2] \in Nat
    BY DEF RowPairs
  <2> QED
    BY <2>1, <2>2, <2>3, <2>4
<1>7. weights \in Seq(Nat) /\ Len(weights) = Len(slice)
  <2>1. weights \in [1 .. Len(slice) -> Nat] /\ Len(slice) \in Nat
    BY <1>1, <1>6
  <2> QED
    BY <2>1, ListOf
<1>8. weight = <<weights[1]>>
  <2>1. weight = [i \in 1 .. 1 |-> first[1][2]]
    BY <1>6
  <2>2. weights[1] = slice[1][2]
    BY <1>1, <1>3, <1>6
  <2> QED
    BY <1>4, <2>1, <2>2
<1> HIDE DEF weights, weight
<1>9. weights \in Seq(Int) /\ 1 \in DOMAIN weights
  <2>1. Len(weights) >= 1 /\ Len(weights) \in Nat /\ DOMAIN weights = 1 .. Len(weights)
    BY <1>1, <1>3, <1>7
  <2>2. weights \in [1 .. Len(weights) -> Int]
    BY <1>7, <2>1
  <2> QED
    BY <2>1, <2>2, ListOf
<1>10. Total(0, weights) = Total(0, Picked(weights, one)) + Total(0, Picked(weights, rest))
  <2>1. \A i \in 1 .. Len(weights) : i \in rest <=> i \notin one
    OBVIOUS
  <2> QED
    BY <1>9, <2>1, TotalSplit
<1>11. Picked(weights, one) = weight
  BY <1>8, <1>9, PickedOne
<1>12. Picked(weights, rest) \in Seq(Nat)
  BY <1>7, PickedEntries
<1>13. Total(0, Picked(weights, rest)) \in Nat
  BY <1>12, TotalNat
<1>14. Total(0, weight) \in Nat
  <2>1. weight \in Seq(Nat)
    BY <1>7, <1>11, PickedEntries
  <2> QED
    BY <2>1, TotalNat
<1>15. Total(0, weight) <= Total(0, weights)
  BY <1>10, <1>11, <1>13, <1>14
<1>16. Total(0, weights) \in Nat
  BY <1>7, TotalNat
<1>17. Paging!Weight(first) <= Paging!Weight(slice) /\ Paging!Weight(first) \in Nat /\ Paging!Weight(slice) \in Nat
  BY <1>5, <1>14, <1>15, <1>16, SamePageTotal
<1>18. Envelope \in Nat /\ PageBytes \in Nat
  BY PagingAssumption
<1>19. Envelope + Paging!Weight(slice) <= PageBytes
  BY DEF Paging!Bounded, slice
<1>20. Envelope + Paging!Weight(first) <= PageBytes
  BY <1>17, <1>18, <1>19
<1> QED
  BY <1>20 DEF Paging!Bounded, first

LEMMA NoRows ==
    ASSUME NEW rows \in Seq(RowPairs), NEW o \in Nat, NEW n \in Nat, o = Len(rows) \/ n = 0
    PROVE  Paging!Slice(rows, o, n) = << >> /\ Paging!Weight(Paging!Slice(rows, o, n)) = 0
<1>1. Reach(rows, o, n) = 0
  BY DEF Reach
<1>2. Paging!Slice(rows, o, n) = << >>
  BY <1>1, SliceIs, EmptySeq
<1>3. Paging!Weight(<< >>) = 0
  <2>1. [i \in DOMAIN << >> |-> << >>[i][2]] = << >>
    OBVIOUS
  <2>2. Paging!Weight(<< >>) = Paging!Total(0, << >>)
    BY <2>1 DEF Paging!Weight
  <2>3. Total(0, << >>) = 0
    BY TotalEmpty
  <2> QED
    BY <2>2, <2>3, SamePageTotal
<1> QED
  BY <1>2, <1>3

LEMMA NothingFits ==
    ASSUME NEW rows \in Seq(RowPairs), NEW o \in Nat, NEW n \in Nat, o = Len(rows) \/ n = 0
    PROVE  Paging!Bounded(Paging!Slice(rows, o, n))
<1>1. Paging!Weight(Paging!Slice(rows, o, n)) = 0
  BY NoRows
<1>2. Envelope \in Nat /\ Envelope <= PageBytes /\ PageBytes \in Nat
  BY PagingAssumption
<1> QED
  BY <1>1, <1>2 DEF Paging!Bounded

-------------------------------------------------------------------------------
(* The page functions *)

\* A page is an answer of the page functions, or says that it is refused.
GoodPage(p, rows, o) ==
    \/ p = Paging!Refused
    \/ \E n \in Nat : p = Paging!Answer(rows, o, n) /\ (n # 0 \/ o = Len(rows))

\* A single row that does not fit.
HardRow(rows, o) == o < Len(rows) /\ ~Paging!Bounded(Paging!Slice(rows, o, 1))

LEMMA RefusedOrNot ==
    ASSUME NEW rows, NEW o, NEW n
    PROVE  Paging!Refused.refused /\ ~Paging!Answer(rows, o, n).refused
BY DEF Paging!Refused, Paging!Answer

\* The rows that are popped leave the most that fit, and one at least.
LEMMA TrimmedPage ==
    ASSUME NEW rows \in Seq(RowPairs), NEW o \in 0 .. Len(rows), NEW l \in Limits
    PROVE  LET p == Paging!Trimmed(rows, o, l)
           IN  GoodPage(p, rows, o) /\ (p.refused <=> HardRow(rows, o))
<1> DEFINE most == Len(Paging!Slice(rows, o, l))
           S == {k \in 0 .. most : k <= 1 \/ Paging!Bounded(Paging!Slice(rows, o, k))}
           n == Paging!Max(S)
           fits == Paging!Bounded(Paging!Slice(rows, o, n))
           p == Paging!Trimmed(rows, o, l)
<1>1. p = IF fits THEN Paging!Answer(rows, o, n) ELSE Paging!Refused
  BY DEF Paging!Trimmed
<1>2. Limits \subseteq Nat \ {0}
  BY PagingAssumption
<1>3. o \in Nat /\ Len(rows) \in Nat /\ o <= Len(rows) /\ l \in Nat /\ l # 0
  BY <1>2
<1>4. most = Reach(rows, o, l) /\ most \in Nat
  BY <1>3, SliceIs
<1>5. most = 0 <=> o = Len(rows)
  BY <1>3, <1>4 DEF Reach
<1> HIDE DEF most
<1>6. S \in SUBSET (0 .. most) /\ 0 \in S
  BY <1>4
<1>7. n \in S /\ \A k \in S : k <= n
  BY <1>4, <1>6, MaxWithin
<1>8. n \in Nat /\ (n <= 1 \/ fits)
  BY <1>4, <1>7
<1>9. CASE o = Len(rows)
  <2>1. fits
    BY <1>3, <1>8, <1>9, NothingFits
  <2>2. ~HardRow(rows, o)
    BY <1>3, <1>9 DEF HardRow
  <2>3. p = Paging!Answer(rows, o, n)
    BY <1>1, <2>1
  <2> QED
    BY <1>8, <1>9, <2>2, <2>3, RefusedOrNot DEF GoodPage
<1>10. CASE o # Len(rows)
  <2>1. 1 \in S
    BY <1>4, <1>5, <1>10
  <2>2. n # 0
    BY <1>7, <1>8, <2>1
  <2>3. fits => Paging!Bounded(Paging!Slice(rows, o, 1))
    BY <1>3, <1>8, <1>10, <2>2, FirstRowFits
  <2>4. ~fits => n = 1
    BY <1>8, <2>2
  <2>5. fits <=> ~HardRow(rows, o)
    BY <1>3, <1>10, <2>3, <2>4 DEF HardRow
  <2>6. CASE fits
    <3>1. p = Paging!Answer(rows, o, n)
      BY <1>1, <2>6
    <3> QED
      BY <1>8, <2>2, <2>5, <2>6, <3>1, RefusedOrNot DEF GoodPage
  <2>7. CASE ~fits
    <3>1. p = Paging!Refused
      BY <1>1, <2>7
    <3> QED
      BY <2>5, <2>7, <3>1, RefusedOrNot DEF GoodPage
  <2> QED
    BY <2>6, <2>7
<1> QED
  BY <1>9, <1>10 DEF p

\* So do the halves of a limit.
LEMMA HalvedPage ==
    ASSUME NEW rows \in Seq(RowPairs), NEW o \in 0 .. Len(rows), NEW l \in Limits
    PROVE  LET p == Paging!Halved(rows, o, l)
           IN  GoodPage(p, rows, o) /\ (p.refused <=> HardRow(rows, o))
<1> DEFINE S == {m \in Paging!Halves(l) : m = 1 \/ Paging!Bounded(Paging!Slice(rows, o, m))}
           n == Paging!Max(S)
           fits == Paging!Bounded(Paging!Slice(rows, o, n))
           p == Paging!Halved(rows, o, l)
<1>1. p = IF fits THEN Paging!Answer(rows, o, n) ELSE Paging!Refused
  BY DEF Paging!Halved
<1>2. Limits \subseteq Nat \ {0}
  BY PagingAssumption
<1>3. o \in Nat /\ Len(rows) \in Nat /\ o <= Len(rows) /\ l \in Nat /\ l # 0
  BY <1>2
<1>4. 1 \in Paging!Halves(l) /\ Paging!Halves(l) \subseteq 1 .. l
  BY <1>3 DEF Paging!Halves
<1>5. 1 \in S /\ S \in SUBSET (0 .. l) /\ \A m \in S : m >= 1
  BY <1>3, <1>4
<1>6. n \in S
  BY <1>3, <1>5, MaxWithin
<1>7. n \in Nat /\ n # 0 /\ (n = 1 \/ fits)
  BY <1>3, <1>5, <1>6
<1>8. fits <=> ~HardRow(rows, o)
  <2>1. CASE o = Len(rows)
    <3>1. fits
      BY <1>3, <1>7, <2>1, NothingFits
    <3> QED
      BY <1>3, <2>1, <3>1 DEF HardRow
  <2>2. CASE o # Len(rows)
    <3>1. fits => Paging!Bounded(Paging!Slice(rows, o, 1))
      BY <1>3, <1>7, <2>2, FirstRowFits
    <3> QED
      BY <1>3, <1>7, <2>2, <3>1 DEF HardRow
  <2> QED
    BY <2>1, <2>2
<1>9. CASE fits
  <2>1. p = Paging!Answer(rows, o, n)
    BY <1>1, <1>9
  <2> QED
    BY <1>7, <1>8, <1>9, <2>1, RefusedOrNot DEF GoodPage
<1>10. CASE ~fits
  <2>1. p = Paging!Refused
    BY <1>1, <1>10
  <2> QED
    BY <1>8, <1>10, <2>1, RefusedOrNot DEF GoodPage
<1> QED
  BY <1>9, <1>10 DEF p

LEMMA FixedPage ==
    ASSUME NEW rows, NEW o, NEW l \in Limits
    PROVE  GoodPage(Paging!Fixed(rows, o, l), rows, o)
<1>1. Limits \subseteq Nat \ {0}
  BY PagingAssumption
<1>2. l \in Nat /\ l # 0
  BY <1>1
<1> QED
  BY <1>2 DEF GoodPage, Paging!Fixed

-------------------------------------------------------------------------------
(* The reader of a list *)

Views == {"trimmed", "fixed", "halved", "joint"}

\* What a page function reads: the first list, or both of them side by side.
Joined(lists) ==
    [i \in 1 .. Paging!Longer(lists[1], lists[2]) |->
        Paging!SizeAt(lists[1], i) + Paging!SizeAt(lists[2], i)]
TheRows(v, lists) == IF v = "joint" THEN Paging!Rows(Joined(lists)) ELSE Paging!Rows(lists[1])

LEMMA JoinedType ==
    ASSUME NEW a \in Seq(Nat), NEW b \in Seq(Nat)
    PROVE  Joined(<<a, b>>) \in Seq(Nat) /\ Len(Joined(<<a, b>>)) = Paging!Longer(a, b)
<1> DEFINE n == Paging!Longer(a, b)
           size == [i \in 1 .. n |-> Paging!SizeAt(a, i) + Paging!SizeAt(b, i)]
<1>1. n \in Nat
  BY DEF Paging!Longer
<1>2. \A i : Paging!SizeAt(a, i) \in Nat /\ Paging!SizeAt(b, i) \in Nat
  BY DEF Paging!SizeAt
<1>3. Joined(<<a, b>>) = size
  BY DEF Joined
<1> HIDE DEF n
<1>4. size \in [1 .. n -> Nat]
  BY <1>2
<1> HIDE DEF size
<1>5. size \in Seq(Nat) /\ Len(size) = n
  BY <1>1, <1>4, ListOf
<1> QED
  BY <1>3, <1>5 DEF n

LEMMA TheRowsType ==
    ASSUME NEW v \in Views, NEW a \in Seq(Nat), NEW b \in Seq(Nat)
    PROVE  LET rows == TheRows(v, <<a, b>>)
           IN  /\ rows \in Seq(RowPairs) /\ \A i \in 1 .. Len(rows) : rows[i][1] = i
               /\ Len(rows) = IF v = "joint" THEN Paging!Longer(a, b) ELSE Len(a)
<1>1. ASSUME NEW sizes \in Seq(Nat)
      PROVE  /\ Paging!Rows(sizes) \in Seq(RowPairs) /\ Len(Paging!Rows(sizes)) = Len(sizes)
             /\ \A i \in 1 .. Len(Paging!Rows(sizes)) : Paging!Rows(sizes)[i][1] = i
  BY RowsType
<1>2. CASE v = "joint"
  <2>1. TheRows(v, <<a, b>>) = Paging!Rows(Joined(<<a, b>>))
    BY <1>2 DEF TheRows
  <2> QED
    BY <1>1, <1>2, <2>1, JoinedType
<1>3. CASE v # "joint"
  <2>1. TheRows(v, <<a, b>>) = Paging!Rows(a)
    BY <1>3 DEF TheRows
  <2> QED
    BY <1>1, <1>3, <2>1
<1> QED
  BY <1>2, <1>3

LEMMA ListPageGood ==
    ASSUME NEW v \in Views, NEW a \in Seq(Nat), NEW b \in Seq(Nat),
           NEW o \in 0 .. Len(TheRows(v, <<a, b>>)), NEW l \in Limits
    PROVE  LET p == Paging!ListPage(v, <<a, b>>, o, l)
               rows == TheRows(v, <<a, b>>)
           IN  GoodPage(p, rows, o) /\ (v # "fixed" => (p.refused <=> HardRow(rows, o)))
<1> DEFINE p == Paging!ListPage(v, <<a, b>>, o, l)
           rows == TheRows(v, <<a, b>>)
<1>1. rows \in Seq(RowPairs)
  BY TheRowsType
<1>2. CASE v = "trimmed"
  <2>1. p = Paging!Trimmed(rows, o, l)
    BY <1>2 DEF Paging!ListPage, TheRows
  <2> QED
    BY <1>1, <2>1, TrimmedPage
<1>3. CASE v = "fixed"
  <2>1. p = Paging!Fixed(rows, o, l)
    BY <1>3 DEF Paging!ListPage, TheRows
  <2> QED
    BY <1>3, <2>1, FixedPage
<1>4. CASE v = "halved"
  <2>1. p = Paging!Halved(rows, o, l)
    BY <1>4 DEF Paging!ListPage, TheRows
  <2> QED
    BY <1>1, <2>1, HalvedPage
<1>5. CASE v = "joint"
  <2>1. p = Paging!Joint(a, b, o, l)
    BY <1>5 DEF Paging!ListPage
  <2>2. p = Paging!Trimmed(rows, o, l)
    BY <1>5, <2>1 DEF Paging!Joint, TheRows, Joined
  <2> QED
    BY <1>1, <2>2, TrimmedPage
<1> QED
  BY <1>2, <1>3, <1>4, <1>5 DEF Views

\* A reader of a list has its first rows, up to the offset it asks for next.
ListRead ==
    \E a, b \in Seq(Nat) :
      /\ table = <<a, b>> /\ offset \in Nat \cup {None}
      /\ ReadTo(TheRows(view, table), got, IF offset = None THEN Len(TheRows(view, table)) ELSE offset)
      /\ page # None => page.rows # << >> \/ page.next = None
      /\ view # "fixed" /\ page # None /\ page.refused =>
           offset \in Nat /\ HardRow(TheRows(view, table), offset)

LEMMA ListReadSound ==
    ASSUME view \in Views, ListRead
    PROVE  Paging!PagesLossless
<1> DEFINE rows == TheRows(view, table)
           upto == IF offset = None THEN Len(rows) ELSE offset
<1>1. PICK a, b \in Seq(Nat) :
        /\ table = <<a, b>> /\ offset \in Nat \cup {None} /\ ReadTo(rows, got, upto)
        /\ page # None => page.rows # << >> \/ page.next = None
        /\ view # "fixed" /\ page # None /\ page.refused => offset \in Nat /\ HardRow(rows, offset)
  BY DEF ListRead
<1>2. /\ rows \in Seq(RowPairs) /\ \A i \in 1 .. Len(rows) : rows[i][1] = i
      /\ Len(rows) = IF view = "joint" THEN Paging!Longer(a, b) ELSE Len(a)
  BY <1>1, TheRowsType
<1>3. Len(Paging!Whole) = Len(rows)
  <2>1. view # "text"
    BY DEF Views
  <2>2. CASE view = "joint"
    <3>1. Paging!Whole = [i \in 1 .. Paging!Longer(a, b) |-> i]
      BY <1>1, <2>1, <2>2 DEF Paging!Whole
    <3>2. Paging!Longer(a, b) \in Nat
      BY DEF Paging!Longer
    <3> QED
      BY <1>2, <2>2, <3>1, <3>2
  <2>3. CASE view # "joint"
    <3>1. Paging!Whole = Paging!Rows(a)
      BY <1>1, <2>1, <2>3 DEF Paging!Whole
    <3> QED
      BY <1>2, <2>3, <3>1, RowsType
  <2> QED
    BY <2>2, <2>3
<1>4. [i \in DOMAIN got |-> got[i][1]] = [i \in 1 .. upto |-> i]
  <2> HIDE DEF rows, upto
  <2>1. got \in Seq(RowPairs) /\ Len(got) = upto /\ upto <= Len(rows) /\ upto \in Nat
        /\ \A i \in 1 .. upto : got[i] = rows[i]
    BY <1>1 DEF ReadTo
  <2>2. DOMAIN got = 1 .. upto
    BY <2>1
  <2>3. \A i \in 1 .. upto : got[i][1] = i
    BY <1>2, <2>1
  <2> QED
    BY <2>2, <2>3
<1>5. ASSUME view # "fixed", page # None, page.refused, NEW l \in Limits
      PROVE  Paging!ListPage(view, table, offset, l).refused
  <2>1. offset \in Nat /\ HardRow(rows, offset)
    BY <1>1, <1>5
  <2>2. offset \in 0 .. Len(TheRows(view, <<a, b>>))
    BY <1>1, <1>2, <2>1 DEF HardRow
  <2> QED
    BY <1>1, <1>5, <2>1, <2>2, ListPageGood
<1>6. upto = IF offset = None THEN Len(Paging!Whole) ELSE offset
  BY <1>3
<1> QED
  BY <1>1, <1>4, <1>5, <1>6 DEF Paging!PagesLossless

LEMMA ReadListStep ==
    ASSUME view \in Views, ListRead, NEW l \in Limits, Paging!ReadList(l)
    PROVE  ListRead'
<1> DEFINE rows == TheRows(view, table)
           p == Paging!ListPage(view, table, offset, l)
<1>1. PICK a, b \in Seq(Nat) :
        /\ table = <<a, b>> /\ offset \in Nat \cup {None}
        /\ ReadTo(rows, got, IF offset = None THEN Len(rows) ELSE offset)
  BY DEF ListRead
<1>2. /\ offset \in Nat /\ page' = p /\ got' = got \o p.rows
      /\ offset' = IF p.refused THEN offset ELSE p.next
      /\ view' = view /\ table' = table
  BY <1>1 DEF Paging!ReadList, Paging!Received
<1>3. rows \in Seq(RowPairs)
  BY <1>1, TheRowsType
<1>4. None \notin Nat
  BY PagingAssumption
<1>5. ReadTo(rows, got, offset) /\ offset \in 0 .. Len(rows)
  <2>1. ReadTo(rows, got, offset)
    BY <1>1, <1>2, <1>4
  <2>2. offset <= Len(rows) /\ Len(rows) \in Nat
    BY <1>3, <2>1 DEF ReadTo
  <2> QED
    BY <1>2, <2>1, <2>2
<1>6. GoodPage(p, rows, offset) /\ (view # "fixed" => (p.refused <=> HardRow(rows, offset)))
  BY <1>1, <1>5, ListPageGood
<1>7. rows' = rows
  BY <1>2
<1>8. CASE p = Paging!Refused
  <2>1. p.rows = << >> /\ p.next = None /\ p.refused
    BY <1>8 DEF Paging!Refused
  <2>2. got' = got
    <3>1. got \in Seq(RowPairs)
      BY <1>5 DEF ReadTo
    <3> QED
      BY <1>2, <2>1, <3>1
  <2>3. offset' = offset
    BY <1>2, <2>1
  <2>4. ReadTo(rows, got, IF offset = None THEN Len(rows) ELSE offset)
    BY <1>1
  <2> HIDE DEF rows, p
  <2> QED
    BY <1>1, <1>2, <1>6, <1>7, <2>1, <2>2, <2>3, <2>4 DEF ListRead, rows
<1>9. ASSUME NEW n \in Nat, p = Paging!Answer(rows, offset, n), n # 0 \/ offset = Len(rows)
      PROVE  ListRead'
  <2>1. /\ ReadTo(rows, got \o p.rows, IF p.next = None THEN Len(rows) ELSE p.next)
        /\ p.next \in Nat \cup {None} /\ p.refused = FALSE
        /\ p.rows # << >> \/ p.next = None
    <3> HIDE DEF rows, p
    <3>1. LET q == Paging!Answer(rows, offset, n)
          IN  /\ ReadTo(rows, got \o q.rows, IF q.next = None THEN Len(rows) ELSE q.next)
              /\ q.next \in Nat \cup {None} /\ q.refused = FALSE
              /\ n # 0 \/ offset = Len(rows) => q.rows # << >> \/ q.next = None
      BY <1>2, <1>3, <1>5, AnswerContinues
    <3> QED
      BY <1>9, <3>1
  <2>2. offset' = p.next /\ ~page'.refused
    BY <1>2, <2>1
  <2> HIDE DEF rows, p
  <2> QED
    BY <1>1, <1>2, <1>7, <2>1, <2>2 DEF ListRead, rows
<1> QED
  BY <1>6, <1>8, <1>9 DEF GoodPage

-------------------------------------------------------------------------------
(* The reader of a document *)

LEMMA FragmentIs ==
    ASSUME NEW rows \in Seq(RowPairs), NEW o \in Nat, NEW l \in Limits
    PROVE  \E n \in Nat : Paging!Fragment(rows, o, l) = Paging!Answer(rows, o, n)
<1> DEFINE most == IF l < FragmentRows THEN l ELSE FragmentRows
           S == {n \in 0 .. most : Paging!Weight(Paging!Slice(rows, o, n)) <= TextBytes}
<1>1. Limits \subseteq Nat \ {0}
  BY PagingAssumption
<1>2. FragmentRows \in Nat \ {0} /\ TextBytes \in Nat
  BY PagingAssumption
<1>3. most \in Nat
  BY <1>1, <1>2
<1>4. Paging!Weight(Paging!Slice(rows, o, 0)) = 0
  BY NoRows
<1>5. Paging!Fragment(rows, o, l) = Paging!Answer(rows, o, Paging!Max(S))
  BY DEF Paging!Fragment
<1> HIDE DEF most
<1>6. 0 \in S /\ S \in SUBSET (0 .. most)
  BY <1>2, <1>3, <1>4
<1>7. Paging!Max(S) \in S
  BY <1>3, <1>6, MaxWithin
<1>8. Paging!Max(S) \in Nat
  BY <1>3, <1>6, <1>7
<1> QED
  BY <1>5, <1>8

\* While one digest was seen, what was received are the first characters of the
\* section it seals.
TextRead ==
    /\ table \in [Parts -> Contents] /\ section \in Parts /\ offset \in Nat \cup {None}
    /\ seals = {} => got = << >> /\ offset = 0
    /\ \A t \in [Parts -> Contents] : seals = {t} =>
         LET rows == Paging!Rows(t[section])
         IN  ReadTo(rows, got, IF offset = None THEN Len(rows) ELSE offset)
    /\ seals \in SUBSET [Parts -> Contents] /\ IsFiniteSet(seals) /\ got \in Seq(RowPairs)

LEMMA SectionType ==
    ASSUME NEW t \in [Parts -> Contents], NEW s \in Parts
    PROVE  Paging!Rows(t[s]) \in Seq(RowPairs)
<1>1. Contents \subseteq Seq(Nat)
  BY PagingAssumption
<1>2. t[s] \in Seq(Nat)
  BY <1>1
<1> QED
  BY <1>2, RowsType

LEMMA ReadWhole ==
    ASSUME NEW rows \in Seq(RowPairs), NEW received, ReadTo(rows, received, Len(rows))
    PROVE  received = rows
<1>1. received \in Seq(RowPairs) /\ Len(received) = Len(rows) /\ \A i \in 1 .. Len(rows) : received[i] = rows[i]
  BY DEF ReadTo
<1> QED
  BY <1>1, SeqEqual

LEMMA TextReadSound ==
    ASSUME TextRead
    PROVE  Paging!FragmentsOfOneText
<1> SUFFICES ASSUME offset = None, Paging!Cardinality(seals) = 1
             PROVE  \E sealed \in seals : got = Paging!Rows(sealed[section])
  BY DEF Paging!FragmentsOfOneText
<1>1. Cardinality(seals) = 1
  BY DEF Paging!Cardinality, Cardinality
<1>3. PICK t : seals = {t}
  BY <1>1, FS_Singleton DEF TextRead
<1>4. t \in [Parts -> Contents] /\ section \in Parts
  BY <1>3 DEF TextRead
<1>5. ReadTo(Paging!Rows(t[section]), got, Len(Paging!Rows(t[section])))
  BY <1>3, <1>4 DEF TextRead
<1>6. got = Paging!Rows(t[section])
  BY <1>4, <1>5, SectionType, ReadWhole
<1> QED
  BY <1>3, <1>6

LEMMA ReadTextStep ==
    ASSUME TextRead, NEW l \in Limits, Paging!ReadText(l)
    PROVE  TextRead'
<1> DEFINE here == Paging!Rows(table[section])
           p == IF view = "text" THEN Paging!Fragment(here, offset, l) ELSE Paging!Fixed(here, offset, l)
<1>1. /\ table \in [Parts -> Contents] /\ section \in Parts /\ offset \in Nat \cup {None}
      /\ seals \in SUBSET [Parts -> Contents]
  BY DEF TextRead
<1>2. /\ offset \in Nat /\ got' = got \o p.rows
      /\ offset' = IF p.refused THEN offset ELSE p.next
      /\ view' = view /\ table' = table /\ section' = section
      /\ seals' = IF p.refused THEN seals ELSE seals \cup {table}
  BY <1>1 DEF Paging!ReadText, Paging!Received, Paging!Seal
<1>3. here \in Seq(RowPairs)
  BY <1>1, SectionType
<1>4. p = Paging!Refused \/ \E n \in Nat : p = Paging!Answer(here, offset, n)
  <2>1. \E n \in Nat : Paging!Fragment(here, offset, l) = Paging!Answer(here, offset, n)
    BY <1>2, <1>3, FragmentIs
  <2>2. \/ Paging!Fixed(here, offset, l) = Paging!Refused
        \/ Paging!Fixed(here, offset, l) = Paging!Answer(here, offset, l) /\ l \in Nat
    <3>1. Limits \subseteq Nat \ {0}
      BY PagingAssumption
    <3> QED
      BY <3>1 DEF Paging!Fixed
  <2> QED
    BY <2>1, <2>2
<1>5. None \notin Nat /\ got \in Seq(RowPairs) /\ IsFiniteSet(seals)
  BY PagingAssumption DEF TextRead
<1>6. ASSUME NEW t \in [Parts -> Contents], t = table
      PROVE  Paging!Rows(t[section']) = here
  BY <1>2, <1>6
<1>7. CASE p = Paging!Refused
  <2>1. p.refused = TRUE /\ p.rows = << >>
    BY <1>7 DEF Paging!Refused
  <2> HIDE DEF here, p
  <2>2. got \o << >> = got
    BY <1>5
  <2>3. UNCHANGED <<table, section, offset, got, seals>>
    BY <1>2, <2>1, <2>2
  <2> QED
    BY <2>3 DEF TextRead
<1>8. ASSUME NEW n \in Nat, p = Paging!Answer(here, offset, n)
      PROVE  TextRead'
  <2>1. /\ p.refused = FALSE /\ p.next = IF offset + n < Len(here) THEN offset + n ELSE None
        /\ p.rows = Paging!Slice(here, offset, n)
    BY <1>8 DEF Paging!Answer
  <2> HIDE DEF here, p
  <2>2. offset' = p.next /\ p.next \in Nat \cup {None} /\ seals' = seals \cup {table}
    <3>1. Len(here) \in Nat /\ offset + n \in Nat
      BY <1>2, <1>3
    <3>2. p.next \in Nat \cup {None}
      BY <2>1, <3>1
    <3> QED
      BY <1>2, <2>1, <3>2
  <2>3. got' \in Seq(RowPairs)
    <3>1. Paging!Slice(here, offset, n) \in Seq(RowPairs)
      BY <1>2, <1>3, SliceIs
    <3> QED
      BY <1>2, <1>5, <2>1, <3>1
  <2>4. ASSUME seals' = {table}
        PROVE  ReadTo(here, got', IF offset' = None THEN Len(here) ELSE offset')
    <3>1. seals = {} \/ seals = {table}
      BY <2>2, <2>4
    <3>2. ReadTo(here, got, offset)
      <4>1. CASE seals = {}
        <5>1. got = << >> /\ offset = 0
          BY <4>1 DEF TextRead
        <5>2. << >> \in Seq(RowPairs) /\ Len(<< >>) = 0 /\ Len(here) \in Nat /\ 1 .. 0 = {}
          BY <1>3
        <5> QED
          BY <5>1, <5>2 DEF ReadTo
      <4>2. CASE seals = {table}
        BY <1>1, <1>2, <1>5, <4>2 DEF TextRead, here
      <4> QED
        BY <3>1, <4>1, <4>2
    <3>3. LET q == Paging!Answer(here, offset, n)
          IN  ReadTo(here, got \o q.rows, IF q.next = None THEN Len(here) ELSE q.next)
      BY <1>2, <1>3, <3>2, AnswerContinues
    <3> QED
      BY <1>2, <1>8, <2>2, <3>3
  <2>5. ASSUME NEW t \in [Parts -> Contents], seals' = {t}
        PROVE  LET rows == Paging!Rows(t[section'])
               IN  ReadTo(rows, got', IF offset' = None THEN Len(rows) ELSE offset')
    <3>1. t = table
      BY <2>2, <2>5
    <3> QED
      BY <1>6, <2>4, <2>5, <3>1
  <2>6. seals' # {} /\ seals' \in SUBSET [Parts -> Contents] /\ IsFiniteSet(seals')
    <3>1. IsFiniteSet({table})
      BY FS_Singleton
    <3>2. IsFiniteSet(seals \cup {table})
      BY <1>5, <3>1, FS_Union
    <3> QED
      BY <1>1, <2>2, <3>2
  <2> QED
    BY <1>1, <1>2, <2>2, <2>3, <2>5, <2>6 DEF TextRead
<1> QED
  BY <1>4, <1>7, <1>8

LEMMA ReviseStep ==
    ASSUME TextRead, NEW s \in Parts, NEW content \in Contents, Paging!Revise(s, content)
    PROVE  TextRead'
<1>1. table' \in [Parts -> Contents] /\ UNCHANGED <<section, offset, got, seals>>
  BY DEF TextRead, Paging!Revise
<1> QED
  BY <1>1 DEF TextRead

-------------------------------------------------------------------------------
(* Pages of lists and of documents *)

PagesInv ==
    /\ view \in Views \cup Paging!Documents \cup {None}
    /\ view = None => offset = 0 /\ got = << >> /\ page = None /\ seals = {}
    /\ view \in Views => ListRead
    /\ view \in Paging!Documents => TextRead

LEMMA ViewsDiffer == Views \cap Paging!Documents = {} /\ None \notin Views /\ None \notin Paging!Documents
BY PagingAssumption DEF Views, Paging!Documents

LEMMA PagesSounds ==
    ASSUME PagesInv
    PROVE  Paging!PagesLossless /\ Paging!FragmentsOfOneText
<1>1. Paging!PagesLossless
  <2>1. CASE view \in Views
    BY <2>1, ListReadSound DEF PagesInv
  <2>2. CASE view \notin Views
    BY <2>2 DEF PagesInv, Paging!PagesLossless
  <2> QED
    BY <2>1, <2>2
<1>2. Paging!FragmentsOfOneText
  <2>1. CASE view \in Paging!Documents
    BY <2>1, TextReadSound DEF PagesInv
  <2>2. CASE view \notin Paging!Documents
    BY <2>2 DEF Paging!FragmentsOfOneText
  <2> QED
    BY <2>1, <2>2
<1> QED
  BY <1>1, <1>2

LEMMA OpenedList ==
    ASSUME PagesInv, NEW v \in Views, NEW first \in Seq(Nat), NEW second \in Seq(Nat),
           Paging!OpenList(v, first, second)
    PROVE  PagesInv'
<1>1. /\ view' = v /\ table' = <<first, second>> /\ offset' = 0 /\ got' = << >> /\ page' = None
  BY DEF Paging!OpenList, PagesInv
<1>2. v \notin Paging!Documents /\ v # None
  BY ViewsDiffer
<1>3. TheRows(v, <<first, second>>) \in Seq(RowPairs)
  BY TheRowsType
<1>4. ReadTo(TheRows(v, <<first, second>>), << >>, 0)
  <2> DEFINE rows == TheRows(v, <<first, second>>)
  <2>1. << >> \in Seq(RowPairs) /\ Len(<< >>) = 0 /\ Len(rows) \in Nat /\ 1 .. 0 = {}
    BY <1>3
  <2> HIDE DEF rows
  <2>2. ReadTo(rows, << >>, 0)
    BY <2>1 DEF ReadTo
  <2> QED
    BY <2>2 DEF rows
<1>5. None # 0
  <2>1. None \notin Nat
    BY PagingAssumption
  <2> QED
    BY <2>1
<1>6. ListRead'
  BY <1>1, <1>4, <1>5 DEF ListRead
<1> QED
  BY <1>1, <1>2, <1>6 DEF PagesInv

LEMMA OpenedDocument ==
    ASSUME PagesInv, NEW v \in Paging!Documents, NEW content \in [Parts -> Contents], NEW s \in Parts,
           Paging!OpenDocument(v, content, s)
    PROVE  PagesInv'
<1>1. /\ view' = v /\ table' = content /\ section' = s /\ offset' = 0 /\ got' = << >> /\ seals' = {}
  BY DEF Paging!OpenDocument, PagesInv
<1>2. TextRead'
  BY <1>1, FS_EmptySet DEF TextRead
<1> QED
  BY <1>1, <1>2, ViewsDiffer DEF PagesInv

LEMMA PagesStep == PagesInv /\ [Paging!Next]_pageVars => PagesInv'
<1> SUFFICES ASSUME PagesInv, [Paging!Next]_pageVars
             PROVE  PagesInv'
  OBVIOUS
<1>1. ASSUME NEW v \in {"trimmed", "fixed", "halved"}, NEW first \in Tables,
             Paging!OpenList(v, first, << >>)
      PROVE  PagesInv'
  <2>1. Tables \subseteq Seq(Nat)
    BY PagingAssumption
  <2>2. first \in Seq(Nat) /\ << >> \in Seq(Nat) /\ v \in Views
    BY <2>1 DEF Views
  <2> QED
    BY <1>1, <2>2, OpenedList
<1>2. ASSUME NEW first \in Tables, NEW second \in Tables, Paging!OpenList("joint", first, second)
      PROVE  PagesInv'
  <2>1. Tables \subseteq Seq(Nat)
    BY PagingAssumption
  <2>2. first \in Seq(Nat) /\ second \in Seq(Nat) /\ "joint" \in Views
    BY <2>1 DEF Views
  <2> QED
    BY <1>2, <2>2, OpenedList
<1>3. ASSUME NEW v \in Paging!Documents, NEW content \in [Parts -> Contents], NEW s \in Parts,
             Paging!OpenDocument(v, content, s)
      PROVE  PagesInv'
  BY <1>3, OpenedDocument
<1>4. ASSUME NEW l \in Limits, Paging!ReadList(l)
      PROVE  PagesInv'
  <2>1. view \notin Paging!Documents \cup {None} /\ view' = view
    BY <1>4 DEF Paging!ReadList
  <2>2. view \in Views /\ ListRead
    BY <2>1 DEF PagesInv
  <2>3. ListRead'
    BY <1>4, <2>2, ReadListStep
  <2> QED
    BY <2>1, <2>2, <2>3 DEF PagesInv
<1>5. ASSUME NEW l \in Limits, Paging!ReadText(l)
      PROVE  PagesInv'
  <2>1. view \in Paging!Documents /\ view' = view
    BY <1>5 DEF Paging!ReadText
  <2>2. TextRead'
    BY <1>5, <2>1, ReadTextStep DEF PagesInv
  <2> QED
    BY <2>1, <2>2, ViewsDiffer DEF PagesInv
<1>6. ASSUME NEW s \in Parts, NEW content \in Contents, Paging!Revise(s, content)
      PROVE  PagesInv'
  <2>1. view \in Paging!Documents /\ view' = view
    BY <1>6 DEF Paging!Revise, Paging!Documents
  <2>2. TextRead'
    BY <1>6, <2>1, ReviseStep DEF PagesInv
  <2> QED
    BY <2>1, <2>2, ViewsDiffer DEF PagesInv
<1>7. CASE UNCHANGED pageVars
  BY <1>7 DEF pageVars, PagesInv, ListRead, TextRead
<1> QED
  BY <1>1, <1>2, <1>3, <1>4, <1>5, <1>6, <1>7 DEF Paging!Next

\* PagesSound (the paged reads of engine, builds and workflows): whoever follows
\* next_offset has every row once and in order, a page is refused only for a row
\* that no limit would help, and fragments under one digest are the text that
\* digest seals, for lists, sizes and limits of any number.
THEOREM PagesAreSound == AloneSpec => []PagesSound
<1> DEFINE Inv == part = "pages" => PagesInv
<1>1. AloneInit => Inv
  <2> SUFFICES ASSUME AloneInit, part = "pages" PROVE PagesInv
    OBVIOUS
  <2>1. Paging!Init
    BY DEF AloneInit
  <2> QED
    BY <2>1, ViewsDiffer DEF Paging!Init, PagesInv
<1>2. Inv /\ [AloneNext]_<<part, vars, purchaseVars, pageVars, serverVars, installVars, deployVars>> => Inv'
  <2> SUFFICES ASSUME Inv, part' = "pages",
                      [AloneNext]_<<part, vars, purchaseVars, pageVars, serverVars, installVars, deployVars>>
               PROVE  PagesInv'
    OBVIOUS
  <2>1. part = "pages" /\ [Paging!Next]_pageVars
    BY DEF AloneNext
  <2> QED
    BY <2>1, PagesStep
<1>3. Inv => PagesSound
  BY PagesSounds DEF PagesSound
<1> QED
  BY <1>1, <1>2, <1>3, PTL DEF AloneSpec

-------------------------------------------------------------------------------
(* The installation: what replacing does to a text *)

IsFlat(f, parts, len) ==
    f = [i \in 1 .. len |-> IF i = 1 THEN parts[i] ELSE f[i - 1] \o parts[i]]

LEMMA FlatExists ==
    ASSUME NEW T, NEW parts \in Seq(Seq(T))
    PROVE  \E f \in [1 .. Len(parts) -> Seq(T)] : IsFlat(f, parts, Len(parts))
<1> DEFINE S == {l \in Nat : l <= Len(parts) => \E f \in [1 .. l -> Seq(T)] : IsFlat(f, parts, l)}
<1>1. 0 \in S
  <2> DEFINE f == [i \in 1 .. 0 |-> << >>]
  <2>1. f \in [1 .. 0 -> Seq(T)] /\ IsFlat(f, parts, 0)
    BY DEF IsFlat
  <2> QED
    BY <2>1
<1>2. ASSUME NEW l \in Nat, l \in S PROVE l + 1 \in S
  <2>1. ASSUME l + 1 <= Len(parts) PROVE \E f \in [1 .. l + 1 -> Seq(T)] : IsFlat(f, parts, l + 1)
    <3>1. PICK g \in [1 .. l -> Seq(T)] : IsFlat(g, parts, l)
      BY <1>2, <2>1
    <3> DEFINE last == IF l = 0 THEN parts[1] ELSE g[l] \o parts[l + 1]
               f == [i \in 1 .. l + 1 |-> IF i = l + 1 THEN last ELSE g[i]]
    <3>2. parts[l + 1] \in Seq(T) /\ last \in Seq(T)
      <4>1. parts[l + 1] \in Seq(T)
        BY <2>1
      <4>2. l # 0 => g[l] \in Seq(T)
        BY <3>1
      <4> QED
        BY <4>1, <4>2
    <3> HIDE DEF last
    <3>3. f \in [1 .. l + 1 -> Seq(T)]
      BY <3>1, <3>2
    <3>4. ASSUME NEW i \in 1 .. l + 1
          PROVE  f[i] = IF i = 1 THEN parts[i] ELSE f[i - 1] \o parts[i]
      <4>1. CASE i = l + 1
        BY <4>1 DEF last
      <4>2. CASE i # l + 1
        <5>1. i \in 1 .. l /\ f[i] = g[i] /\ (i # 1 => i - 1 \in 1 .. l + 1 /\ f[i - 1] = g[i - 1])
          BY <4>2
        <5>2. g[i] = IF i = 1 THEN parts[i] ELSE g[i - 1] \o parts[i]
          BY <3>1, <5>1 DEF IsFlat
        <5> QED
          BY <5>1, <5>2
      <4> QED
        BY <4>1, <4>2
    <3>5. IsFlat(f, parts, l + 1)
      BY <3>4 DEF IsFlat
    <3> QED
      BY <3>3, <3>5
  <2> QED
    BY <2>1
<1> HIDE DEF S
<1>3. Len(parts) \in S
  BY <1>1, <1>2, NaturalsIn, SMTT(60)
<1> QED
  BY <1>3 DEF S

FlatTo(f, parts, l) == \A i \in 1 .. l : f[i] = IF i = 1 THEN parts[i] ELSE f[i - 1] \o parts[i]

LEMMA FlatAgree ==
    ASSUME NEW l \in Nat, NEW f, NEW g, NEW parts, NEW others,
           FlatTo(f, parts, l), FlatTo(g, others, l), \A i \in 1 .. l : parts[i] = others[i]
    PROVE  \A i \in 1 .. l : f[i] = g[i]
<1> DEFINE S == {i \in Nat : i \in 1 .. l => f[i] = g[i]}
<1>1. 0 \in S
  OBVIOUS
<1>2. ASSUME NEW i \in Nat, i \in S PROVE i + 1 \in S
  <2>1. ASSUME i + 1 \in 1 .. l PROVE f[i + 1] = g[i + 1]
    <3>1. /\ f[i + 1] = IF i = 0 THEN parts[i + 1] ELSE f[i] \o parts[i + 1]
          /\ g[i + 1] = IF i = 0 THEN others[i + 1] ELSE g[i] \o others[i + 1]
      BY <2>1 DEF FlatTo
    <3>2. i # 0 => f[i] = g[i]
      BY <1>2, <2>1
    <3> QED
      BY <2>1, <3>1, <3>2
  <2> QED
    BY <2>1
<1> HIDE DEF S
<1>3. Nat \subseteq S
  BY <1>1, <1>2, NaturalsIn
<1> QED
  BY <1>3 DEF S

\* What FlattenSeq chooses.
LEMMA FlatIs ==
    ASSUME NEW T, NEW parts \in Seq(Seq(T))
    PROVE  \E f \in [1 .. Len(parts) -> Seq(T)] :
             /\ FlatTo(f, parts, Len(parts))
             /\ FlattenSeq(parts) = IF parts = << >> THEN << >> ELSE f[Len(parts)]
<1> DEFINE F == CHOOSE f : IsFlat(f, parts, Len(parts))
<1>1. PICK g \in [1 .. Len(parts) -> Seq(T)] : IsFlat(g, parts, Len(parts))
  BY FlatExists
<1>2. IsFlat(F, parts, Len(parts))
  BY <1>1
<1>3. FlattenSeq(parts) = IF parts = << >> THEN << >> ELSE F[Len(parts)]
  <2>1. FlattenSeq(parts) = IF Len(parts) = 0 THEN parts ELSE F[Len(parts)]
    BY DEF FlattenSeq, IsFlat
  <2>2. Len(parts) = 0 <=> parts = << >>
    BY EmptySeq
  <2> QED
    BY <2>1, <2>2
<1> HIDE DEF F
<1>4. FlatTo(F, parts, Len(parts)) /\ FlatTo(g, parts, Len(parts))
  BY <1>1, <1>2 DEF IsFlat, FlatTo
<1>5. \A i \in 1 .. Len(parts) : F[i] = g[i]
  BY <1>4, FlatAgree
<1>6. parts # << >> => F[Len(parts)] = g[Len(parts)]
  BY <1>5, EmptySeq
<1> QED
  BY <1>1, <1>3, <1>4, <1>6

LEMMA FlattenMore ==
    ASSUME NEW T, NEW parts \in Seq(Seq(T)), NEW longer \in Seq(Seq(T)), NEW len \in Nat,
           len = Len(parts), Len(longer) = len + 1, \A i \in 1 .. len : longer[i] = parts[i]
    PROVE  /\ FlattenSeq(parts) \in Seq(T)
           /\ FlattenSeq(longer) = FlattenSeq(parts) \o longer[len + 1]
<1>1. PICK f :
        /\ f \in [1 .. len -> Seq(T)] /\ FlatTo(f, parts, len)
        /\ FlattenSeq(parts) = IF parts = << >> THEN << >> ELSE f[len]
  BY FlatIs
<1>2. len = 0 <=> parts = << >>
  BY EmptySeq
<1>3. longer # << >> /\ longer[len + 1] \in Seq(T)
  OBVIOUS
<1>4. PICK g : FlatTo(g, longer, len + 1) /\ FlattenSeq(longer) = g[len + 1]
  BY <1>3, FlatIs
<1>5. \A i \in 1 .. len : f[i] = g[i]
  <2>1. FlatTo(g, longer, len)
    <3>1. 1 .. len \subseteq 1 .. len + 1
      OBVIOUS
    <3> QED
      BY <1>4, <3>1, Zenon DEF FlatTo
  <2>2. \A i \in 1 .. len : parts[i] = longer[i]
    OBVIOUS
  <2>3. FlatTo(f, parts, len)
    BY <1>1
  <2> QED
    BY ONLY <2>1, <2>2, <2>3, len \in Nat, FlatAgree, Zenon
<1>6. g[len + 1] = IF len = 0 THEN longer[len + 1] ELSE g[len] \o longer[len + 1]
  <2>1. len + 1 \in 1 .. len + 1 /\ (len + 1) - 1 = len
    OBVIOUS
  <2>2. g[len + 1] = IF len + 1 = 1 THEN longer[len + 1] ELSE g[(len + 1) - 1] \o longer[len + 1]
    BY <1>4, <2>1 DEF FlatTo
  <2> QED
    BY <2>1, <2>2
<1>7. len # 0 => len \in 1 .. len /\ f[len] = g[len] /\ f[len] \in Seq(T)
  <2>1. len # 0 => len \in 1 .. len
    OBVIOUS
  <2> QED
    BY <1>1, <1>5, <2>1
<1>8. << >> \o longer[len + 1] = longer[len + 1] /\ << >> \in Seq(T)
  BY <1>3, ConcatEmptySeq
<1> QED
  BY <1>1, <1>2, <1>4, <1>6, <1>7, <1>8

LEMMA FlattenAppend ==
    ASSUME NEW T, NEW parts \in Seq(Seq(T)), NEW x \in Seq(T)
    PROVE  /\ FlattenSeq(<< >>) = << >>
           /\ FlattenSeq(parts) \in Seq(T)
           /\ FlattenSeq(Append(parts, x)) = FlattenSeq(parts) \o x
<1>1. FlattenSeq(<< >>) = << >>
  <2>1. Len(<< >>) = 0
    OBVIOUS
  <2> QED
    BY <2>1 DEF FlattenSeq
<1>2. /\ Append(parts, x) \in Seq(Seq(T)) /\ Len(Append(parts, x)) = Len(parts) + 1 /\ Len(parts) \in Nat
      /\ Append(parts, x)[Len(parts) + 1] = x
      /\ \A i \in 1 .. Len(parts) : Append(parts, x)[i] = parts[i]
  BY AppendProperties
<1> QED
  BY <1>1, <1>2, FlattenMore, Zenon

\* Induction, for a set of sequences that lengthens.
LEMMA SequencesIn ==
    ASSUME NEW T, NEW S, << >> \in S, \A s \in Seq(T), x \in T : s \in S => Append(s, x) \in S
    PROVE  Seq(T) \subseteq S
<1> DEFINE M == {n \in Nat : \A s \in Seq(T) : Len(s) = n => s \in S}
<1>1. 0 \in M
  <2>1. \A s \in Seq(T) : Len(s) = 0 => s = << >>
    BY EmptySeq
  <2> QED
    BY <2>1
<1>2. ASSUME NEW n \in Nat, n \in M PROVE n + 1 \in M
  <2>1. ASSUME NEW s \in Seq(T), Len(s) = n + 1 PROVE s \in S
    <3>1. s # << >>
      BY <2>1
    <3>2. PICK r \in Seq(T), x \in T : s = Append(r, x)
      BY <3>1, SequenceEmptyOrAppend
    <3>3. Len(r) = n
      <4>1. Len(s) = Len(r) + 1 /\ Len(r) \in Nat
        BY <3>2, AppendProperties
      <4> QED
        BY <2>1, <4>1
    <3> QED
      BY <1>2, <3>2, <3>3
  <2> QED
    BY <2>1
<1> HIDE DEF M
<1>3. Nat \subseteq M
  BY <1>1, <1>2, NaturalsIn
<1>4. ASSUME NEW s \in Seq(T) PROVE s \in S
  <2>1. Len(s) \in M
    BY <1>3
  <2> QED
    BY <2>1 DEF M
<1> QED
  BY <1>4

\* The places in a text, one more at the end.
Instead(e, place) == IF place = e.old THEN e.new ELSE <<place>>

LEMMA ReplacedAppend ==
    ASSUME NEW T, NEW e, e.new \in Seq(T), NEW t \in Seq(T), NEW x \in T
    PROVE  /\ Replaced(<< >>, e) = << >>
           /\ Replaced(t, e) \in Seq(T)
           /\ Instead(e, x) \in Seq(T)
           /\ Replaced(Append(t, x), e) = Replaced(t, e) \o Instead(e, x)
<1> DEFINE Pieces(s) == [i \in DOMAIN s |-> IF s[i] = e.old THEN e.new ELSE <<s[i]>>]
<1>1. \A s : Replaced(s, e) = FlattenSeq(Pieces(s))
  BY DEF Replaced
<1>2. ASSUME NEW s \in Seq(T) PROVE Pieces(s) \in Seq(Seq(T)) /\ Len(Pieces(s)) = Len(s)
  <2>1. \A i \in 1 .. Len(s) : (IF s[i] = e.old THEN e.new ELSE <<s[i]>>) \in Seq(T)
    OBVIOUS
  <2>2. Pieces(s) \in [1 .. Len(s) -> Seq(T)] /\ Len(s) \in Nat
    BY <2>1
  <2> HIDE DEF Pieces
  <2> QED
    BY <2>2
<1>3. Pieces(<< >>) = << >>
  OBVIOUS
<1>4. Instead(e, x) \in Seq(T)
  BY DEF Instead
<1>5. Pieces(Append(t, x)) = Append(Pieces(t), Instead(e, x))
  <2>1. Append(t, x) \in Seq(T) /\ Len(Append(t, x)) = Len(t) + 1 /\ Len(t) \in Nat
    BY AppendProperties
  <2>2. /\ Pieces(Append(t, x)) \in Seq(Seq(T)) /\ Len(Pieces(Append(t, x))) = Len(t) + 1
        /\ Pieces(t) \in Seq(Seq(T)) /\ Len(Pieces(t)) = Len(t)
    BY <1>2, <2>1
  <2>3. \A i \in 1 .. Len(t) + 1 : Append(t, x)[i] = IF i = Len(t) + 1 THEN x ELSE t[i]
    BY <2>1
  <2> DEFINE a == Pieces(Append(t, x))
             b == Pieces(t)
             y == Instead(e, x)
  <2>4. a \in Seq(Seq(T)) /\ b \in Seq(Seq(T)) /\ Len(a) = Len(b) + 1 /\ Len(b) = Len(t) /\ y \in Seq(T)
    BY <1>4, <2>2
  <2>5. \A i \in 1 .. Len(t) : a[i] = b[i]
    BY <2>1, <2>3
  <2>6. a[Len(t) + 1] = y
    BY <2>1, <2>3 DEF Instead
  <2> HIDE DEF a, b, y
  <2>7. /\ Append(b, y) \in Seq(Seq(T)) /\ Len(Append(b, y)) = Len(b) + 1
        /\ \A i \in 1 .. Len(b) : Append(b, y)[i] = b[i]
        /\ Append(b, y)[Len(b) + 1] = y
    BY <2>4, AppendProperties
  <2>8. \A i \in 1 .. Len(a) : a[i] = Append(b, y)[i]
    BY <2>4, <2>5, <2>6, <2>7
  <2>9. a = Append(b, y)
    BY <2>4, <2>7, <2>8, SeqEqual
  <2> QED
    BY <2>9 DEF a, b, y
<1>6. Pieces(t) \in Seq(Seq(T))
  BY <1>2
<1> HIDE DEF Pieces
<1>7. FlattenSeq(<< >>) = << >> /\ FlattenSeq(Pieces(t)) \in Seq(T)
      /\ FlattenSeq(Append(Pieces(t), Instead(e, x))) = FlattenSeq(Pieces(t)) \o Instead(e, x)
  BY <1>4, <1>6, FlattenAppend
<1> QED
  BY <1>1, <1>3, <1>4, <1>5, <1>7

LEMMA OnePlaces ==
    ASSUME NEW T, NEW t \in Seq(T), NEW p
    PROVE  PlacesOf(t, <<p>>) = {i \in 1 .. Len(t) : t[i] = p}
<1>1. Len(<<p>>) = 1 /\ Len(t) \in Nat
  OBVIOUS
<1>2. ASSUME NEW i \in 1 .. Len(t) PROVE SubSeq(t, i, i) = <<p>> <=> t[i] = p
  <2>1. SubSeq(t, i, i) = <<t[i]>>
    <3>1. \A k \in i .. i : t[k] \in T
      OBVIOUS
    <3>2. /\ SubSeq(t, i, i) \in Seq(T) /\ Len(SubSeq(t, i, i)) = 1
          /\ \A k \in 1 .. 1 : SubSeq(t, i, i)[k] = t[i + k - 1]
      BY <3>1, SubSeqProperties
    <3> DEFINE w == SubSeq(t, i, i)
    <3>3. w \in Seq(T) /\ Len(w) = 1 /\ w[1] = t[i] /\ t[i] \in T
      BY <3>2
    <3> HIDE DEF w
    <3>4. w = <<t[i]>>
      BY <3>3
    <3> QED
      BY <3>4 DEF w
  <2>2. <<t[i]>> = <<p>> <=> t[i] = p
    OBVIOUS
  <2> QED
    BY <2>1, <2>2
<1>3. PlacesOf(t, <<p>>) = {i \in 1 .. Len(t) : SubSeq(t, i, i) = <<p>>}
  <2>1. Len(t) - 1 + 1 = Len(t) /\ \A i \in 1 .. Len(t) : i + 1 - 1 = i
    BY <1>1
  <2> QED
    BY <1>1, <2>1 DEF PlacesOf
<1> QED
  BY <1>2, <1>3

LEMMA OccursAppend ==
    ASSUME NEW T, NEW t \in Seq(T), NEW x \in T, NEW p
    PROVE  /\ Occurs(<< >>, p) = 0
           /\ Occurs(t, p) \in Nat
           /\ Occurs(Append(t, x), p) = Occurs(t, p) + (IF x = p THEN 1 ELSE 0)
<1> DEFINE S == {i \in 1 .. Len(t) : t[i] = p}
           S1 == {i \in 1 .. Len(Append(t, x)) : Append(t, x)[i] = p}
<1>1. << >> \in Seq(T) /\ Append(t, x) \in Seq(T) /\ Len(Append(t, x)) = Len(t) + 1 /\ Len(t) \in Nat
  BY AppendProperties
<1>2. Occurs(t, p) = Cardinality(S) /\ Occurs(Append(t, x), p) = Cardinality(S1)
  BY <1>1, OnePlaces DEF Occurs
<1>3. Occurs(<< >>, p) = 0
  <2>1. PlacesOf(<< >>, <<p>>) = {i \in 1 .. Len(<< >>) : << >>[i] = p}
    BY <1>1, OnePlaces, Zenon
  <2>2. 1 .. Len(<< >>) = {}
    OBVIOUS
  <2>3. PlacesOf(<< >>, <<p>>) = {}
    BY <2>1, <2>2
  <2> QED
    BY <2>3, FS_EmptySet DEF Occurs
<1>4. IsFiniteSet(S)
  <2>1. IsFiniteSet(1 .. Len(t))
    BY <1>1, FS_Interval
  <2> QED
    BY <2>1, FS_Subset
<1>5. S1 = IF x = p THEN S \cup {Len(t) + 1} ELSE S
  BY <1>1
<1>6. Len(t) + 1 \notin S
  BY <1>1
<1> HIDE DEF S, S1
<1>7. Cardinality(S) \in Nat
  BY <1>4, FS_CardinalityType
<1>8. Cardinality(S \cup {Len(t) + 1}) = Cardinality(S) + 1
  BY <1>4, <1>6, FS_AddElement
<1> QED
  BY <1>2, <1>3, <1>5, <1>7, <1>8

LEMMA OccursNever ==
    ASSUME NEW T, NEW t \in Seq(T), NEW p
    PROVE  /\ Occurs(t, p) \in Nat
           /\ Occurs(t, p) = 0 <=> p \notin Range(t)
<1> DEFINE S == {i \in 1 .. Len(t) : t[i] = p}
<1>1. Occurs(t, p) = Cardinality(S)
  BY OnePlaces DEF Occurs
<1>2. IsFiniteSet(S)
  <2>1. IsFiniteSet(1 .. Len(t))
    BY FS_Interval
  <2> QED
    BY <2>1, FS_Subset
<1>3. S = {} <=> p \notin Range(t)
  BY DEF Range
<1> HIDE DEF S
<1> QED
  BY <1>1, <1>2, <1>3, FS_EmptySet, FS_CardinalityType

LEMMA OccursConcat ==
    ASSUME NEW T, NEW t \in Seq(T), NEW u \in Seq(T), NEW p
    PROVE  Occurs(t \o u, p) = Occurs(t, p) + Occurs(u, p)
<1> DEFINE S == {s \in Seq(T) : Occurs(t \o s, p) = Occurs(t, p) + Occurs(s, p)}
<1>1. << >> \in S
  <2>1. t \o << >> = t /\ << >> \in Seq(T)
    BY ConcatEmptySeq
  <2>2. Occurs(<< >>, p) = 0 /\ Occurs(t, p) \in Nat
    <3>1. << >> \in Seq(T) /\ p \notin Range(<< >>)
      BY DEF Range
    <3> QED
      BY <3>1, OccursNever
  <2> QED
    BY <2>1, <2>2
<1>2. ASSUME NEW s \in Seq(T), NEW x \in T, s \in S PROVE Append(s, x) \in S
  <2>1. t \o Append(s, x) = Append(t \o s, x) /\ t \o s \in Seq(T) /\ Append(s, x) \in Seq(T)
    OBVIOUS
  <2>2. /\ Occurs(Append(s, x), p) = Occurs(s, p) + (IF x = p THEN 1 ELSE 0)
        /\ Occurs(Append(t \o s, x), p) = Occurs(t \o s, p) + (IF x = p THEN 1 ELSE 0)
    <3> DEFINE w == t \o s
    <3>1. w \in Seq(T)
      BY <2>1
    <3> HIDE DEF w
    <3>2. Occurs(Append(w, x), p) = Occurs(w, p) + (IF x = p THEN 1 ELSE 0)
      BY <3>1, OccursAppend
    <3> QED
      BY <3>2, OccursAppend DEF w
  <2>3. Occurs(t, p) \in Nat /\ Occurs(s, p) \in Nat
    BY OccursNever
  <2>4. Occurs(t \o s, p) = Occurs(t, p) + Occurs(s, p)
    BY <1>2
  <2>5. Occurs(t \o Append(s, x), p) = Occurs(t, p) + Occurs(Append(s, x), p)
    BY <2>1, <2>2, <2>3, <2>4
  <2> QED
    BY <2>1, <2>5
<1> HIDE DEF S
<1>3. Seq(T) \subseteq S
  BY <1>1, <1>2, SequencesIn
<1> QED
  BY <1>3 DEF S

LEMMA OccursOne ==
    ASSUME NEW T, NEW x \in T, NEW p
    PROVE  <<x>> \in Seq(T) /\ Occurs(<<x>>, p) = IF x = p THEN 1 ELSE 0
<1>1. << >> \in Seq(T) /\ Append(<< >>, x) = <<x>>
  OBVIOUS
<1> DEFINE z == << >>
<1>2. z \in Seq(T) /\ Append(z, x) = <<x>> /\ <<x>> \in Seq(T) /\ p \notin Range(z)
  BY <1>1 DEF Range
<1> HIDE DEF z
<1>3. Occurs(z, p) = 0
  BY <1>2, OccursNever
<1>4. Occurs(Append(z, x), p) = Occurs(z, p) + (IF x = p THEN 1 ELSE 0)
  <2>1. z \in Seq(T)
    BY <1>2
  <2> QED
    BY ONLY <2>1, x \in T, OccursAppend
<1> QED
  BY <1>2, <1>3, <1>4

LEMMA ReplacedType ==
    ASSUME NEW T, NEW e, e.new \in Seq(T), NEW t \in Seq(T)
    PROVE  Replaced(t, e) \in Seq(T) /\ Replaced(<< >>, e) = << >>
<1>1. Replaced(<< >>, e) = << >>
  <2>1. Len(<< >>) = 0 /\ FlattenSeq(<< >>) = << >>
    BY DEF FlattenSeq
  <2> QED
    BY <2>1 DEF Replaced
<1>2. CASE t = << >>
  BY <1>1, <1>2
<1>3. CASE t # << >>
  <2>1. PICK x \in T : TRUE
    BY <1>3, SequenceEmptyOrAppend
  <2> QED
    BY <1>1, <2>1, ReplacedAppend
<1> QED
  BY <1>2, <1>3, <1>1

\* How often a text is there after a replacement.
LEMMA OccursReplaced ==
    ASSUME NEW T, NEW e, e.new \in Seq(T), NEW t \in Seq(T), NEW p
    PROVE  Occurs(Replaced(t, e), p) =
             (IF p = e.old THEN 0 ELSE Occurs(t, p)) + Occurs(t, e.old) * Occurs(e.new, p)
<1> DEFINE m == Occurs(e.new, p)
           Rest(s) == IF p = e.old THEN 0 ELSE Occurs(s, p)
           S == {s \in Seq(T) : Occurs(Replaced(s, e), p) = Rest(s) + Occurs(s, e.old) * m}
<1>0. m \in Nat /\ \A s \in Seq(T) : Occurs(s, p) \in Nat /\ Occurs(s, e.old) \in Nat
  BY OccursNever
<1>1. << >> \in S
  <2>1. << >> \in Seq(T) /\ p \notin Range(<< >>) /\ e.old \notin Range(<< >>)
    BY DEF Range
  <2>2. Occurs(<< >>, p) = 0 /\ Occurs(<< >>, e.old) = 0
    BY <2>1, OccursNever
  <2>3. Replaced(<< >>, e) = << >>
    BY <2>1, ReplacedType
  <2>4. 0 * m = 0
    BY <1>0
  <2> QED
    BY <2>1, <2>2, <2>3, <2>4
<1>2. ASSUME NEW s \in Seq(T), NEW x \in T, s \in S PROVE Append(s, x) \in S
  <2>1. /\ Replaced(s, e) \in Seq(T) /\ Instead(e, x) \in Seq(T)
        /\ Replaced(Append(s, x), e) = Replaced(s, e) \o Instead(e, x)
    BY ReplacedAppend
  <2>2. Occurs(Replaced(Append(s, x), e), p) = Occurs(Replaced(s, e), p) + Occurs(Instead(e, x), p)
    BY <2>1, OccursConcat
  <2>3. /\ Occurs(Append(s, x), p) = Occurs(s, p) + (IF x = p THEN 1 ELSE 0)
        /\ Occurs(Append(s, x), e.old) = Occurs(s, e.old) + (IF x = e.old THEN 1 ELSE 0)
        /\ Append(s, x) \in Seq(T)
    BY OccursAppend
  <2>4. Occurs(Instead(e, x), p) = IF x = e.old THEN m ELSE IF x = p THEN 1 ELSE 0
    BY OccursOne DEF Instead
  <2>5. Occurs(Replaced(s, e), p) = Rest(s) + Occurs(s, e.old) * m
    BY <1>2
  <2>6. (Occurs(s, e.old) + 1) * m = Occurs(s, e.old) * m + m /\ Occurs(s, e.old) * m \in Nat
    BY <1>0
  <2> HIDE DEF m
  <2>7. CASE x = e.old
    BY <1>0, <2>2, <2>3, <2>4, <2>5, <2>6, <2>7
  <2>8. CASE x # e.old
    BY <1>0, <2>2, <2>3, <2>4, <2>5, <2>6, <2>8
  <2> QED
    BY <2>7, <2>8
<1> HIDE DEF S
<1>3. Seq(T) \subseteq S
  BY <1>1, <1>2, SequencesIn
<1> QED
  BY <1>3 DEF S

LEMMA ReplacedConcat ==
    ASSUME NEW T, NEW e, e.new \in Seq(T), NEW t \in Seq(T), NEW u \in Seq(T)
    PROVE  Replaced(t \o u, e) = Replaced(t, e) \o Replaced(u, e)
<1> DEFINE S == {s \in Seq(T) : Replaced(t \o s, e) = Replaced(t, e) \o Replaced(s, e)}
<1>0. Replaced(<< >>, e) = << >> /\ \A s \in Seq(T) : Replaced(s, e) \in Seq(T)
  BY ReplacedType
<1>1. << >> \in S
  <2>1. t \o << >> = t /\ Replaced(t, e) \o << >> = Replaced(t, e) /\ << >> \in Seq(T)
    BY <1>0, ConcatEmptySeq
  <2> QED
    BY <1>0, <2>1
<1>2. ASSUME NEW s \in Seq(T), NEW x \in T, s \in S PROVE Append(s, x) \in S
  <2>1. t \o Append(s, x) = Append(t \o s, x) /\ t \o s \in Seq(T) /\ Append(s, x) \in Seq(T)
    OBVIOUS
  <2>2. /\ Replaced(Append(s, x), e) = Replaced(s, e) \o Instead(e, x) /\ Instead(e, x) \in Seq(T)
        /\ Replaced(Append(t \o s, x), e) = Replaced(t \o s, e) \o Instead(e, x)
    <3> DEFINE w == t \o s
    <3>1. w \in Seq(T)
      BY <2>1
    <3> HIDE DEF w
    <3>2. Replaced(Append(w, x), e) = Replaced(w, e) \o Instead(e, x)
      BY <3>1, ReplacedAppend
    <3> QED
      BY <3>2, ReplacedAppend DEF w
  <2>3. (Replaced(t, e) \o Replaced(s, e)) \o Instead(e, x) = Replaced(t, e) \o (Replaced(s, e) \o Instead(e, x))
    <3> DEFINE a == Replaced(t, e)
               b == Replaced(s, e)
               c == Instead(e, x)
    <3>1. a \in Seq(T)
      BY <1>0
    <3>2. b \in Seq(T)
      BY <1>0
    <3>3. c \in Seq(T)
      BY <2>2
    <3> HIDE DEF a, b, c
    <3>4. (a \o b) \o c = a \o (b \o c)
      BY ONLY <3>1, <3>2, <3>3
    <3> QED
      BY <3>4 DEF a, b, c
  <2>4. Replaced(t \o s, e) = Replaced(t, e) \o Replaced(s, e)
    BY <1>2
  <2> QED
    BY <2>1, <2>2, <2>3, <2>4
<1> HIDE DEF S
<1>3. Seq(T) \subseteq S
  BY <1>1, <1>2, SequencesIn
<1> QED
  BY <1>3 DEF S

LEMMA ReplacedNothing ==
    ASSUME NEW T, NEW e, e.new \in Seq(T), NEW t \in Seq(T), e.old \notin Range(t)
    PROVE  Replaced(t, e) = t
<1> DEFINE S == {s \in Seq(T) : e.old \notin Range(s) => Replaced(s, e) = s}
<1>1. << >> \in S
  BY ReplacedType
<1>2. ASSUME NEW s \in Seq(T), NEW x \in T, s \in S PROVE Append(s, x) \in S
  <2>1. Replaced(Append(s, x), e) = Replaced(s, e) \o Instead(e, x)
    BY ReplacedAppend
  <2>2. Append(s, x) \in Seq(T) /\ Append(s, x) = s \o <<x>>
    BY AppendIsConcat
  <2>3. Range(Append(s, x)) = Range(s) \cup {x}
    <3>1. /\ DOMAIN Append(s, x) = 1 .. Len(s) + 1 /\ DOMAIN s = 1 .. Len(s) /\ Len(s) \in Nat
          /\ \A i \in 1 .. Len(s) : Append(s, x)[i] = s[i]
          /\ Append(s, x)[Len(s) + 1] = x
      OBVIOUS
    <3> QED
      BY <3>1 DEF Range
  <2> QED
    BY <1>2, <2>1, <2>2, <2>3 DEF Instead
<1> HIDE DEF S
<1>3. Seq(T) \subseteq S
  BY <1>1, <1>2, SequencesIn
<1> QED
  BY <1>3 DEF S

\* Three texts in a row.
LEMMA InARow ==
    ASSUME NEW T, NEW a \in Seq(T), NEW p \in Seq(T), NEW b \in Seq(T)
    PROVE  LET s == (a \o p) \o b
           IN  /\ s \in Seq(T) /\ Len(s) = Len(a) + Len(p) + Len(b)
               /\ \A k \in 1 .. Len(a) : s[k] = a[k]
               /\ \A k \in 1 .. Len(p) : s[Len(a) + k] = p[k]
               /\ \A k \in 1 .. Len(b) : s[Len(a) + Len(p) + k] = b[k]
<1> DEFINE q == a \o p
<1>1. /\ q \in Seq(T) /\ Len(q) = Len(a) + Len(p) /\ Len(a) \in Nat /\ Len(p) \in Nat /\ Len(b) \in Nat
      /\ \A k \in 1 .. Len(a) + Len(p) : q[k] = IF k <= Len(a) THEN a[k] ELSE p[k - Len(a)]
  BY ConcatProperties
<1>0. q \in Seq(T)
  BY <1>1
<1> HIDE DEF q
<1> DEFINE s == q \o b
<1>2. /\ s \in Seq(T) /\ Len(s) = Len(q) + Len(b)
      /\ \A k \in 1 .. Len(q) + Len(b) : s[k] = IF k <= Len(q) THEN q[k] ELSE b[k - Len(q)]
  BY <1>0
<1> HIDE DEF s
<1>3. ASSUME NEW k \in 1 .. Len(a) PROVE s[k] = a[k]
  <2>1. k \in 1 .. Len(q) /\ k <= Len(a)
    BY <1>1
  <2> QED
    BY <1>1, <1>2, <2>1
<1>4. ASSUME NEW k \in 1 .. Len(p) PROVE s[Len(a) + k] = p[k]
  <2>1. Len(a) + k \in 1 .. Len(q) /\ ~ (Len(a) + k <= Len(a)) /\ Len(a) + k - Len(a) = k
    BY <1>1
  <2> QED
    BY <1>1, <1>2, <2>1
<1>5. ASSUME NEW k \in 1 .. Len(b) PROVE s[Len(a) + Len(p) + k] = b[k]
  <2>1. /\ Len(a) + Len(p) + k \in 1 .. Len(q) + Len(b) /\ ~ (Len(a) + Len(p) + k <= Len(q))
        /\ Len(a) + Len(p) + k - Len(q) = k
    BY <1>1
  <2> QED
    BY <1>1, <1>2, <2>1
<1>6. /\ s \in Seq(T) /\ Len(s) = Len(a) + Len(p) + Len(b)
      /\ \A k \in 1 .. Len(a) : s[k] = a[k]
      /\ \A k \in 1 .. Len(p) : s[Len(a) + k] = p[k]
      /\ \A k \in 1 .. Len(b) : s[Len(a) + Len(p) + k] = b[k]
  BY <1>1, <1>2, <1>3, <1>4, <1>5
<1> QED
  BY <1>6 DEF s, q

LEMMA RowIs ==
    ASSUME NEW T, NEW t \in Seq(T), NEW a \in Seq(T), NEW p \in Seq(T), NEW b \in Seq(T),
           Len(t) = Len(a) + Len(p) + Len(b),
           \A k \in 1 .. Len(a) : t[k] = a[k],
           \A k \in 1 .. Len(p) : t[Len(a) + k] = p[k],
           \A k \in 1 .. Len(b) : t[Len(a) + Len(p) + k] = b[k]
    PROVE  t = (a \o p) \o b
<1> DEFINE s == (a \o p) \o b
<1>1. /\ s \in Seq(T) /\ Len(s) = Len(a) + Len(p) + Len(b)
      /\ \A k \in 1 .. Len(a) : s[k] = a[k]
      /\ \A k \in 1 .. Len(p) : s[Len(a) + k] = p[k]
      /\ \A k \in 1 .. Len(b) : s[Len(a) + Len(p) + k] = b[k]
  BY InARow
<1> HIDE DEF s
<1>2. Len(a) \in Nat /\ Len(p) \in Nat /\ Len(b) \in Nat
  OBVIOUS
<1>3. ASSUME NEW k \in 1 .. Len(t) PROVE t[k] = s[k]
  <2>1. CASE k <= Len(a)
    BY <1>1, <1>2, <2>1
  <2>2. CASE Len(a) < k /\ k <= Len(a) + Len(p)
    <3>1. k - Len(a) \in 1 .. Len(p) /\ Len(a) + (k - Len(a)) = k
      BY <1>2, <2>2
    <3> QED
      BY <1>1, <3>1
  <2>3. CASE Len(a) + Len(p) < k
    <3>1. k - (Len(a) + Len(p)) \in 1 .. Len(b) /\ Len(a) + Len(p) + (k - (Len(a) + Len(p))) = k
      BY <1>2, <2>3
    <3> QED
      BY <1>1, <3>1
  <2> QED
    BY <1>2, <2>1, <2>2, <2>3
<1>4. t = s
  BY <1>1, <1>3, SeqEqual
<1> QED
  BY <1>4 DEF s

\* A text that is there splits what it is in.
LEMMA OccursSplit ==
    ASSUME NEW T, NEW t \in Seq(T), NEW p, Occurs(t, p) # 0
    PROVE  p \in T /\ \E a, b \in Seq(T) : t = (a \o <<p>>) \o b
<1>1. p \in Range(t)
  BY OccursNever
<1>2. PICK i \in 1 .. Len(t) : t[i] = p
  BY <1>1 DEF Range
<1>3. p \in T /\ <<p>> \in Seq(T) /\ Len(<<p>>) = 1 /\ <<p>>[1] = p
  BY <1>2
<1> DEFINE a == SubSeq(t, 1, i - 1)
           b == SubSeq(t, i + 1, Len(t))
           q == <<p>>
<1>4. /\ a \in Seq(T) /\ b \in Seq(T)
      /\ Len(a) = i - 1 /\ Len(b) = Len(t) - i
      /\ \A k \in 1 .. i - 1 : a[k] = t[k]
      /\ \A k \in 1 .. Len(t) - i : b[k] = t[i + k]
  BY <1>2
<1> HIDE DEF a, b, q
<1>5. q \in Seq(T) /\ Len(q) = 1 /\ q[1] = p
  BY <1>3 DEF q
<1>6. \A k \in 1 .. Len(q) : t[Len(a) + k] = q[k]
  BY <1>2, <1>4, <1>5
<1>7. Len(t) = Len(a) + Len(q) + Len(b) /\ \A k \in 1 .. Len(a) : t[k] = a[k]
  BY <1>2, <1>4, <1>5
<1>8. \A k \in 1 .. Len(b) : t[Len(a) + Len(q) + k] = b[k]
  BY <1>2, <1>4, <1>5
<1>9. t = (a \o q) \o b
  BY <1>4, <1>5, <1>6, <1>7, <1>8, RowIs
<1> QED
  BY <1>3, <1>4, <1>9 DEF q

Splits(T, t, piece) == \E a, b \in Seq(T) : t = (a \o piece) \o b

LEMMA HasSplit ==
    ASSUME NEW T, NEW t \in Seq(T), NEW piece \in Seq(T)
    PROVE  Has(t, piece) <=> piece # << >> /\ Splits(T, t, piece)
<1> DEFINE m == Len(piece)
<1>0. m \in Nat /\ Len(t) \in Nat
  OBVIOUS
<1>1. ASSUME Has(t, piece) PROVE piece # << >> /\ Splits(T, t, piece)
  <2>1. PICK i \in 1 .. (Len(t) - m + 1) : SubSeq(t, i, i + m - 1) = piece
    BY <1>1 DEF Has, PlacesOf
  <2> DEFINE a == SubSeq(t, 1, i - 1)
             b == SubSeq(t, i + m, Len(t))
             w == SubSeq(t, i, i + m - 1)
  <2>2. /\ a \in Seq(T) /\ b \in Seq(T)
        /\ Len(a) = i - 1 /\ Len(b) = Len(t) - i - m + 1
        /\ \A k \in 1 .. i - 1 : a[k] = t[k]
        /\ \A k \in 1 .. Len(b) : b[k] = t[i + m - 1 + k]
    BY <1>0, <2>1
  <2>3. \A k \in 1 .. m : w[k] = t[i + k - 1]
    BY <1>0, <2>1
  <2>4. w = piece
    BY <2>1
  <2> HIDE DEF a, b, w, m
  <2>5. m = Len(piece)
    BY DEF m
  <2>6. \A k \in 1 .. Len(piece) : t[Len(a) + k] = piece[k]
    BY <1>0, <2>1, <2>2, <2>3, <2>4, <2>5
  <2>7. \A k \in 1 .. Len(b) : t[Len(a) + Len(piece) + k] = b[k]
    BY <1>0, <2>1, <2>2, <2>5
  <2>8. Len(t) = Len(a) + Len(piece) + Len(b) /\ \A k \in 1 .. Len(a) : t[k] = a[k]
    BY <1>0, <2>1, <2>2, <2>5
  <2>9. t = (a \o piece) \o b
    BY <2>2, <2>6, <2>7, <2>8, RowIs
  <2> QED
    BY <1>1, <2>2, <2>9 DEF Has, Splits
<1>2. ASSUME piece # << >>, NEW a \in Seq(T), NEW b \in Seq(T), t = (a \o piece) \o b
      PROVE  Has(t, piece)
  <2> DEFINE i == Len(a) + 1
             w == SubSeq(t, i, i + m - 1)
  <2>1. Len(a) \in Nat /\ Len(b) \in Nat /\ m # 0
    BY <1>2, EmptySeq
  <2>2. /\ Len(t) = Len(a) + m + Len(b)
        /\ \A k \in 1 .. m : t[Len(a) + k] = piece[k]
    BY <1>2, InARow
  <2>3. i \in 1 .. (Len(t) - m + 1)
    BY <1>0, <2>1, <2>2
  <2>4. \A k \in i .. i + m - 1 : t[k] \in T
    BY <1>0, <2>1, <2>2
  <2>5. /\ w \in Seq(T) /\ Len(w) = m /\ \A k \in 1 .. m : w[k] = t[i + k - 1]
    <3>1. i \in Int /\ i + m - 1 \in Int /\ i <= i + m - 1 /\ i + m - 1 - i + 1 = m
      BY <1>0, <2>1
    <3> DEFINE j == i + m - 1
    <3> HIDE DEF i, m, j
    <3>2. i \in Int /\ j \in Int /\ i <= j /\ j - i + 1 = m
      BY <1>0, <3>1 DEF j
    <3>3. \A k \in i .. j : t[k] \in T
      BY <2>4 DEF j
    <3>4. /\ SubSeq(t, i, j) \in Seq(T) /\ Len(SubSeq(t, i, j)) = m
          /\ \A k \in 1 .. m : SubSeq(t, i, j)[k] = t[i + k - 1]
      BY <3>2, <3>3, SubSeqProperties
    <3>5. w = SubSeq(t, i, j)
      BY Zenon DEF j
    <3> QED
      BY <3>4, <3>5, Zenon
  <2>6. \A k \in 1 .. m : i + k - 1 = Len(a) + k
    BY <1>0, <2>1
  <2> HIDE DEF w, i
  <2>7. w = piece
    BY <1>0, <2>2, <2>5, <2>6, SeqEqual
  <2> QED
    BY <1>2, <2>3, <2>7 DEF Has, PlacesOf, w
<1> QED
  BY <1>1, <1>2 DEF Splits

LEMMA HasRange ==
    ASSUME NEW T, NEW t \in Seq(T), NEW piece \in Seq(T), Has(t, piece), NEW p \in Range(piece)
    PROVE  p \in Range(t)
<1>0. Splits(T, t, piece)
  BY HasSplit
<1>1. PICK a \in Seq(T), b \in Seq(T) : t = (a \o piece) \o b
  BY <1>0 DEF Splits
<1>2. PICK k \in 1 .. Len(piece) : piece[k] = p
  BY DEF Range
<1>3. t[Len(a) + k] = piece[k] /\ Len(t) = Len(a) + Len(piece) + Len(b)
  BY <1>1, InARow
<1>4. Len(a) + k \in 1 .. Len(t)
  BY <1>3
<1> QED
  BY <1>2, <1>3, <1>4 DEF Range

\* A piece of a piece.
LEMMA HasInner ==
    ASSUME NEW T, NEW piece \in Seq(T), NEW x \in Seq(T), NEW y \in Seq(T), NEW a \in Seq(T), NEW b \in Seq(T),
           piece # << >>
    PROVE  Has((a \o ((x \o piece) \o y)) \o b, piece)
<1> DEFINE q == x \o piece
           l == a \o x
           r == y \o b
           lp == l \o piece
<1>1. q \in Seq(T) /\ l \in Seq(T) /\ r \in Seq(T) /\ lp \in Seq(T)
  OBVIOUS
<1>2. a \o q = lp
  OBVIOUS
<1>3. a \o (q \o y) = (a \o q) \o y
  <2>1. q \in Seq(T)
    BY <1>1
  <2> HIDE DEF q
  <2> QED
    BY ONLY <2>1, a \in Seq(T), y \in Seq(T)
<1>4. (lp \o y) \o b = lp \o (y \o b)
  <2>1. lp \in Seq(T)
    BY <1>1
  <2> HIDE DEF lp
  <2> QED
    BY ONLY <2>1, b \in Seq(T), y \in Seq(T)
<1>5. (a \o (q \o y)) \o b = (l \o piece) \o r
  <2> HIDE DEF q
  <2> QED
    BY <1>2, <1>3, <1>4, Zenon DEF r, lp
<1> HIDE DEF q, l, r
<1>6. (l \o piece) \o r \in Seq(T)
  BY <1>1
<1>7. Has((l \o piece) \o r, piece)
  <2>1. Splits(T, (l \o piece) \o r, piece)
    BY <1>1 DEF Splits
  <2> QED
    BY <1>1, <1>6, <2>1, HasSplit
<1> QED
  BY <1>5, <1>7 DEF q

\* A line by itself is replaced by what is put instead of it.
LEMMA ReplacedOne ==
    ASSUME NEW T, NEW e, e.new \in Seq(T), NEW x \in T
    PROVE  Replaced(<<x>>, e) = Instead(e, x)
<1> DEFINE z == << >>
<1>1. z \in Seq(T)
  OBVIOUS
<1>5. Append(z, x) = <<x>>
  OBVIOUS
<1>2. Instead(e, x) \in Seq(T) /\ Replaced(z, e) = z
  BY <1>1, ReplacedAppend
<1>3. z \o Instead(e, x) = Instead(e, x)
  BY <1>2, ConcatEmptySeq
<1> HIDE DEF z
<1>4. Replaced(Append(z, x), e) = Replaced(z, e) \o Instead(e, x)
  BY <1>1, ReplacedAppend
<1> QED
  BY <1>2, <1>3, <1>4, <1>5

\* What an edit puts there is there in one piece.
LEMMA NewThere ==
    ASSUME NEW T, NEW e, e.new \in Seq(T), NEW t \in Seq(T), Occurs(t, e.old) # 0
    PROVE  \E a, b \in Seq(T) : Replaced(t, e) = (a \o e.new) \o b
<1>0. e.old \in T /\ \E a, b \in Seq(T) : t = (a \o <<e.old>>) \o b
  <2> DEFINE p == e.old
  <2>1. Occurs(t, p) # 0
    OBVIOUS
  <2> HIDE DEF p
  <2>2. p \in T /\ \E a, b \in Seq(T) : t = (a \o <<p>>) \o b
    BY <2>1, OccursSplit
  <2> QED
    BY <2>2, Zenon DEF p
<1>1. PICK a \in Seq(T), b \in Seq(T) : t = (a \o <<e.old>>) \o b
  BY <1>0
<1>2. e.old \in T /\ <<e.old>> \in Seq(T) /\ a \o <<e.old>> \in Seq(T)
  BY <1>0
<1>3. Replaced(<<e.old>>, e) = e.new
  <2>1. Replaced(<<e.old>>, e) = Instead(e, e.old)
    <3> DEFINE p == e.old
    <3>1. p \in T
      BY <1>2
    <3> HIDE DEF p
    <3>2. Replaced(<<p>>, e) = Instead(e, p)
      BY <3>1, ReplacedOne
    <3> QED
      BY <3>2 DEF p
  <2> QED
    BY <2>1 DEF Instead
<1>4. Replaced(t, e) = (Replaced(a, e) \o e.new) \o Replaced(b, e)
  <2>1. Replaced((a \o <<e.old>>) \o b, e) = Replaced(a \o <<e.old>>, e) \o Replaced(b, e)
    BY <1>2, ReplacedConcat
  <2>2. Replaced(a \o <<e.old>>, e) = Replaced(a, e) \o Replaced(<<e.old>>, e)
    BY <1>2, ReplacedConcat
  <2> QED
    BY <1>1, <1>3, <2>1, <2>2
<1>5. Replaced(a, e) \in Seq(T) /\ Replaced(b, e) \in Seq(T)
  BY ReplacedType
<1> QED
  BY <1>4, <1>5

\* A text is added once: no text occurs twice.
LEMMA OccursDistinct ==
    ASSUME NEW T, NEW t \in Seq(T), NEW p, \A i, j \in DOMAIN t : t[i] = t[j] => i = j
    PROVE  Occurs(t, p) = IF p \in Range(t) THEN 1 ELSE 0
<1> DEFINE S == {i \in 1 .. Len(t) : t[i] = p}
<1>1. Occurs(t, p) = Cardinality(S)
  BY OnePlaces DEF Occurs
<1>2. CASE p \in Range(t)
  <2>1. PICK i \in 1 .. Len(t) : t[i] = p
    BY <1>2 DEF Range
  <2>2. S = {i}
    BY <2>1
  <2> HIDE DEF S
  <2>3. Cardinality(S) = 1
    BY <2>2, FS_Singleton
  <2> QED
    BY <1>1, <1>2, <2>3
<1>3. CASE p \notin Range(t)
  BY <1>3, OccursNever
<1> QED
  BY <1>2, <1>3

\* What an edit puts in, counted.
LEMMA OccursNew ==
    ASSUME NEW T, NEW e, NEW p, e.old \in T, e.added \in Seq(T), e.old \notin Range(e.added),
           \A i, j \in DOMAIN e.added : e.added[i] = e.added[j] => i = j,
           e.new \in {e.added, e.added \o <<e.old>>, <<e.old>> \o e.added}
    PROVE  /\ e.new \in Seq(T)
           /\ Occurs(e.new, p) = IF p \in Range(e.added) THEN 1
                                 ELSE IF p = e.old /\ e.new # e.added THEN 1 ELSE 0
<1> DEFINE a == e.added
           o == <<e.old>>
<1>1. a \in Seq(T) /\ o \in Seq(T) /\ \A r : Occurs(o, r) = IF e.old = r THEN 1 ELSE 0
  BY OccursOne
<1>2. \A r : Occurs(a, r) = IF r \in Range(a) THEN 1 ELSE 0
  BY OccursDistinct
<1> HIDE DEF o
<1>3. /\ a \o o \in Seq(T) /\ o \o a \in Seq(T)
      /\ \A r : Occurs(a \o o, r) = Occurs(a, r) + Occurs(o, r)
      /\ \A r : Occurs(o \o a, r) = Occurs(o, r) + Occurs(a, r)
  BY <1>1, OccursConcat
<1>4. Occurs(a, e.old) = 0 /\ Occurs(a \o o, e.old) = 1 /\ Occurs(o \o a, e.old) = 1
  BY <1>1, <1>2, <1>3
<1>5. a \o o # a /\ o \o a # a
  <2>1. 0 # 1
    OBVIOUS
  <2> QED
    BY ONLY <1>4, <2>1, Zenon
<1>6. CASE e.new = a
  BY <1>1, <1>2, <1>6
<1>7. CASE e.new = a \o o
  BY <1>1, <1>2, <1>3, <1>5, <1>7
<1>8. CASE e.new = o \o a
  BY <1>1, <1>2, <1>3, <1>5, <1>8
<1> QED
  BY <1>6, <1>7, <1>8 DEF o

\* The first and the last of a piece.
LEMMA FrontLast ==
    ASSUME NEW T, NEW s \in Seq(T), s # << >>
    PROVE  /\ Front(s) \in Seq(T) /\ Last(s) \in T /\ s = Front(s) \o <<Last(s)>>
           /\ Head(s) \in T /\ Tail(s) \in Seq(T) /\ s = <<Head(s)>> \o Tail(s)
<1>1. PICK r \in Seq(T), x \in T : s = Append(r, x)
  BY SequenceEmptyOrAppend
<1>2. Len(s) = Len(r) + 1 /\ s[Len(r) + 1] = x /\ Len(r) \in Nat /\ \A i \in 1 .. Len(r) : s[i] = r[i]
  BY <1>1, AppendProperties
<1>3. Last(s) = x
  BY <1>2 DEF Last
<1>4. Front(s) = r
  <2>1. Front(s) = SubSeq(s, 1, Len(r))
    BY <1>2 DEF Front
  <2> DEFINE f == SubSeq(s, 1, Len(r))
  <2>2. f \in Seq(T) /\ Len(f) = Len(r) /\ \A i \in 1 .. Len(r) : f[i] = s[i]
    BY <1>2
  <2> HIDE DEF f
  <2>3. f = r
    BY <1>2, <2>2, SeqEqual
  <2> QED
    BY <2>1, <2>3 DEF f
<1>5. Append(r, x) = r \o <<x>>
  BY <1>1
<1>6. Head(s) \in T /\ Tail(s) \in Seq(T) /\ Len(Tail(s)) = Len(s) - 1 /\ \A i \in 1 .. Len(Tail(s)) : Tail(s)[i] = s[i + 1]
  BY HeadTailProperties
<1>7. s = <<Head(s)>> \o Tail(s)
  OBVIOUS
<1> QED
  BY <1>1, <1>3, <1>4, <1>5, <1>6, <1>7

\* An edit that spares a piece keeps it, with more at one end perhaps.
LEMMA SparedPart ==
    ASSUME NEW T, NEW e, e.old \in T, e.added \in Seq(T), e.new \in Seq(T),
           NEW piece \in Seq(T), piece # << >>, Spares(e, piece)
    PROVE  Splits(T, Replaced(piece, e), piece)
<1> DEFINE z == << >>
           o == <<e.old>>
           a == e.added
<1>1. z \in Seq(T) /\ o \in Seq(T) /\ a \in Seq(T)
  OBVIOUS
<1>2. \A s \in Seq(T) : z \o s = s /\ s \o z = s
  BY ConcatEmptySeq
<1>3. Replaced(o, e) = e.new
  <2>1. Replaced(<<e.old>>, e) = Instead(e, e.old)
    BY ReplacedOne
  <2> QED
    BY <2>1 DEF Instead
<1>4. CASE e.old \notin Range(piece)
  <2>1. Replaced(piece, e) = piece
    BY <1>4, ReplacedNothing
  <2>2. piece = (z \o piece) \o z
    BY <1>2
  <2> QED
    BY <1>1, <2>1, <2>2 DEF Splits
<1>5. CASE e.new = o \o a /\ e.old = Last(piece) /\ e.old \notin Range(Front(piece))
  <2> DEFINE f == Front(piece)
  <2>1. f \in Seq(T) /\ piece = f \o o
    BY <1>5, FrontLast
  <2>2. Replaced(f, e) = f
    BY <1>5, <2>1, ReplacedNothing
  <2> HIDE DEF f, o, a, z
  <2>3. Replaced(f \o o, e) = Replaced(f, e) \o Replaced(o, e)
    BY <1>1, <2>1, ReplacedConcat
  <2>4. f \o (o \o a) = (f \o o) \o a
    BY <1>1, <2>1
  <2>5. z \o piece = piece
    BY <1>2
  <2> QED
    BY <1>1, <1>3, <1>5, <2>1, <2>2, <2>3, <2>4, <2>5 DEF Splits
<1>6. CASE e.new = a \o o /\ e.old = Head(piece) /\ e.old \notin Range(Tail(piece))
  <2> DEFINE f == Tail(piece)
  <2>1. f \in Seq(T) /\ piece = o \o f
    BY <1>6, FrontLast
  <2>2. Replaced(f, e) = f
    BY <1>6, <2>1, ReplacedNothing
  <2> HIDE DEF f, o, a, z
  <2>3. Replaced(o \o f, e) = Replaced(o, e) \o Replaced(f, e)
    BY <1>1, <2>1, ReplacedConcat
  <2>4. (a \o o) \o f = a \o (o \o f)
    BY <1>1, <2>1
  <2>5. (a \o piece) \o z = a \o piece
    <3>1. a \o piece \in Seq(T)
      BY <1>1
    <3> QED
      BY <1>2, <3>1
  <2> QED
    BY <1>1, <1>3, <1>6, <2>1, <2>2, <2>3, <2>4, <2>5 DEF Splits
<1> QED
  BY <1>4, <1>5, <1>6 DEF Spares, Splits

LEMMA HasReplaced ==
    ASSUME NEW T, NEW e, e.old \in T, e.added \in Seq(T), e.new \in Seq(T),
           NEW t \in Seq(T), NEW piece \in Seq(T), Has(t, piece), Spares(e, piece)
    PROVE  Has(Replaced(t, e), piece)
<1>1. piece # << >> /\ Splits(T, t, piece)
  BY HasSplit
<1>2. PICK a \in Seq(T), b \in Seq(T) : t = (a \o piece) \o b
  BY <1>1 DEF Splits
<1>3. PICK x \in Seq(T), y \in Seq(T) : Replaced(piece, e) = (x \o piece) \o y
  <2>1. Splits(T, Replaced(piece, e), piece)
    BY <1>1, SparedPart
  <2> QED
    BY <2>1 DEF Splits
<1>4. a \o piece \in Seq(T)
  OBVIOUS
<1> DEFINE u == Replaced(a, e)
           v == Replaced(b, e)
<1>5. u \in Seq(T) /\ v \in Seq(T)
  BY ReplacedType
<1>6. Replaced((a \o piece) \o b, e) = (u \o Replaced(piece, e)) \o v
  <2>1. Replaced((a \o piece) \o b, e) = Replaced(a \o piece, e) \o v
    BY <1>4, ReplacedConcat
  <2>2. Replaced(a \o piece, e) = u \o Replaced(piece, e)
    BY ReplacedConcat
  <2> QED
    BY <2>1, <2>2
<1> HIDE DEF u, v
<1>7. Has((u \o ((x \o piece) \o y)) \o v, piece)
  BY <1>1, <1>5, HasInner
<1> QED
  BY <1>2, <1>3, <1>6, <1>7

-------------------------------------------------------------------------------
(* The installation: what an edit finds and leaves *)

\* Texts that are added as often as their anchor is there, which is not once: an
\* edit whose guard lets that pass, in a file that has drifted at its anchor.
Lax(d, q) == Tolerates(GuardAt(q), d.kind)
Loose(d, f, p) ==
    /\ d.kind # "none" /\ d.file = f
    /\ \E q \in Spots :
         /\ EditAt(q).file = f /\ EditAt(q).old = d.at /\ Lax(d, q)
         /\ p \in Range(EditAt(q).added)

\* The edits of a file that come before the k-th of the n-th script.
DoneIn(f, n, k) ==
    {q \in Spots : EditAt(q).file = f /\ (q[1] < n \/ (q[1] = n /\ q[2] < k))}
AllIn(f) == {q \in Spots : EditAt(q).file = f}

Gone(done) == {EditAt(q).old : q \in {r \in done : Swaps(r)}}
There(done) == UNION {Range(EditAt(q).added) : q \in done}
TextsOf(f) == {EditAt(q).old : q \in AllIn(f)} \cup There(AllIn(f))

Counted(d, f, text, done) ==
    \A p \in TextsOf(f) :
      ~Loose(d, f, p) =>
        Occurs(text, p) = IF p \in Gone(done) THEN 0
                          ELSE IF p \in There(done) THEN 1
                          ELSE Occurs(Drifted(d, f), p)

InOnePiece(text, done) ==
    \A q \in done :
      GuardAt(q) \notin {"any", "some"} =>
        /\ StaysWhole(q, EditAt(q).new) => Has(text, EditAt(q).new)
        /\ StaysWhole(q, EditAt(q).added) => Has(text, EditAt(q).added)

\* An edit that is guarded was not made where the file has drifted.
Watched(d, f, done) ==
    \A q \in done :
      ~Lax(d, q) => ~ (d.kind # "none" /\ d.file = f /\ d.at = EditAt(q).old)

TextFits(d, f, text, done) ==
    text \in Seq(STRING) /\ Counted(d, f, text, done) /\ InOnePiece(text, done) /\ Watched(d, f, done)

\* The reviewed sources, or one anchor of them is gone or repeated.
DriftOK(d) ==
    /\ d = [kind |-> d.kind, file |-> d.file, at |-> d.at]
    /\ \/ d.kind = "none" /\ d.file = ""
       \/ /\ d.kind \in {"missing", "double"} /\ d.file \in Files
          /\ d.at \in Range(Sources[d.file])

\* What is prepared belongs to a script that writes it at its end.
QueueInv ==
    /\ todo \in Seq(DOMAIN Scripts) /\ at \in Nat \ {0}
    /\ tree \in [Files -> Seq(STRING)]
    /\ DOMAIN prepared \subseteq Files
    /\ \A f \in DOMAIN prepared : prepared[f] \in Seq(STRING)
    /\ todo = << >> => at = 1
    /\ at = 1 => DOMAIN prepared = {}
    /\ todo # << >> => outcome = "patching" /\ (Current.whole \/ DOMAIN prepared = {})

StageInv ==
    /\ outcome \in {"idle", "fetching", "patching", "failed", "installed"}
    /\ exists \in BOOLEAN /\ marked \in BOOLEAN /\ hand \subseteq Runnable
    /\ fetch \in [DataFiles -> [left : 0..MaxAttempts, got : {"none", "ok", "bad"}]]
    /\ outcome \notin {"idle", "failed"} => exists
    /\ outcome = "idle" => ~exists
    /\ outcome = "fetching" \/ ~exists =>
         /\ tree = [f \in Files |-> Drifted(drift, f)] /\ ~marked
         /\ \A d \in DataFiles : fetch[d].got = "none" => fetch[d].left # 0
    /\ outcome \in {"patching", "installed"} => \A d \in DataFiles : fetch[d].got = "ok"
    /\ outcome = "installed" => marked
    /\ marked => outcome = "installed" \/ (outcome = "patching" /\ hand # {})
    /\ hand # {} => marked

\* The installer runs every script once, in one order.
FirstRun ==
    outcome = "patching" /\ hand = {} =>
      \E n \in 1 .. Len(Scripts) + 1 :
        /\ todo = [i \in 1 .. Len(Scripts) + 1 - n |-> n - 1 + i]
        /\ \A f \in Files : TextFits(drift, f, Text(f), DoneIn(f, n, at))

WholeTree == \A f \in Files : TextFits(drift, f, tree[f], AllIn(f))

\* A script that runs again has not come to its edit that refuses.
Refuses(q) ==
    \/ Repeats(q) /\ at = 1
    \/ Exhausts(q) /\ at <= q[2] /\ Occurs(Text(EditAt(q).file), EditAt(q).old) = 0

\* The scripts of one name run in their order; those before did not stop.
AgainRun ==
    outcome = "patching" /\ hand # {} /\ "stonefist" \notin hand /\ todo # << >> =>
      /\ Scripts[todo[1]].name \in Runnable \ {"stonefist"}
      /\ \A i \in DOMAIN todo : Scripts[todo[i]].name = Scripts[todo[1]].name
      /\ \A i, j \in DOMAIN todo : i < j => todo[i] < todo[j]
      /\ \A i \in DOMAIN Scripts :
           Scripts[i].name = Scripts[todo[1]].name =>
             i \in Range(todo) \/ (i < todo[1] /\ ~StopsAgain(i))
      /\ StopsAgain(todo[1]) => \E q \in Spots : q[1] = todo[1] /\ Refuses(q)

InstallInv ==
    /\ DriftOK(drift) /\ QueueInv /\ StageInv /\ FirstRun /\ AgainRun
    /\ marked => /\ drift.kind # "none" => DriftPassed
                 /\ "stonefist" \notin hand => WholeTree

LEMMA SpotFacts ==
    ASSUME NEW q, q \in Spots
    PROVE  /\ EditAt(q).old \in STRING /\ EditAt(q).added \in Seq(STRING) /\ EditAt(q).new \in Seq(STRING)
           /\ EditAt(q).old \notin Range(EditAt(q).added)
           /\ EditAt(q).new \in {EditAt(q).added, EditAt(q).added \o <<EditAt(q).old>>, <<EditAt(q).old>> \o EditAt(q).added}
           /\ GuardAt(q) \in {"strict", "once", "some", "lenient", "block", "any"}
           /\ GuardAt(q) \in {"strict", "lenient", "block"} => EditAt(q).added # << >>
           /\ GuardAt(q) \in {"any", "some"} => Swaps(q) /\ EditAt(q).old \in Range(Sources[EditAt(q).file])
           /\ \A p : Occurs(EditAt(q).new, p) =
                       IF p \in Range(EditAt(q).added) THEN 1
                       ELSE IF p = EditAt(q).old /\ ~Swaps(q) THEN 1 ELSE 0
<1> DEFINE e == EditAt(q)
<1>1. /\ e.old \in STRING /\ e.added \in Seq(STRING)
      /\ e.old \notin Range(e.added)
      /\ \A i, j \in DOMAIN e.added : e.added[i] = e.added[j] => i = j
      /\ e.new \in {e.added, e.added \o <<e.old>>, <<e.old>> \o e.added}
      /\ GuardAt(q) \in {"strict", "once", "some", "lenient", "block", "any"}
      /\ GuardAt(q) \in {"strict", "lenient", "block"} => e.added # << >>
      /\ GuardAt(q) \in {"any", "some"} => Swaps(q) /\ e.old \in Range(Sources[e.file])
  BY TableAssumption, Zenon DEF EditsAreFormed
<1> HIDE DEF e
<1>2. \A p : /\ e.new \in Seq(STRING)
             /\ Occurs(e.new, p) = IF p \in Range(e.added) THEN 1
                                   ELSE IF p = e.old /\ e.new # e.added THEN 1 ELSE 0
  <2> DEFINE o == e.old
             a == e.added
             n == e.new
  <2>1. o \in STRING /\ a \in Seq(STRING) /\ o \notin Range(a)
    BY <1>1
  <2>2. \A i, j \in DOMAIN a : a[i] = a[j] => i = j
    BY <1>1
  <2>3. n \in {a, a \o <<o>>, <<o>> \o a}
    BY <1>1
  <2> QED
    BY <2>1, <2>2, <2>3, OccursNew
<1>3. e.new \in Seq(STRING)
  BY <1>2
<1>4. Swaps(q) <=> e.new = e.added
  BY DEF Swaps, e
<1> QED
  BY <1>1, <1>2, <1>3, <1>4, Zenon DEF e

LEMMA SpotPlace ==
    ASSUME NEW q
    PROVE  q \in Spots <=> /\ q = <<q[1], q[2]>> /\ q[1] \in DOMAIN Scripts
                           /\ q[2] \in DOMAIN Scripts[q[1]].edits
  BY DEF Spots

LEMMA ScriptsAre == /\ DOMAIN Scripts = 1 .. Len(Scripts) /\ Len(Scripts) \in Nat
                    /\ \A i \in DOMAIN Scripts : /\ Scripts[i].whole \in BOOLEAN
                                                 /\ Scripts[i].edits \in Seq(Edits)
<1>1. DOMAIN Scripts = 1 .. Len(Scripts) /\ Len(Scripts) \in Nat
  BY DEF Scripts
<1>2. \A i \in DOMAIN Scripts : Scripts[i].whole \in BOOLEAN /\ Scripts[i].edits \in Seq(Edits)
  BY TableAssumption, Zenon DEF EditsAreFormed
<1> QED
  BY <1>1, <1>2, Zenon

LEMMA EditIn ==
    /\ \A q \in Spots : EditAt(q) \in Edits /\ EditAt(q).file \in Files
    /\ \A e \in Edits : \E q \in Spots : EditAt(q) = e
<1>1. ASSUME NEW q \in Spots PROVE EditAt(q) \in Edits /\ EditAt(q).file \in Files
  <2>1. q[1] \in DOMAIN Scripts /\ q[2] \in DOMAIN Scripts[q[1]].edits
    BY SpotPlace
  <2>2. EditAt(q) \in Edits
    BY <2>1 DEF Edits, EditAt, Range
  <2> QED
    BY <2>2 DEF Files, Sources
<1>2. ASSUME NEW e \in Edits PROVE \E q \in Spots : EditAt(q) = e
  <2>1. PICK i \in DOMAIN Scripts : e \in Range(Scripts[i].edits)
    BY DEF Edits
  <2>2. PICK j \in DOMAIN Scripts[i].edits : Scripts[i].edits[j] = e
    BY <2>1 DEF Range
  <2> DEFINE q == <<i, j>>
  <2>3. q[1] = i /\ q[2] = j
    OBVIOUS
  <2>4. q \in Spots
    BY <2>1, <2>2 DEF Spots
  <2> QED
    BY <2>2, <2>3, <2>4 DEF EditAt
<1> QED
  BY <1>1, <1>2

\* The file as it came: every anchor once, save the one that has drifted.
LEMMA DriftedCounts ==
    ASSUME NEW d, DriftOK(d), NEW f, f \in Files
    PROVE  /\ Drifted(d, f) \in Seq(STRING)
           /\ Range(Drifted(d, f)) \subseteq Range(Sources[f])
           /\ \A b \in Range(Sources[f]) :
                /\ Occurs(Drifted(d, f), b) = 1 <=>
                     ~ (d.kind # "none" /\ d.file = f /\ d.at = b)
                /\ d.kind = "missing" /\ d.file = f /\ d.at = b => Occurs(Drifted(d, f), b) = 0
<1>1. /\ Sources[f] \in Seq(STRING) /\ "" \notin Files
      /\ \A a \in Range(Sources[f]) : Occurs(Sources[f], a) = 1
  BY TableAssumption, Zenon DEF SourcesAreReviewed
<1>2. CASE d.file # f
  BY <1>1, <1>2 DEF Drifted
<1>3. CASE d.file = f
  <2>1. /\ d.kind \in {"missing", "double"} /\ d.at \in Range(Sources[f])
        /\ d = [kind |-> d.kind, file |-> f, at |-> d.at]
    BY <1>1, <1>3, Zenon DEF DriftOK
  <2> DEFINE a == d.at
             kind == d.kind
             dd == [kind |-> kind, file |-> f, at |-> a]
             text == Drifted(dd, f)
  <2>2. /\ text \in Seq(STRING) /\ Occurs(text, a) # 1
        /\ kind = "missing" => a \notin Range(text)
        /\ \A b \in Range(text) : b = a \/ Occurs(text, b) = 1
        /\ Range(text) \cup {a} = Range(Sources[f])
    <3>1. \A b \in Range(Sources[f]) : \A k \in {"missing", "double"} :
            LET t == Drifted([kind |-> k, file |-> f, at |-> b], f)
            IN  /\ t \in Seq(STRING) /\ Occurs(t, b) # 1
                /\ k = "missing" => b \notin Range(t)
                /\ \A c \in Range(t) : c = b \/ Occurs(t, c) = 1
                /\ Range(t) \cup {b} = Range(Sources[f])
      BY TableAssumption DEF SourcesAreReviewed
    <3>2. kind \in {"missing", "double"} /\ a \in Range(Sources[f])
      BY <2>1
    <3> HIDE DEF a, kind
    <3> QED
      BY <3>1, <3>2
  <2>3. text = Drifted(d, f) /\ kind # "none"
    BY <2>1
  <2> HIDE DEF text
  <2>4. \A b \in Range(Sources[f]) :
          /\ Occurs(text, b) = 1 <=> a # b
          /\ kind = "missing" /\ a = b => Occurs(text, b) = 0
    BY <2>2, OccursNever
  <2> QED
    BY <1>3, <2>2, <2>3, <2>4
<1> QED
  BY <1>2, <1>3

\* What TextsAreApart says of two edits of a file.
LEMMA ApartFacts ==
    ASSUME NEW q, q \in Spots, NEW r, r \in Spots, SameFile(q, r)
    PROVE  /\ q # r => Range(EditAt(q).added) \cap Range(EditAt(r).added) = {}
           /\ Range(EditAt(q).added) \cap Range(Sources[EditAt(q).file]) = {}
           /\ EditAt(r).old \in Range(EditAt(q).added) => Sooner(q, r) /\ GuardAt(q) \notin {"any", "some"}
           /\ Swaps(q) /\ Sooner(q, r) => EditAt(r).old # EditAt(q).old
  BY TableAssumption, Zenon DEF TextsAreApart

\* Anchors and the texts of guarded edits are counted.
LEMMA NotLoose ==
    ASSUME NEW d, NEW q, q \in Spots, NEW f, f = EditAt(q).file
    PROVE  /\ ~Loose(d, f, EditAt(q).old)
           /\ ~Lax(d, q) => \A p \in Range(EditAt(q).added) : ~Loose(d, f, p)
           /\ \A p \in Range(EditAt(q).added) :
                ~Loose(d, f, p) /\ Lax(d, q) =>
                  ~ (d.kind # "none" /\ d.file = f /\ d.at = EditAt(q).old)
<1>1. ASSUME NEW r, r \in Spots, EditAt(r).file = f, Lax(d, r),
             EditAt(q).old \in Range(EditAt(r).added)
      PROVE  FALSE
  <2>1. SameFile(r, q)
    BY <1>1 DEF SameFile
  <2>2. GuardAt(r) \in {"any", "some"}
    BY <1>1 DEF Lax, Tolerates
  <2> QED
    BY <1>1, <2>1, <2>2, ApartFacts
<1>2. ASSUME NEW r, r \in Spots, EditAt(r).file = f, Lax(d, r), ~Lax(d, q),
             NEW p, p \in Range(EditAt(q).added), p \in Range(EditAt(r).added)
      PROVE  FALSE
  <2>1. SameFile(r, q) /\ r # q
    BY <1>2 DEF SameFile
  <2> QED
    BY <1>2, <2>1, ApartFacts
<1>3. ~Loose(d, f, EditAt(q).old)
  BY <1>1 DEF Loose
<1>4. ~Lax(d, q) => \A p \in Range(EditAt(q).added) : ~Loose(d, f, p)
  BY <1>2 DEF Loose
<1>5. ASSUME NEW p \in Range(EditAt(q).added), ~Loose(d, f, p), Lax(d, q)
      PROVE  ~ (d.kind # "none" /\ d.file = f /\ d.at = EditAt(q).old)
  BY <1>5 DEF Loose
<1> QED
  BY <1>3, <1>4, <1>5

\* The edits of a file made so far, and one that comes after them.
Comes(q, done) ==
    \A r \in done : r \in Spots /\ SameFile(r, q) /\ Sooner(r, q) /\ ~Sooner(q, r) /\ r # q

\* Texts of an edit that was not made are nowhere.
LEMMA NotThere ==
    ASSUME NEW d, DriftOK(d), NEW q, q \in Spots, NEW f, f = EditAt(q).file, NEW done, Comes(q, done),
           NEW text, TextFits(d, f, text, done)
    PROVE  /\ \A p \in Range(EditAt(q).added) :
                /\ p \notin Gone(done) /\ p \notin There(done) /\ p \in TextsOf(f)
                /\ ~Loose(d, f, p) => Occurs(text, p) = 0
           /\ EditAt(q).old \notin Gone(done)
           /\ EditAt(q).old \in TextsOf(f)
<1>1. f \in Files /\ q \in AllIn(f)
  BY EditIn DEF AllIn
<1>2. EditAt(q).old \in TextsOf(f) /\ \A p \in Range(EditAt(q).added) : p \in TextsOf(f)
  BY <1>1 DEF TextsOf, There
<1>3. ASSUME NEW p \in Range(EditAt(q).added)
      PROVE  /\ p \notin Gone(done) /\ p \notin There(done)
             /\ ~Loose(d, f, p) => Occurs(text, p) = 0
  <2>1. p \notin Gone(done)
    <3> SUFFICES ASSUME NEW r \in done, p = EditAt(r).old PROVE FALSE
      BY DEF Gone
    <3>1. r \in Spots /\ SameFile(q, r) /\ ~Sooner(q, r)
      BY DEF Comes, SameFile
    <3> QED
      BY <3>1, ApartFacts
  <2>2. p \notin There(done)
    <3> SUFFICES ASSUME NEW r \in done, p \in Range(EditAt(r).added) PROVE FALSE
      BY DEF There
    <3>1. r \in Spots /\ SameFile(q, r) /\ r # q
      BY DEF Comes, SameFile
    <3> QED
      BY <3>1, ApartFacts
  <2>3. Occurs(Drifted(d, f), p) = 0
    <3>1. SameFile(q, q)
      BY DEF SameFile
    <3>2. p \notin Range(Sources[f])
      BY <3>1, ApartFacts
    <3> QED
      BY <1>1, <3>2, DriftedCounts, OccursNever
  <2> QED
    BY <1>2, <2>1, <2>2, <2>3 DEF TextFits, Counted
<1>4. EditAt(q).old \notin Gone(done)
  <2> SUFFICES ASSUME NEW r \in done, Swaps(r), EditAt(q).old = EditAt(r).old PROVE FALSE
    BY DEF Gone
  <2>1. r \in Spots /\ SameFile(r, q) /\ Sooner(r, q)
    BY DEF Comes
  <2> QED
    BY <2>1, ApartFacts
<1> QED
  BY <1>2, <1>3, <1>4

\* An anchor of the reviewed sources is there once, unless the file has drifted.
LEMMA AnchorFound ==
    ASSUME NEW d, DriftOK(d), NEW q, q \in Spots, NEW f, f = EditAt(q).file, NEW done, Comes(q, done),
           NEW text, TextFits(d, f, text, done), EditAt(q).old \in Range(Sources[f])
    PROVE  /\ Occurs(text, EditAt(q).old) = 1 <=>
                ~ (d.kind # "none" /\ d.file = f /\ d.at = EditAt(q).old)
           /\ d.kind = "missing" /\ d.file = f /\ d.at = EditAt(q).old =>
                Occurs(text, EditAt(q).old) = 0
<1> DEFINE o == EditAt(q).old
<1>1. f \in Files
  BY EditIn
<1>2. o \notin There(done)
  <2> SUFFICES ASSUME NEW r \in done, o \in Range(EditAt(r).added) PROVE FALSE
    BY DEF There
  <2>1. r \in Spots /\ SameFile(r, r) /\ EditAt(r).file = f
    BY DEF Comes, SameFile
  <2> QED
    BY <2>1, ApartFacts
<1>3. Occurs(text, o) = Occurs(Drifted(d, f), o)
  BY <1>2, NotThere, NotLoose DEF TextFits, Counted
<1> QED
  BY <1>1, <1>3, DriftedCounts

\* The installer passes over no edit.
LEMMA NothingPassed ==
    ASSUME NEW d, DriftOK(d), NEW q, q \in Spots, NEW f, f = EditAt(q).file, NEW done, Comes(q, done),
           NEW text, TextFits(d, f, text, done)
    PROVE  ~Passed(GuardAt(q), EditAt(q), text)
<1> SUFFICES ASSUME GuardAt(q) \in {"lenient", "block"},
                    NEW piece, piece \in {EditAt(q).new, EditAt(q).added}, Has(text, piece)
             PROVE  FALSE
  BY DEF Passed
<1>1. /\ EditAt(q).added \in Seq(STRING) /\ EditAt(q).new \in Seq(STRING) /\ EditAt(q).added # << >>
      /\ \A p : Occurs(EditAt(q).new, p) =
                  IF p \in Range(EditAt(q).added) THEN 1
                  ELSE IF p = EditAt(q).old /\ ~Swaps(q) THEN 1 ELSE 0
  BY SpotFacts
<1>2. PICK p : p \in Range(EditAt(q).added)
  <2> DEFINE a == EditAt(q).added
  <2>1. a \in Seq(STRING) /\ a # << >>
    BY <1>1
  <2> HIDE DEF a
  <2>2. Len(a) # 0 /\ Len(a) \in Nat
    BY <2>1, EmptySeq
  <2>3. a[1] \in Range(a)
    BY <2>1, <2>2 DEF Range
  <2> QED
    BY <2>3 DEF a
<1>3. p \in Range(piece)
  <2>1. Occurs(EditAt(q).new, p) # 0
    BY <1>1, <1>2
  <2>2. p \in Range(EditAt(q).new)
    BY <1>1, <2>1, OccursNever
  <2> QED
    BY <1>2, <2>2
<1>4. text \in Seq(STRING) /\ piece \in Seq(STRING)
  BY <1>1 DEF TextFits
<1>5. p \in Range(text)
  BY <1>3, <1>4, HasRange
<1>6. Occurs(text, p) # 0
  BY <1>4, <1>5, OccursNever
<1>7. ~Lax(d, q)
  BY DEF Lax, Tolerates
<1> QED
  BY <1>2, <1>6, <1>7, NotThere, NotLoose

\* An edit that is made is counted, and leaves what is there in one piece.
LEMMA EditMade ==
    ASSUME NEW d, DriftOK(d), NEW q, q \in Spots, NEW f, f = EditAt(q).file, NEW done, Comes(q, done),
           NEW text, TextFits(d, f, text, done), Accepted(GuardAt(q), EditAt(q), text)
    PROVE  TextFits(d, f, Replaced(text, EditAt(q)), done \cup {q})
<1> DEFINE e == EditAt(q)
           o == e.old
           new == Replaced(text, e)
           more == done \cup {q}
<1>1. /\ o \in STRING /\ e.added \in Seq(STRING) /\ e.new \in Seq(STRING)
      /\ o \notin Range(e.added)
      /\ e.new \in {e.added, e.added \o <<o>>, <<o>> \o e.added}
      /\ GuardAt(q) \in {"any", "some"} => Swaps(q) /\ o \in Range(Sources[f])
      /\ \A p : Occurs(e.new, p) = IF p \in Range(e.added) THEN 1
                                   ELSE IF p = o /\ ~Swaps(q) THEN 1 ELSE 0
  BY SpotFacts
<1>2. text \in Seq(STRING)
  BY DEF TextFits
<1>3. /\ \A p \in Range(e.added) :
            /\ p \notin Gone(done) /\ p \notin There(done) /\ p \in TextsOf(f)
            /\ ~Loose(d, f, p) => Occurs(text, p) = 0
      /\ o \notin Gone(done) /\ o \in TextsOf(f)
  BY NotThere
<1>4. ~Loose(d, f, o)
  BY NotLoose
<1>5. /\ ~Lax(d, q) => Occurs(text, o) = 1
      /\ Lax(d, q) => GuardAt(q) \in {"any", "some"}
      /\ GuardAt(q) \notin {"any", "some"} => ~Lax(d, q)
  <2>1. /\ Lax(d, q) <=> GuardAt(q) = "any" \/ (GuardAt(q) = "some" /\ d.kind = "double")
        /\ GuardAt(q) \notin {"any", "some"} => Occurs(text, o) = 1
        /\ GuardAt(q) = "some" => Occurs(text, o) # 0
    BY DEF Lax, Tolerates, Accepted
  <2>2. GuardAt(q) = "some" /\ d.kind # "double" => Occurs(text, o) = 1
    <3>1. d.kind = "none" \/ d.kind = "missing" \/ d.kind = "double"
      BY DEF DriftOK
    <3>2. GuardAt(q) = "some" => o \in Range(Sources[f])
      BY <1>1
    <3> HIDE DEF e
    <3>3. GuardAt(q) = "some" =>
            /\ Occurs(text, o) = 1 <=> ~ (d.kind # "none" /\ d.file = f /\ d.at = o)
            /\ d.kind = "missing" /\ d.file = f /\ d.at = o => Occurs(text, o) = 0
      <4> SUFFICES ASSUME GuardAt(q) = "some" PROVE o \in Range(Sources[f])
        BY AnchorFound DEF e
      <4> QED
        BY <3>2
    <3> HIDE DEF o
    <3> QED
      BY <2>1, <3>1, <3>3
  <2> QED
    BY <2>1, <2>2
<1>6. \A p \in Range(e.added) : ~Loose(d, f, p) => Occurs(text, o) = 1
  <2>1. ASSUME NEW p \in Range(e.added), ~Loose(d, f, p), Lax(d, q) PROVE Occurs(text, o) = 1
    <3>1. ~ (d.kind # "none" /\ d.file = f /\ d.at = o)
      BY <2>1, NotLoose
    <3> QED
      BY <1>1, <1>5, <2>1, <3>1, AnchorFound
  <2> QED
    BY <1>5, <2>1
<1>7. /\ new \in Seq(STRING)
      /\ \A p : Occurs(new, p) =
                  (IF p = o THEN 0 ELSE Occurs(text, p)) + Occurs(text, o) * Occurs(e.new, p)
  <2> DEFINE ee == e
  <2>1. ee.new \in Seq(STRING)
    BY <1>1
  <2> HIDE DEF ee
  <2>2. Replaced(text, ee) \in Seq(STRING)
    BY <1>2, <2>1, ReplacedType
  <2>3. \A p : Occurs(Replaced(text, ee), p) =
                 (IF p = ee.old THEN 0 ELSE Occurs(text, p)) + Occurs(text, ee.old) * Occurs(ee.new, p)
    BY <1>2, <2>1, OccursReplaced
  <2> QED
    BY <2>2, <2>3, Zenon DEF ee
<1>8. \A p : Occurs(text, p) \in Nat
  BY <1>2, OccursNever
<1>9. /\ \A p : p \in There(more) <=> p \in There(done) \/ p \in Range(e.added)
      /\ \A p : p \in Gone(more) <=> p \in Gone(done) \/ (Swaps(q) /\ p = o)
  BY DEF There, Gone
<1>10. Counted(d, f, new, more)
  <2> SUFFICES ASSUME NEW p \in TextsOf(f), ~Loose(d, f, p)
               PROVE  Occurs(new, p) = IF p \in Gone(more) THEN 0
                                       ELSE IF p \in There(more) THEN 1
                                       ELSE Occurs(Drifted(d, f), p)
    BY DEF Counted
  <2>1. Occurs(text, p) = IF p \in Gone(done) THEN 0
                          ELSE IF p \in There(done) THEN 1
                          ELSE Occurs(Drifted(d, f), p)
    BY DEF TextFits, Counted
  <2> HIDE DEF new, more, o, e
  <2>2. CASE p = o /\ Swaps(q)
    <3>1. Occurs(e.new, p) = 0
      BY <1>1, <2>2
    <3>2. Occurs(new, p) = 0
      BY <1>7, <1>8, <2>2, <3>1
    <3> QED
      BY <1>9, <2>2, <3>2
  <2>3. CASE p = o /\ ~Swaps(q)
    <3>1. Occurs(e.new, p) = 1 /\ Occurs(text, o) = 1
      BY <1>1, <1>5, <2>3
    <3>2. Occurs(new, p) = Occurs(text, p)
      BY <1>7, <2>3, <3>1
    <3>3. p \notin Range(e.added)
      BY <1>1, <2>3
    <3> QED
      BY <1>9, <2>1, <2>3, <3>2, <3>3
  <2>4. CASE p \in Range(e.added)
    <3>1. Occurs(e.new, p) = 1 /\ Occurs(text, o) = 1 /\ Occurs(text, p) = 0 /\ p # o
      BY <1>1, <1>3, <1>6, <2>4
    <3>2. Occurs(new, p) = 1
      BY <1>7, <3>1
    <3> QED
      BY <1>3, <1>9, <2>4, <3>1, <3>2
  <2>5. CASE p # o /\ p \notin Range(e.added)
    <3>1. Occurs(e.new, p) = 0
      BY <1>1, <2>5
    <3>2. Occurs(new, p) = Occurs(text, p)
      BY <1>7, <1>8, <2>5, <3>1
    <3> QED
      BY <1>9, <2>1, <2>5, <3>2
  <2> QED
    BY <2>2, <2>3, <2>4, <2>5
<1>11. InOnePiece(new, more)
  <2>1. ASSUME NEW r \in done, GuardAt(r) \notin {"any", "some"}, NEW piece \in {EditAt(r).new, EditAt(r).added}, StaysWhole(r, piece)
        PROVE  Has(new, piece)
    <3>1. r \in Spots /\ SameFile(r, q) /\ Sooner(r, q)
      BY DEF Comes
    <3>2. Spares(e, piece)
      BY <2>1, <3>1 DEF StaysWhole
    <3>3. Has(text, piece)
      BY <2>1 DEF TextFits, InOnePiece
    <3>4. piece \in Seq(STRING)
      BY <3>1, SpotFacts
    <3> HIDE DEF e
    <3> QED
      BY <1>1, <1>2, <3>2, <3>3, <3>4, HasReplaced
  <2>2. ASSUME GuardAt(q) \notin {"any", "some"}, NEW piece \in {e.new, e.added}, piece # << >> PROVE Has(new, piece)
    <3> HIDE DEF e
    <3>1. Occurs(text, e.old) # 0
      BY <1>5, <2>2
    <3>2. e.new \in Seq(STRING)
      BY <1>1
    <3>3. \E a, b \in Seq(STRING) : Replaced(text, e) = (a \o e.new) \o b
      BY <1>2, <3>1, <3>2, NewThere
    <3>4. PICK a \in Seq(STRING), b \in Seq(STRING) : new = (a \o e.new) \o b
      BY <3>3
    <3>5. PICK x \in Seq(STRING), y \in Seq(STRING) : e.new = (x \o piece) \o y
      <4> DEFINE z == << >>
      <4>1. z \in Seq(STRING) /\ \A s \in Seq(STRING) : z \o s = s /\ s \o z = s
        BY ConcatEmptySeq
      <4> HIDE DEF z
      <4>2. <<o>> \in Seq(STRING) /\ e.new \in Seq(STRING) /\ e.added \in Seq(STRING)
        BY <1>1
      <4>3. CASE piece = e.new
        BY <4>1, <4>2, <4>3
      <4>4. CASE piece = e.added
        <5> DEFINE w == <<o>>
        <5>1. w \in Seq(STRING) /\ z \o piece = piece /\ piece \o z = piece
          BY <4>1, <4>2, <4>4
        <5>2. e.new = piece \/ e.new = piece \o w \/ e.new = w \o piece
          BY <1>1, <4>4
        <5> HIDE DEF w
        <5>3. (w \o piece) \o z = w \o piece
          <6>1. w \o piece \in Seq(STRING)
            BY <4>2, <4>4, <5>1
          <6> QED
            BY <4>1, <6>1
        <5> QED
          BY <4>1, <5>1, <5>2, <5>3
      <4> QED
        BY <4>3, <4>4
    <3>6. piece \in Seq(STRING)
      BY <1>1
    <3>7. Has((a \o ((x \o piece) \o y)) \o b, piece)
      BY <2>2, <3>6, HasInner
    <3> QED
      BY <3>4, <3>5, <3>7
  <2>3. \A piece : StaysWhole(q, piece) => piece # << >>
    BY DEF StaysWhole
  <2> QED
    BY <2>1, <2>2, <2>3 DEF InOnePiece
<1>12. Watched(d, f, more)
  <2>1. ASSUME ~Lax(d, q), d.kind # "none", d.file = f, d.at = o PROVE FALSE
    <3>1. d.at \in Range(Sources[f])
      <4>1. f # ""
        <5>1. f \in Files
          BY EditIn
        <5>2. "" \notin Files
          BY TableAssumption, Zenon DEF SourcesAreReviewed
        <5> QED
          BY <5>1, <5>2
      <4> QED
        BY <2>1, <4>1 DEF DriftOK
    <3> QED
      BY <1>5, <2>1, <3>1, AnchorFound
  <2> QED
    BY <2>1 DEF Watched, TextFits
<1> QED
  BY <1>7, <1>10, <1>11, <1>12 DEF TextFits

\* The edits made so far, edit by edit and script by script.
DoneThen(q, n, k) ==
    \A f : DoneIn(f, n, k + 1) =
             IF f = EditAt(q).file THEN DoneIn(f, n, k) \cup {q} ELSE DoneIn(f, n, k)

LEMMA DoneOne ==
    ASSUME NEW n, n \in DOMAIN Scripts, NEW k, k \in 1 .. Len(Scripts[n].edits), NEW q, q = <<n, k>>
    PROVE  /\ q \in Spots /\ q[1] = n /\ q[2] = k
           /\ Comes(q, DoneIn(EditAt(q).file, n, k))
           /\ DoneThen(q, n, k)
<1>1. q[1] = n /\ q[2] = k
  OBVIOUS
<1>2. n \in Nat /\ k \in Nat /\ DOMAIN Scripts[n].edits = 1 .. Len(Scripts[n].edits)
  BY ScriptsAre
<1>3. q \in Spots
  BY <1>2 DEF Spots
<1>4. \A r \in Spots : r[1] \in Nat /\ r[2] \in Nat /\ r = <<r[1], r[2]>>
  <2> TAKE r \in Spots
  <2>1. r = <<r[1], r[2]>> /\ r[1] \in DOMAIN Scripts /\ r[2] \in DOMAIN Scripts[r[1]].edits
    BY SpotPlace
  <2>2. Scripts[r[1]].edits \in Seq(Edits)
    BY <2>1, ScriptsAre
  <2> QED
    BY <2>1, <2>2, ScriptsAre
<1>5. Comes(q, DoneIn(EditAt(q).file, n, k))
  BY <1>1, <1>2, <1>4 DEF Comes, DoneIn, Sooner, SameFile
<1>6. ASSUME NEW f
      PROVE  DoneIn(f, n, k + 1) = IF f = EditAt(q).file THEN DoneIn(f, n, k) \cup {q} ELSE DoneIn(f, n, k)
  <2>1. ASSUME NEW r \in Spots, EditAt(r).file = f
        PROVE  r[1] < n \/ (r[1] = n /\ r[2] < k + 1) <=> r[1] < n \/ (r[1] = n /\ r[2] < k) \/ r = q
    BY <1>1, <1>2, <1>4, <2>1
  <2> QED
    BY <1>3, <1>1, <1>2, <2>1 DEF DoneIn
<1> QED
  BY <1>1, <1>3, <1>5, <1>6 DEF DoneThen

LEMMA DoneNext ==
    ASSUME NEW f
    PROVE  /\ DoneIn(f, 1, 1) = {}
           /\ DoneIn(f, Len(Scripts) + 1, 1) = AllIn(f)
           /\ \A n \in DOMAIN Scripts : \A k \in Nat :
                k > Len(Scripts[n].edits) => DoneIn(f, n, k) = DoneIn(f, n + 1, 1)
<1>1. ASSUME NEW r \in Spots
      PROVE  r[1] \in 1 .. Len(Scripts) /\ r[2] \in 1 .. Len(Scripts[r[1]].edits)
  <2>1. r[1] \in DOMAIN Scripts /\ r[2] \in DOMAIN Scripts[r[1]].edits
    BY SpotPlace
  <2>2. Scripts[r[1]].edits \in Seq(Edits)
    BY <2>1, ScriptsAre
  <2> QED
    BY <2>1, <2>2, ScriptsAre
<1>2. Len(Scripts) \in Nat /\ DOMAIN Scripts = 1 .. Len(Scripts)
  BY ScriptsAre
<1>3. ASSUME NEW n \in DOMAIN Scripts, NEW k \in Nat, k > Len(Scripts[n].edits)
      PROVE  DoneIn(f, n, k) = DoneIn(f, n + 1, 1)
  <2>1. Len(Scripts[n].edits) \in Nat
    BY ScriptsAre
  <2>2. ASSUME NEW r \in Spots
        PROVE  r[1] < n \/ (r[1] = n /\ r[2] < k) <=> r[1] < n + 1 \/ (r[1] = n + 1 /\ r[2] < 1)
    BY <1>1, <1>2, <1>3, <2>1
  <2> QED
    BY <2>2 DEF DoneIn
<1>4. DoneIn(f, 1, 1) = {}
  <2>1. \A r \in Spots : ~ (r[1] < 1 \/ (r[1] = 1 /\ r[2] < 1))
    BY <1>1
  <2> QED
    BY <2>1 DEF DoneIn
<1>5. DoneIn(f, Len(Scripts) + 1, 1) = AllIn(f)
  <2>1. \A r \in Spots : r[1] < Len(Scripts) + 1
    BY <1>1, <1>2
  <2> QED
    BY <2>1 DEF DoneIn, AllIn
<1> QED
  BY <1>3, <1>4, <1>5

\* Nothing is made in a file as it came.
LEMMA FreshFits ==
    ASSUME NEW d, DriftOK(d), NEW f, f \in Files
    PROVE  TextFits(d, f, Drifted(d, f), {})
<1>1. Drifted(d, f) \in Seq(STRING)
  BY DriftedCounts
<1>2. Gone({}) = {} /\ There({}) = {}
  BY DEF Gone, There
<1> QED
  BY <1>1, <1>2 DEF TextFits, Counted, InOnePiece, Watched

LEMMA InstallStarts == InstallInit => InstallInv
<1> SUFFICES ASSUME InstallInit PROVE InstallInv
  OBVIOUS
<1>0. MaxAttempts \in Nat \ {0} /\ DriftFiles \subseteq Files
  BY InstallAssumption
<1>1. DriftOK(drift)
  <2>1. CASE drift = [kind |-> "none", file |-> "", at |-> ""]
    BY <2>1 DEF DriftOK
  <2>2. CASE drift \in UNION {[kind : {"missing", "double"}, file : {f}, at : Range(Sources[f])] : f \in DriftFiles}
    <3>1. PICK f \in DriftFiles : drift \in [kind : {"missing", "double"}, file : {f}, at : Range(Sources[f])]
      BY <2>2
    <3>2. f \in Files /\ drift.file = f /\ drift.kind \in {"missing", "double"} /\ drift.at \in Range(Sources[f])
      BY <1>0, <3>1
    <3>3. drift = [kind |-> drift.kind, file |-> drift.file, at |-> drift.at]
      BY <3>1
    <3> QED
      BY <3>2, <3>3 DEF DriftOK
  <2> QED
    BY <2>1, <2>2 DEF InstallInit
<1>2. tree \in [Files -> Seq(STRING)]
  BY <1>1, DriftedCounts DEF InstallInit
<1>3. QueueInv
  <2>1. todo = << >> /\ at = 1 /\ prepared = << >>
    BY DEF InstallInit
  <2>2. todo \in Seq(DOMAIN Scripts) /\ DOMAIN prepared = {}
    BY <2>1
  <2> QED
    BY <1>2, <2>1, <2>2 DEF QueueInv
<1>4. StageInv
  <2>1. /\ outcome = "idle" /\ exists = FALSE /\ marked = FALSE /\ hand = {}
        /\ tree = [f \in Files |-> Drifted(drift, f)]
        /\ fetch = [d \in DataFiles |-> [left |-> MaxAttempts, got |-> "none"]]
    BY DEF InstallInit
  <2>2. fetch \in [DataFiles -> [left : 0..MaxAttempts, got : {"none", "ok", "bad"}]]
    BY <1>0, <2>1
  <2>3. \A d \in DataFiles : fetch[d].left # 0
    BY <1>0, <2>1
  <2> QED
    BY <2>1, <2>2, <2>3 DEF StageInv
<1> QED
  BY <1>1, <1>3, <1>4 DEF InstallInv, FirstRun, AgainRun, InstallInit

\* The edit a script has come to: passed over, refused or made.
PatchStep(q) ==
    LET e == EditAt(q)
        text == Text(e.file)
    IN  \/ /\ Passed(GuardAt(q), e, text)
           /\ at' = at + 1 /\ UNCHANGED <<outcome, todo, prepared, tree>>
        \/ /\ ~Passed(GuardAt(q), e, text) /\ ~Accepted(GuardAt(q), e, text)
           /\ outcome' = (IF hand = {} THEN "failed" ELSE "installed")
           /\ todo' = << >> /\ at' = 1 /\ prepared' = << >> /\ UNCHANGED tree
        \/ /\ ~Passed(GuardAt(q), e, text) /\ Accepted(GuardAt(q), e, text)
           /\ at' = at + 1 /\ UNCHANGED <<outcome, todo>>
           /\ IF Scripts[q[1]].whole
              THEN /\ prepared' = [f \in DOMAIN prepared \cup {e.file} |->
                                     IF f = e.file THEN Replaced(Text(f), e) ELSE prepared[f]]
                   /\ UNCHANGED tree
              ELSE /\ tree' = [tree EXCEPT ![e.file] = Replaced(@, e)]
                   /\ UNCHANGED prepared

LEMMA PatchHere ==
    ASSUME QueueInv, Patch, NEW q, q = <<todo[1], at>>
    PROVE  /\ todo # << >> /\ Head(todo) = todo[1] /\ todo[1] \in DOMAIN Scripts
           /\ at \in 1 .. Len(Scripts[todo[1]].edits)
           /\ outcome = "patching" /\ UNCHANGED <<drift, exists, fetch, marked, hand>>
           /\ q \in Spots /\ q[1] = todo[1] /\ q[2] = at /\ PatchStep(q)
<1>1. todo # << >> /\ todo \in Seq(DOMAIN Scripts) /\ at \in Nat \ {0}
  BY DEF Patch, QueueInv
<1>2. Head(todo) = todo[1] /\ todo[1] \in DOMAIN Scripts
  BY <1>1, EmptySeq
<1>3. Current = Scripts[todo[1]]
  BY <1>2 DEF Current
<1>4. Len(Scripts[todo[1]].edits) \in Nat
  BY <1>2, ScriptsAre
<1>5. at \in 1 .. Len(Scripts[todo[1]].edits)
  BY <1>1, <1>3, <1>4 DEF Patch
<1>6. q \in Spots /\ q[1] = todo[1] /\ q[2] = at
  BY <1>2, <1>5, DoneOne
<1>7. EditAt(q) = Current.edits[at] /\ GuardAt(q) = Guard(Current, EditAt(q))
  BY <1>3, <1>6 DEF EditAt, GuardAt
<1>8. PatchStep(q)
  <2> DEFINE e == EditAt(q)
             g == GuardAt(q)
  <2>1. Current.edits[at] = e /\ Guard(Current, e) = g /\ Current.whole = Scripts[q[1]].whole
    BY <1>3, <1>6, <1>7
  <2> HIDE DEF e, g
  <2> QED
    BY <2>1, Zenon DEF Patch, PatchStep, e, g
<1> QED
  BY <1>1, <1>2, <1>5, <1>6, <1>8 DEF Patch

LEMMA TextHere ==
    ASSUME QueueInv, NEW f, f \in Files
    PROVE  /\ Text(f) \in Seq(STRING)
           /\ DOMAIN prepared = {} => Text(f) = tree[f]
  BY DEF QueueInv, Text

\* An edit that is made changes the text of its file, for the script that runs.
LEMMA TextMade ==
    ASSUME QueueInv, NEW q, q \in Spots, todo # << >>, Head(todo) = q[1],
           NEW e, e = EditAt(q), ~Passed(GuardAt(q), e, Text(e.file)), Accepted(GuardAt(q), e, Text(e.file)),
           PatchStep(q)
    PROVE  /\ at' = at + 1 /\ UNCHANGED <<outcome, todo>>
           /\ tree' \in [Files -> Seq(STRING)] /\ DOMAIN prepared' \subseteq Files
           /\ \A f \in DOMAIN prepared' : prepared'[f] \in Seq(STRING)
           /\ Scripts[q[1]].whole => UNCHANGED tree
           /\ ~Scripts[q[1]].whole => /\ DOMAIN prepared = {} /\ UNCHANGED prepared
                                     /\ tree' = [tree EXCEPT ![e.file] = Replaced(@, e)]
           /\ \A f \in Files : Text(f)' = IF f = e.file THEN Replaced(Text(f), e) ELSE Text(f)
<1>1. e.file \in Files /\ e.new \in Seq(STRING)
  BY EditIn, SpotFacts
<1>2. Replaced(Text(e.file), e) \in Seq(STRING)
  BY <1>1, TextHere, ReplacedType
<1>3. at' = at + 1 /\ UNCHANGED <<outcome, todo>>
  BY DEF PatchStep
<1>4. Current.whole = Scripts[q[1]].whole
  BY DEF Current
<1>5. CASE Scripts[q[1]].whole
  <2>1. /\ prepared' = [f \in DOMAIN prepared \cup {e.file} |->
                         IF f = e.file THEN Replaced(Text(f), e) ELSE prepared[f]]
        /\ tree' = tree
    BY <1>5 DEF PatchStep
  <2>2. \A f \in Files : Text(f)' = IF f = e.file THEN Replaced(Text(f), e) ELSE Text(f)
    BY <2>1 DEF Text
  <2>3. DOMAIN prepared' \subseteq Files /\ \A f \in DOMAIN prepared' : prepared'[f] \in Seq(STRING)
    BY <1>1, <1>2, <2>1 DEF QueueInv
  <2> QED
    BY <1>3, <1>5, <2>1, <2>2, <2>3 DEF QueueInv
<1>6. CASE ~Scripts[q[1]].whole
  <2>1. prepared' = prepared /\ tree' = [tree EXCEPT ![e.file] = Replaced(@, e)]
    BY <1>6 DEF PatchStep
  <2>2. DOMAIN prepared = {}
    BY <1>4, <1>6 DEF QueueInv
  <2>3. Text(e.file) = tree[e.file] /\ tree \in [Files -> Seq(STRING)]
    BY <1>1, <2>2, TextHere DEF QueueInv
  <2>4. \A f \in Files : Text(f)' = IF f = e.file THEN Replaced(Text(f), e) ELSE Text(f)
    BY <2>1, <2>2, <2>3 DEF Text
  <2> QED
    BY <1>2, <1>3, <1>6, <2>1, <2>2, <2>3, <2>4
<1> QED
  BY <1>5, <1>6

\* A prepared file that is written keeps its text.
LEMMA TextWritten ==
    ASSUME QueueInv, Write
    PROVE  /\ \A f \in Files : Text(f)' = Text(f)
           /\ tree' \in [Files -> Seq(STRING)] /\ DOMAIN prepared' \subseteq DOMAIN prepared
           /\ \A f \in DOMAIN prepared' : prepared'[f] \in Seq(STRING)
<1>1. CASE DOMAIN prepared = {}
  BY <1>1 DEF Write, QueueInv, Text
<1>2. CASE DOMAIN prepared # {}
  <2> DEFINE g == CHOOSE f \in DOMAIN prepared : TRUE
  <2>1. g \in DOMAIN prepared
    BY <1>2
  <2>2. /\ tree' = [tree EXCEPT ![g] = prepared[g]]
        /\ prepared' = [f \in DOMAIN prepared \ {g} |-> prepared[f]]
    BY <1>2 DEF Write
  <2> HIDE DEF g
  <2>3. tree \in [Files -> Seq(STRING)] /\ g \in Files /\ prepared[g] \in Seq(STRING)
    BY <2>1 DEF QueueInv
  <2>4. \A f \in Files : Text(f)' = Text(f)
    BY <2>1, <2>2, <2>3 DEF Text
  <2> QED
    BY <2>1, <2>2, <2>3, <2>4 DEF QueueInv
<1> QED
  BY <1>1, <1>2

\* The scripts of a name, in their order.
LEMMA HandRunOrder ==
    ASSUME NEW name, RunByHand(name)
    PROVE  /\ todo' \in Seq(DOMAIN Scripts)
           /\ \A i \in DOMAIN todo' : Scripts[todo'[i]].name = name
           /\ \A i, j \in DOMAIN todo' : i < j => todo'[i] < todo'[j]
           /\ \A n \in DOMAIN Scripts : Scripts[n].name = name => n \in Range(todo')
<1> DEFINE kept == {i \in DOMAIN Scripts : Scripts[i].name = name}
           len == Len(Scripts)
           places == Places(len, kept)
<1>1. len \in Nat /\ DOMAIN Scripts = 1 .. len
  BY ScriptsAre
<1> HIDE DEF len
<1>2. InOrder(places, kept, len)
  BY <1>1, PlacesInOrder
<1>3. todo' = places
  BY DEF RunByHand, len
<1> HIDE DEF places
<1>4. places \in Seq(Nat) /\ \A i \in DOMAIN places : places[i] \in DOMAIN Scripts
  BY <1>1, <1>2 DEF InOrder
<1>5. places \in Seq(DOMAIN Scripts)
  <2>1. places \in [1 .. Len(places) -> DOMAIN Scripts] /\ Len(places) \in Nat
    BY <1>4
  <2> QED
    BY <2>1
<1> QED
  BY <1>1, <1>2, <1>3, <1>5 DEF InOrder, Range

LEMMA QueueStep ==
    ASSUME InstallInv, InstallNext
    PROVE  QueueInv'
<1>0. QueueInv /\ StageInv
  BY DEF InstallInv
<1> USE DEF QueueInv
<1>1. outcome # "patching" => todo = << >> /\ at = 1 /\ DOMAIN prepared = {}
  BY <1>0
<1>2. CASE Begin
  BY <1>0, <1>1, <1>2 DEF Begin, Current
<1>3. CASE Fetched
  <2>1. outcome = "fetching" /\ UNCHANGED <<at, prepared, tree>>
    BY <1>3 DEF Fetched
  <2>2. \/ todo' = todo
        \/ outcome' = "patching" /\ todo' = [i \in DOMAIN Scripts |-> i]
    BY <1>3 DEF Fetched
  <2>3. [i \in DOMAIN Scripts |-> i] \in Seq(DOMAIN Scripts)
    <3>1. Len(Scripts) \in Nat /\ DOMAIN Scripts = 1 .. Len(Scripts)
      BY ScriptsAre
    <3> QED
      BY <3>1
  <2> QED
    BY <1>0, <1>1, <2>1, <2>2, <2>3 DEF Current
<1>4. CASE Patch
  <2> DEFINE q == <<todo[1], at>>
             e == EditAt(q)
  <2>1. /\ todo # << >> /\ Head(todo) = todo[1] /\ outcome = "patching"
        /\ q \in Spots /\ q[1] = todo[1] /\ PatchStep(q)
    BY <1>0, <1>4, PatchHere
  <2> HIDE DEF q
  <2>2. CASE Passed(GuardAt(q), e, Text(e.file))
    <3>1. at' = at + 1 /\ UNCHANGED <<outcome, todo, prepared, tree>>
      BY <2>1, <2>2 DEF PatchStep
    <3> QED
      BY <1>0, <2>1, <3>1 DEF Current
  <2>3. CASE ~Passed(GuardAt(q), e, Text(e.file)) /\ ~Accepted(GuardAt(q), e, Text(e.file))
    <3>1. todo' = << >> /\ at' = 1 /\ prepared' = << >> /\ UNCHANGED tree
      BY <2>1, <2>3 DEF PatchStep
    <3>2. todo' \in Seq(DOMAIN Scripts) /\ DOMAIN prepared' = {}
      BY <3>1
    <3> QED
      BY <1>0, <3>1, <3>2
  <2>4. CASE ~Passed(GuardAt(q), e, Text(e.file)) /\ Accepted(GuardAt(q), e, Text(e.file))
    <3>1. /\ at' = at + 1 /\ UNCHANGED <<outcome, todo>>
          /\ tree' \in [Files -> Seq(STRING)] /\ DOMAIN prepared' \subseteq Files
          /\ \A f \in DOMAIN prepared' : prepared'[f] \in Seq(STRING)
          /\ ~Scripts[q[1]].whole => DOMAIN prepared = {} /\ UNCHANGED prepared
      BY <1>0, <2>1, <2>4, TextMade
    <3>2. Current' = Scripts[q[1]]
      BY <2>1, <3>1 DEF Current
    <3> QED
      BY <1>0, <2>1, <3>1, <3>2
  <2> QED
    BY <2>2, <2>3, <2>4
<1>5. CASE Write
  <2>1. /\ tree' \in [Files -> Seq(STRING)] /\ DOMAIN prepared' \subseteq DOMAIN prepared
        /\ \A f \in DOMAIN prepared' : prepared'[f] \in Seq(STRING)
    BY <1>0, <1>5, TextWritten
  <2>2. outcome' = outcome /\ todo # << >> /\ outcome = "patching"
    BY <1>5 DEF Write
  <2>3. CASE DOMAIN prepared = {}
    <3>1. todo' = Tail(todo) /\ at' = 1 /\ prepared' = prepared
      BY <1>5, <2>3 DEF Write
    <3>2. todo' \in Seq(DOMAIN Scripts)
      BY <1>0, <2>2, <3>1, HeadTailProperties
    <3> QED
      BY <1>0, <2>1, <2>2, <2>3, <3>1, <3>2
  <2>4. CASE DOMAIN prepared # {}
    <3>1. todo' = todo /\ at' = at
      BY <1>5, <2>4 DEF Write
    <3>2. Current' = Current
      BY <3>1 DEF Current
    <3> QED
      BY <1>0, <2>1, <2>2, <2>4, <3>1, <3>2
  <2> QED
    BY <2>3, <2>4
<1>6. CASE Mark
  BY <1>0, <1>6 DEF Mark, Current
<1>7. CASE Stop
  <2>1. todo' = << >> /\ at' = 1 /\ prepared' = << >> /\ UNCHANGED tree
    BY <1>7 DEF Stop
  <2>2. todo' \in Seq(DOMAIN Scripts) /\ DOMAIN prepared' = {}
    BY <2>1
  <2> QED
    BY <1>0, <2>1, <2>2
<1>8. ASSUME NEW d \in DataFiles, Fetch(d) PROVE QueueInv'
  BY <1>0, <1>8 DEF Fetch, Current
<1>9. ASSUME NEW name \in Runnable, RunByHand(name) PROVE QueueInv'
  <2>1. todo' \in Seq(DOMAIN Scripts)
    BY <1>9, HandRunOrder
  <2>2. outcome = "installed" /\ outcome' = "patching" /\ UNCHANGED <<at, prepared, tree>>
    BY <1>9 DEF RunByHand
  <2> QED
    BY <1>0, <1>1, <2>1, <2>2
<1> QED
  BY <1>2, <1>3, <1>4, <1>5, <1>6, <1>7, <1>8, <1>9 DEF InstallNext

LEMMA StageStep ==
    ASSUME InstallInv, InstallNext
    PROVE  StageInv'
<1>0. QueueInv /\ StageInv
  BY DEF InstallInv
<1>1. MaxAttempts \in Nat \ {0}
  BY InstallAssumption
<1> USE DEF StageInv
<1>2. CASE Begin
  <2>1. /\ outcome \in {"idle", "failed"} /\ hand = {}
        /\ UNCHANGED <<drift, fetch, todo, at, prepared, tree, marked, hand>>
    BY <1>2 DEF Begin
  <2>2. ~marked
    BY <1>0, <2>1
  <2>3. CASE outcome' = "failed" /\ UNCHANGED exists
    BY <1>0, <2>1, <2>2, <2>3
  <2>4. CASE ~exists /\ outcome' = "fetching" /\ exists' = TRUE
    BY <1>0, <2>1, <2>2, <2>4
  <2> QED
    BY <1>2, <2>3, <2>4 DEF Begin
<1>3. CASE Fetched
  <2>1. /\ outcome = "fetching" /\ UNCHANGED <<drift, exists, at, prepared, tree, marked, hand>>
        /\ fetch' = [d \in DataFiles |-> [fetch[d] EXCEPT !.left = 0]]
    BY <1>3 DEF Fetched
  <2>2. fetch' \in [DataFiles -> [left : 0..MaxAttempts, got : {"none", "ok", "bad"}]]
    BY <1>0, <1>1, <2>1
  <2>3. \A d \in DataFiles : fetch'[d].got = fetch[d].got
    BY <1>0, <2>1
  <2>4. CASE \E d \in DataFiles : fetch[d].got = "bad"
    <3>1. outcome' = "failed"
      BY <1>3, <2>4 DEF Fetched
    <3> QED
      BY <1>0, <2>1, <2>2, <3>1
  <2>5. CASE ~ \E d \in DataFiles : fetch[d].got = "bad"
    <3>1. outcome' = "patching" /\ \A d \in DataFiles : fetch[d].got # "none"
      BY <1>3, <2>5 DEF Fetched
    <3>2. \A d \in DataFiles : fetch[d].got = "ok"
      BY <1>0, <2>5, <3>1
    <3> QED
      BY <1>0, <2>1, <2>2, <2>3, <3>1, <3>2
  <2> QED
    BY <2>4, <2>5
<1>4. CASE Patch
  <2>1. outcome = "patching" /\ UNCHANGED <<drift, exists, fetch, marked, hand>>
    BY <1>4 DEF Patch
  <2>2. outcome' \in {outcome, IF hand = {} THEN "failed" ELSE "installed"}
    BY <1>4 DEF Patch
  <2> QED
    BY <1>0, <2>1, <2>2
<1>5. CASE Write
  <2>1. outcome = "patching" /\ UNCHANGED <<drift, outcome, exists, fetch, marked, hand>>
    BY <1>5 DEF Write
  <2> QED
    BY <1>0, <2>1
<1>6. CASE Mark
  BY <1>0, <1>6 DEF Mark
<1>7. CASE Stop
  BY <1>0, <1>7 DEF Stop
<1>8. ASSUME NEW d \in DataFiles, Fetch(d) PROVE StageInv'
  <2>1. PICK answer \in {"none", "ok", "bad"} :
          LET left == fetch[d].left - 1
          IN  fetch' = [fetch EXCEPT ![d] =
                [left |-> left, got |-> IF answer = "none" /\ left = 0 THEN "bad" ELSE answer]]
    BY <1>8 DEF Fetch
  <2>2. /\ outcome = "fetching" /\ fetch[d].got = "none"
        /\ UNCHANGED <<drift, outcome, exists, tree, marked, hand>>
    BY <1>8 DEF Fetch
  <2>3. fetch[d].left \in 1 .. MaxAttempts
    BY <1>0, <1>1, <2>2
  <2>4. /\ fetch' \in [DataFiles -> [left : 0..MaxAttempts, got : {"none", "ok", "bad"}]]
        /\ \A c \in DataFiles : fetch'[c].got = "none" => fetch'[c].left # 0
    BY <1>0, <1>1, <2>1, <2>2, <2>3
  <2> QED
    BY <1>0, <2>2, <2>4
<1>9. ASSUME NEW name \in Runnable, RunByHand(name) PROVE StageInv'
  BY <1>0, <1>9 DEF RunByHand
<1> QED
  BY <1>2, <1>3, <1>4, <1>5, <1>6, <1>7, <1>8, <1>9 DEF InstallNext

\* The rest of the queue, at the first run.
LEMMA QueueRest ==
    ASSUME NEW n, n \in 1 .. Len(Scripts) + 1, NEW s, s = [i \in 1 .. Len(Scripts) + 1 - n |-> n - 1 + i]
    PROVE  /\ s = << >> <=> n = Len(Scripts) + 1
           /\ n \in DOMAIN Scripts =>
                /\ s[1] = n /\ n + 1 \in 1 .. Len(Scripts) + 1
                /\ Tail(s) = [i \in 1 .. Len(Scripts) + 1 - (n + 1) |-> (n + 1) - 1 + i]
<1> DEFINE len == Len(Scripts) + 1 - n
<1>1. Len(Scripts) \in Nat /\ DOMAIN Scripts = 1 .. Len(Scripts) /\ len \in Nat
  BY ScriptsAre
<1>2. s = [i \in 1 .. len |-> n - 1 + i] /\ (len = 0 <=> n = Len(Scripts) + 1)
  BY <1>1
<1>3. n \in DOMAIN Scripts => len \in Nat \ {0} /\ n + 1 \in 1 .. Len(Scripts) + 1 /\ Len(Scripts) + 1 - (n + 1) = len - 1
  <2>1. SUFFICES ASSUME n \in DOMAIN Scripts
                 PROVE  /\ len \in Nat \ {0} /\ n + 1 \in 1 .. Len(Scripts) + 1
                        /\ Len(Scripts) + 1 - (n + 1) = len - 1
    OBVIOUS
  <2> DEFINE all == Len(Scripts)
  <2>2. all \in Nat
    BY <1>1
  <2>3. n \in 1 .. all
    <3>1. DOMAIN Scripts = 1 .. all
      BY <1>1
    <3> QED
      BY <2>1, <3>1
  <2> HIDE DEF all
  <2>4. all + 1 - n \in Nat \ {0} /\ n + 1 \in 1 .. all + 1 /\ all + 1 - (n + 1) = all + 1 - n - 1
    BY ONLY <2>2, <2>3
  <2> QED
    BY <2>4 DEF all
<1>4. n \in Nat
  BY <1>1
<1> HIDE DEF len
<1>5. s \in Seq(Int) /\ Len(s) = len /\ \A i \in 1 .. len : s[i] = n - 1 + i
  <2>1. len \in Nat /\ \A i \in 1 .. len : n - 1 + i \in Int
    BY <1>1, <1>4
  <2>2. s \in [1 .. len -> Int] /\ \A i \in 1 .. len : s[i] = n - 1 + i
    BY <1>2, <2>1
  <2> QED
    BY <2>1, <2>2
<1>6. s = << >> <=> len = 0
  BY <1>5, EmptySeq
<1>7. ASSUME n \in DOMAIN Scripts
      PROVE  /\ s[1] = n
             /\ Tail(s) = [i \in 1 .. len - 1 |-> (n + 1) - 1 + i]
  <2>1. s # << >> /\ 1 \in 1 .. len
    BY <1>3, <1>6, <1>7
  <2>2. Tail(s) \in Seq(Int) /\ Len(Tail(s)) = len - 1 /\ \A i \in 1 .. Len(Tail(s)) : Tail(s)[i] = s[i + 1]
    BY <1>5, <2>1, HeadTailProperties
  <2> DEFINE t == [i \in 1 .. len - 1 |-> (n + 1) - 1 + i]
  <2>3. t \in Seq(Int) /\ Len(t) = len - 1 /\ \A i \in 1 .. len - 1 : t[i] = n + i
    BY <1>1, <1>3, <1>4, <1>7
  <2>4. \A i \in 1 .. len - 1 : Tail(s)[i] = t[i]
    BY <1>1, <1>4, <1>5, <2>2, <2>3
  <2> DEFINE u == Tail(s)
  <2>5. u \in Seq(Int) /\ Len(u) = len - 1 /\ \A i \in 1 .. len - 1 : u[i] = t[i]
    BY <2>2, <2>4
  <2> HIDE DEF t, u
  <2>6. u = t
    BY <2>3, <2>5, SeqEqual
  <2>7. s[1] = n
    BY <1>4, <1>5, <2>1
  <2> QED
    BY <2>6, <2>7 DEF t, u
<1> QED
  BY <1>2, <1>3, <1>6, <1>7

LEMMA FirstStep ==
    ASSUME InstallInv, InstallNext
    PROVE  FirstRun'
<1>0. DriftOK(drift) /\ QueueInv /\ StageInv /\ FirstRun
  BY DEF InstallInv
<1> SUFFICES ASSUME outcome' = "patching" /\ hand' = {} PROVE FirstRun'
  BY DEF FirstRun
<1>1. CASE Fetched
  <2>1. /\ outcome = "fetching" /\ todo' = [i \in DOMAIN Scripts |-> i]
        /\ UNCHANGED <<drift, at, prepared, tree>>
    BY <1>1 DEF Fetched
  <2>2. todo = << >> /\ at = 1 /\ DOMAIN prepared = {}
    BY <1>0, <2>1 DEF QueueInv
  <2>3. tree = [f \in Files |-> Drifted(drift, f)]
    BY <1>0, <2>1 DEF StageInv
  <2>4. ASSUME NEW f, f \in Files PROVE TextFits(drift, f, Text(f)', DoneIn(f, 1, 1))
    <3>1. Text(f)' = Drifted(drift, f)
      BY <2>1, <2>2, <2>3, <2>4 DEF Text
    <3>2. DoneIn(f, 1, 1) = {}
      BY DoneNext
    <3> QED
      BY <1>0, <2>4, <3>1, <3>2, FreshFits
  <2> DEFINE n == 1
  <2>5. n \in 1 .. Len(Scripts) + 1 /\ todo' = [i \in 1 .. Len(Scripts) + 1 - n |-> n - 1 + i]
    <3>1. Len(Scripts) \in Nat /\ DOMAIN Scripts = 1 .. Len(Scripts)
      BY ScriptsAre
    <3> QED
      BY <2>1, <3>1
  <2>6. \A f \in Files : TextFits(drift', f, Text(f)', DoneIn(f, n, at'))
    BY <2>1, <2>2, <2>4
  <2> HIDE DEF n
  <2> QED
    BY <2>5, <2>6 DEF FirstRun
<1>2. ASSUME outcome = "patching", hand = {} PROVE Patch \/ Write => FirstRun'
  <2>1. PICK n \in 1 .. Len(Scripts) + 1 :
          /\ todo = [i \in 1 .. Len(Scripts) + 1 - n |-> n - 1 + i]
          /\ \A f \in Files : TextFits(drift, f, Text(f), DoneIn(f, n, at))
    BY <1>0, <1>2 DEF FirstRun
  <2>2. ASSUME todo # << >>
        PROVE  /\ n \in DOMAIN Scripts /\ todo[1] = n /\ n + 1 \in 1 .. Len(Scripts) + 1
               /\ Tail(todo) = [i \in 1 .. Len(Scripts) + 1 - (n + 1) |-> (n + 1) - 1 + i]
    <3>1. n # Len(Scripts) + 1
      BY <2>1, <2>2, QueueRest
    <3>2. n \in DOMAIN Scripts
      BY <3>1, ScriptsAre
    <3> QED
      BY <2>1, <3>2, QueueRest
  <2>3. CASE Patch
    <3> DEFINE q == <<todo[1], at>>
               e == EditAt(q)
               text == Text(e.file)
               done == DoneIn(e.file, n, at)
    <3>1. /\ todo # << >> /\ Head(todo) = todo[1] /\ todo[1] \in DOMAIN Scripts
          /\ at \in 1 .. Len(Scripts[todo[1]].edits)
          /\ UNCHANGED drift
          /\ q \in Spots /\ q[1] = todo[1] /\ q[2] = at /\ PatchStep(q)
      BY <1>0, <2>3, PatchHere
    <3>2. n \in DOMAIN Scripts /\ todo[1] = n
      BY <2>2, <3>1
    <3>3. /\ Comes(q, done)
          /\ \A f : DoneIn(f, n, at + 1) = IF f = e.file THEN DoneIn(f, n, at) \cup {q} ELSE DoneIn(f, n, at)
      <4>1. q = <<n, at>>
        BY <3>2
      <4>2. at \in 1 .. Len(Scripts[n].edits)
        BY <3>1, <3>2
      <4>3. n \in DOMAIN Scripts
        BY <3>2
      <4> HIDE DEF q
      <4>4. Comes(q, DoneIn(EditAt(q).file, n, at)) /\ DoneThen(q, n, at)
        BY <4>1, <4>2, <4>3, DoneOne
      <4> QED
        BY <4>4 DEF DoneThen
    <3> HIDE DEF q
    <3>4. e.file \in Files /\ TextFits(drift, e.file, text, done)
      BY <2>1, <3>1, EditIn
    <3>5. ~Passed(GuardAt(q), e, text)
      BY <1>0, <3>1, <3>3, <3>4, NothingPassed
    <3>6. Accepted(GuardAt(q), e, text)
      <4>1. outcome' # "failed"
        OBVIOUS
      <4> QED
        BY <1>2, <3>1, <3>5, <4>1 DEF PatchStep
    <3>7. TextFits(drift, e.file, Replaced(text, e), done \cup {q})
      BY <1>0, <3>1, <3>3, <3>4, <3>6, EditMade
    <3>8. /\ at' = at + 1 /\ UNCHANGED <<outcome, todo>>
          /\ \A f \in Files : Text(f)' = IF f = e.file THEN Replaced(Text(f), e) ELSE Text(f)
      BY <1>0, <3>1, <3>5, <3>6, TextMade
    <3>9. ASSUME NEW f, f \in Files PROVE TextFits(drift, f, Text(f)', DoneIn(f, n, at + 1))
      <4>1. CASE f = e.file
        <5>1. Text(f)' = Replaced(text, e) /\ DoneIn(f, n, at + 1) = done \cup {q}
          BY <3>3, <3>4, <3>8, <4>1
        <5> QED
          BY <3>7, <4>1, <5>1
      <4>2. CASE f # e.file
        <5>1. Text(f)' = Text(f) /\ DoneIn(f, n, at + 1) = DoneIn(f, n, at)
          BY <3>3, <3>8, <3>9, <4>2
        <5> QED
          BY <2>1, <3>9, <5>1
      <4> QED
        BY <4>1, <4>2
    <3>10. \A f \in Files : TextFits(drift', f, Text(f)', DoneIn(f, n, at'))
      BY <3>1, <3>8, <3>9
    <3>11. todo' = [i \in 1 .. Len(Scripts) + 1 - n |-> n - 1 + i]
      BY <2>1, <3>8
    <3> QED
      BY <3>10, <3>11 DEF FirstRun
  <2>4. CASE Write
    <3>1. \A f \in Files : Text(f)' = Text(f)
      BY <1>0, <2>4, TextWritten
    <3>2. todo # << >> /\ UNCHANGED drift /\ at \in Nat
      BY <1>0, <2>4 DEF Write, QueueInv
    <3>3. CASE DOMAIN prepared = {}
      <4>1. todo' = Tail(todo) /\ at' = 1
        BY <2>4, <3>3 DEF Write
      <4>2. n \in DOMAIN Scripts /\ todo[1] = n /\ n + 1 \in 1 .. Len(Scripts) + 1
        BY <2>2, <3>2
      <4>3. at > Len(Scripts[n].edits)
        <5>1. Head(todo) = todo[1]
          BY <1>0, <3>2 DEF QueueInv
        <5> QED
          BY <2>4, <4>2, <5>1 DEF Write, Current
      <4>4. \A f \in Files : DoneIn(f, n, at) = DoneIn(f, n + 1, 1)
        BY <3>2, <4>2, <4>3, DoneNext
      <4>5. \A f \in Files : TextFits(drift', f, Text(f)', DoneIn(f, n + 1, at'))
        BY <2>1, <3>1, <3>2, <4>1, <4>4
      <4> DEFINE m == n + 1
      <4>6. m \in 1 .. Len(Scripts) + 1 /\ todo' = [i \in 1 .. Len(Scripts) + 1 - m |-> m - 1 + i]
        BY <2>2, <3>2, <4>1
      <4>7. \A f \in Files : TextFits(drift', f, Text(f)', DoneIn(f, m, at'))
        BY <4>5
      <4> HIDE DEF m
      <4> QED
        BY <4>6, <4>7 DEF FirstRun
    <3>4. CASE DOMAIN prepared # {}
      <4>1. todo' = todo /\ at' = at
        BY <2>4, <3>4 DEF Write
      <4>2. \A f \in Files : TextFits(drift', f, Text(f)', DoneIn(f, n, at'))
        BY <2>1, <3>1, <3>2, <4>1
      <4>3. todo' = [i \in 1 .. Len(Scripts) + 1 - n |-> n - 1 + i]
        BY <2>1, <4>1
      <4> QED
        BY <4>2, <4>3 DEF FirstRun
    <3> QED
      BY <3>3, <3>4
  <2> QED
    BY <2>3, <2>4
<1>3. Patch \/ Write => outcome = "patching" /\ hand = {}
  BY DEF Patch, Write
<1>4. ~Begin /\ ~Mark /\ ~Stop
  BY DEF Begin, Mark, Stop
<1>5. \A d \in DataFiles : ~Fetch(d)
  BY DEF Fetch
<1>6. \A name \in Runnable : ~RunByHand(name)
  BY DEF RunByHand
<1> QED
  BY <1>1, <1>2, <1>3, <1>4, <1>5, <1>6 DEF InstallNext

\* A tree in which every edit has been made.
LEMMA WholeFacts ==
    ASSUME WholeTree, NEW q, q \in Spots, NEW e, e = EditAt(q)
    PROVE  /\ tree[e.file] \in Seq(STRING)
           /\ Swaps(q) => Occurs(tree[e.file], e.old) = 0
           /\ GuardAt(q) \notin {"any", "some"} =>
                /\ StaysWhole(q, e.new) => Has(tree[e.file], e.new)
                /\ StaysWhole(q, e.added) => Has(tree[e.file], e.added)
<1>1. e.file \in Files /\ q \in AllIn(e.file)
  BY EditIn DEF AllIn
<1>2. TextFits(drift, e.file, tree[e.file], AllIn(e.file))
  BY <1>1 DEF WholeTree
<1>3. ~Loose(drift, e.file, e.old)
  BY NotLoose
<1>4. e.old \in TextsOf(e.file) /\ (Swaps(q) => e.old \in Gone(AllIn(e.file)))
  BY <1>1 DEF TextsOf, Gone
<1> QED
  BY <1>1, <1>2, <1>3, <1>4 DEF TextFits, Counted, InOnePiece

\* An edit whose guard lets it pass, at the place that has drifted.
LEMMA DriftIsPassed ==
    ASSUME NEW q, q \in Spots, EditAt(q).file = drift.file, EditAt(q).old = drift.at, Lax(drift, q)
    PROVE  DriftPassed
<1>1. q[1] \in DOMAIN Scripts /\ q[2] \in DOMAIN Scripts[q[1]].edits
  BY SpotPlace
<1>2. EditAt(q) \in Range(Scripts[q[1]].edits) /\ GuardAt(q) = Guard(Scripts[q[1]], EditAt(q))
  BY <1>1 DEF EditAt, GuardAt, Range
<1> QED
  BY <1>1, <1>2 DEF DriftPassed, Lax

\* The markers are written on a tree in which every edit has been made, and on
\* sources that differ at most at an anchor whose guard lets that pass.
LEMMA MarkStep ==
    ASSUME InstallInv, Mark, hand = {}
    PROVE  WholeTree /\ (drift.kind # "none" => DriftPassed)
<1>0. DriftOK(drift) /\ QueueInv /\ FirstRun /\ outcome = "patching" /\ todo = << >>
  BY DEF InstallInv, Mark
<1>1. PICK n \in 1 .. Len(Scripts) + 1 :
        /\ todo = [i \in 1 .. Len(Scripts) + 1 - n |-> n - 1 + i]
        /\ \A f \in Files : TextFits(drift, f, Text(f), DoneIn(f, n, at))
  BY <1>0 DEF FirstRun
<1>2. n = Len(Scripts) + 1
  BY <1>0, <1>1, QueueRest
<1>3. at = 1 /\ DOMAIN prepared = {}
  BY <1>0 DEF QueueInv
<1>4. ASSUME NEW f, f \in Files PROVE TextFits(drift, f, tree[f], AllIn(f))
  <2>1. Text(f) = tree[f] /\ DoneIn(f, n, at) = AllIn(f)
    BY <1>0, <1>2, <1>3, <1>4, TextHere, DoneNext
  <2> QED
    BY <1>1, <1>4, <2>1
<1>5. ASSUME drift.kind # "none" PROVE DriftPassed
  <2>1. drift.file \in Files /\ drift.at \in Range(Sources[drift.file])
    BY <1>0, <1>5 DEF DriftOK
  <2>2. PICK q \in Spots : EditAt(q).file = drift.file /\ EditAt(q).old = drift.at
    BY <2>1, TableAssumption DEF AnchorsAreEdited
  <2>3. q \in AllIn(drift.file)
    BY <2>2 DEF AllIn
  <2>4. Watched(drift, drift.file, AllIn(drift.file))
    BY <1>4, <2>1 DEF TextFits
  <2>5. Lax(drift, q)
    BY <1>5, <2>2, <2>3, <2>4 DEF Watched
  <2> QED
    BY <2>2, <2>5, DriftIsPassed
<1> QED
  BY <1>4, <1>5 DEF WholeTree

\* A script that runs again has its edit that refuses before it.
LEMMA RefusalAhead ==
    ASSUME WholeTree, NEW i, i \in DOMAIN Scripts, StopsAgain(i)
    PROVE  \E q \in Spots :
             /\ q[1] = i
             /\ \/ Repeats(q)
                \/ Exhausts(q) /\ 1 <= q[2] /\ Occurs(tree[EditAt(q).file], EditAt(q).old) = 0
<1>1. PICK q \in Spots : q[1] = i /\ (Exhausts(q) \/ Repeats(q))
  BY DEF StopsAgain
<1>2. CASE Exhausts(q)
  <2>1. Occurs(tree[EditAt(q).file], EditAt(q).old) = 0
    BY <1>2, WholeFacts DEF Exhausts
  <2>2. q[2] \in 1 .. Len(Scripts[i].edits)
    <3>1. q[2] \in DOMAIN Scripts[i].edits
      BY <1>1, SpotPlace
    <3> QED
      BY <3>1, ScriptsAre
  <2> QED
    BY <1>1, <1>2, <2>1, <2>2
<1> QED
  BY <1>1, <1>2

\* An edit before the one that refuses does not bring its anchor back, and that
\* edit refuses.
LEMMA StopsThere ==
    ASSUME InstallInv, WholeTree, Patch, NEW s, s \in Spots, s[1] = todo[1], Refuses(s), StopsAgain(todo[1])
    PROVE  /\ UNCHANGED tree
           /\ \/ todo' = << >>
              \/ todo' = todo /\ Refuses(s)'
<1> DEFINE q == <<todo[1], at>>
           e == EditAt(q)
           text == Text(e.file)
<1>0. DriftOK(drift) /\ QueueInv
  BY DEF InstallInv
<1>1. /\ todo # << >> /\ Head(todo) = todo[1] /\ todo[1] \in DOMAIN Scripts
      /\ at \in 1 .. Len(Scripts[todo[1]].edits)
      /\ q \in Spots /\ q[1] = todo[1] /\ q[2] = at /\ PatchStep(q)
  BY <1>0, PatchHere
<1>2. Scripts[q[1]].whole
  BY <1>1 DEF StopsAgain
<1> HIDE DEF q
<1>3. UNCHANGED tree
  BY <1>1, <1>2 DEF PatchStep
<1>4. Len(Scripts[todo[1]].edits) \in Nat /\ at \in Nat
  BY <1>0, <1>1, ScriptsAre DEF QueueInv
<1>5. /\ e.old \in STRING /\ e.added \in Seq(STRING) /\ e.new \in Seq(STRING)
      /\ \A p : Occurs(e.new, p) = IF p \in Range(e.added) THEN 1
                                   ELSE IF p = e.old /\ ~Swaps(q) THEN 1 ELSE 0
      /\ e.file \in Files /\ text \in Seq(STRING)
  <2>1. e.file \in Files /\ text \in Seq(STRING)
    BY <1>0, <1>1, EditIn, TextHere
  <2> QED
    BY <1>1, <2>1, SpotFacts
<1>6. s = <<s[1], s[2]>> /\ q = <<q[1], q[2]>> /\ s[2] \in Nat
  <2>1. s[2] \in DOMAIN Scripts[todo[1]].edits /\ s = <<s[1], s[2]>> /\ q = <<q[1], q[2]>>
    BY <1>1, SpotPlace
  <2> QED
    BY <1>1, <2>1, ScriptsAre
<1>7. CASE Repeats(s) /\ at = 1
  <2>1. s = q
    BY <1>1, <1>6, <1>7 DEF Repeats
  <2>2. GuardAt(q) = "strict" /\ StaysWhole(q, e.new)
    BY <1>7, <2>1 DEF Repeats
  <2>3. Has(tree[e.file], e.new)
    BY <1>1, <2>2, WholeFacts
  <2>4. text = tree[e.file]
    BY <1>0, <1>5, <1>7, TextHere DEF QueueInv
  <2>5. ~Passed(GuardAt(q), e, text) /\ ~Accepted(GuardAt(q), e, text)
    BY <2>2, <2>3, <2>4 DEF Passed, Accepted
  <2> QED
    BY <1>1, <1>3, <2>5 DEF PatchStep
<1>8. CASE Exhausts(s) /\ at <= s[2] /\ Occurs(Text(EditAt(s).file), EditAt(s).old) = 0
  <2>1. CASE s = q
    <3>1. ~Passed(GuardAt(q), e, text) /\ ~Accepted(GuardAt(q), e, text)
      BY <1>8, <2>1 DEF Passed, Accepted, Exhausts
    <3> QED
      BY <1>1, <1>3, <3>1 DEF PatchStep
  <2>2. CASE s # q
    <3>1. at + 1 <= s[2]
      BY <1>1, <1>4, <1>6, <1>8, <2>2
    <3>2. CASE Passed(GuardAt(q), e, text)
      <4>1. at' = at + 1 /\ UNCHANGED <<todo, prepared, tree>>
        BY <1>1, <3>2 DEF PatchStep
      <4>2. Text(EditAt(s).file)' = Text(EditAt(s).file)
        BY <4>1 DEF Text
      <4> QED
        BY <1>3, <1>8, <3>1, <4>1, <4>2 DEF Refuses
    <3>3. CASE ~Passed(GuardAt(q), e, text) /\ ~Accepted(GuardAt(q), e, text)
      BY <1>1, <1>3, <3>3 DEF PatchStep
    <3>4. CASE ~Passed(GuardAt(q), e, text) /\ Accepted(GuardAt(q), e, text)
      <4>1. /\ at' = at + 1 /\ UNCHANGED todo
            /\ \A f \in Files : Text(f)' = IF f = e.file THEN Replaced(Text(f), e) ELSE Text(f)
        BY <1>0, <1>1, <3>4, TextMade
      <4> DEFINE g == EditAt(s).file
                 o == EditAt(s).old
      <4>2. g \in Files
        BY EditIn
      <4>3. Occurs(Text(g)', o) = 0
        <5>1. CASE g # e.file
          <6>1. Text(g)' = Text(g)
            BY <4>1, <4>2, <5>1
          <6> QED
            BY <1>8, <6>1
        <5>2. CASE g = e.file
          <6>1. Text(g)' = Replaced(text, e) /\ Occurs(text, o) = 0
            BY <1>8, <4>1, <4>2, <5>2
          <6>2. Occurs(Replaced(text, e), o) =
                  (IF o = e.old THEN 0 ELSE Occurs(text, o)) + Occurs(text, e.old) * Occurs(e.new, o)
            <7> DEFINE t == text
                       ee == e
            <7>1. t \in Seq(STRING) /\ ee.new \in Seq(STRING)
              BY <1>5
            <7> HIDE DEF t, ee
            <7>2. \A p : Occurs(Replaced(t, ee), p) =
                    (IF p = ee.old THEN 0 ELSE Occurs(t, p)) + Occurs(t, ee.old) * Occurs(ee.new, p)
              BY <7>1, OccursReplaced
            <7> QED
              BY <7>2, Zenon DEF t, ee
          <6>3. o \notin Range(e.added)
            BY <1>1, <1>8, <5>2 DEF Exhausts, SameFile
          <6>4. Occurs(text, e.old) \in Nat
            BY <1>5, OccursNever
          <6>5. CASE o = e.old
            <7>1. Occurs(e.new, o) \in Nat /\ Occurs(text, e.old) = 0
              BY <1>5, <6>1, <6>5
            <7> QED
              BY <6>1, <6>2, <6>5, <7>1
          <6>6. CASE o # e.old
            <7>1. Occurs(e.new, o) = 0
              BY <1>5, <6>3, <6>6
            <7> QED
              BY <6>1, <6>2, <6>4, <6>6, <7>1
          <6> QED
            BY <6>5, <6>6
        <5> QED
          BY <5>1, <5>2
      <4> QED
        BY <1>3, <1>8, <3>1, <4>1, <4>3 DEF Refuses
    <3> QED
      BY <3>2, <3>3, <3>4
  <2> QED
    BY <2>1, <2>2
<1> QED
  BY <1>7, <1>8 DEF Refuses

\* The script that runs either has its refusal before it or passes over its edits.
LEMMA HandScript ==
    ASSUME InstallInv, outcome = "patching", hand # {}, "stonefist" \notin hand, todo # << >>
    PROVE  /\ WholeTree /\ todo[1] \in DOMAIN Scripts /\ Head(todo) = todo[1]
           /\ StopsAgain(todo[1]) \/ KeepsAgain(todo[1])
<1>0. QueueInv /\ StageInv /\ AgainRun
  BY DEF InstallInv
<1>1. marked
  BY <1>0 DEF StageInv
<1>2. WholeTree
  BY <1>1 DEF InstallInv
<1>3. todo \in Seq(DOMAIN Scripts)
  BY <1>0 DEF QueueInv
<1>4. todo[1] \in DOMAIN Scripts /\ Head(todo) = todo[1]
  BY <1>3, EmptySeq
<1>5. /\ Scripts[todo[1]].name \in Runnable \ {"stonefist"}
      /\ \A i, j \in DOMAIN todo : i < j => todo[i] < todo[j]
      /\ \A i \in DOMAIN Scripts :
           Scripts[i].name = Scripts[todo[1]].name =>
             i \in Range(todo) \/ (i < todo[1] /\ ~StopsAgain(i))
  BY <1>0 DEF AgainRun
<1>6. \/ StopsAgain(todo[1]) \/ KeepsAgain(todo[1])
      \/ \E h \in 1..(todo[1] - 1) : Scripts[h].name = Scripts[todo[1]].name /\ StopsAgain(h)
  BY <1>4, <1>5, TableAssumption DEF RunsAgain
<1>7. ASSUME NEW h \in 1..(todo[1] - 1), Scripts[h].name = Scripts[todo[1]].name, StopsAgain(h)
      PROVE  FALSE
  <2>1. h \in DOMAIN Scripts /\ h < todo[1] /\ todo[1] \in Nat
    BY <1>4, ScriptsAre
  <2>2. h \in Range(todo)
    BY <1>5, <1>7, <2>1
  <2>3. PICK m \in DOMAIN todo : todo[m] = h
    BY <2>2 DEF Range
  <2>4. m \in Nat /\ 1 <= m /\ 1 \in DOMAIN todo
    BY <1>3
  <2> QED
    BY <1>5, <2>1, <2>3, <2>4
<1> QED
  BY <1>2, <1>4, <1>6, <1>7

LEMMA HandPatch ==
    ASSUME InstallInv, Patch, hand # {}, "stonefist" \notin hand
    PROVE  UNCHANGED tree /\ AgainRun'
<1>0. QueueInv /\ AgainRun
  BY DEF InstallInv
<1>1. outcome = "patching" /\ todo # << >> /\ UNCHANGED hand
  BY DEF Patch
<1>2. WholeTree /\ todo[1] \in DOMAIN Scripts /\ (StopsAgain(todo[1]) \/ KeepsAgain(todo[1]))
  BY <1>1, HandScript
<1>3. CASE StopsAgain(todo[1])
  <2>1. PICK s \in Spots : s[1] = todo[1] /\ Refuses(s)
    BY <1>0, <1>1, <1>3 DEF AgainRun
  <2>2. UNCHANGED tree /\ (todo' = << >> \/ (todo' = todo /\ Refuses(s)'))
    BY <1>2, <1>3, <2>1, StopsThere
  <2>3. CASE todo' = << >>
    BY <2>2, <2>3 DEF AgainRun
  <2>4. CASE todo' = todo /\ Refuses(s)'
    <3>1. StopsAgain(todo'[1]) => \E q \in Spots : q[1] = todo'[1] /\ Refuses(q)'
      BY <2>1, <2>4
    <3> QED
      BY <1>0, <1>1, <2>2, <2>4, <3>1 DEF AgainRun
  <2> QED
    BY <2>2, <2>3, <2>4
<1>4. CASE KeepsAgain(todo[1]) /\ ~StopsAgain(todo[1])
  <2> DEFINE q == <<todo[1], at>>
             e == EditAt(q)
             text == Text(e.file)
  <2>1. Head(todo) = todo[1] /\ q \in Spots /\ q[1] = todo[1] /\ PatchStep(q)
    BY <1>0, PatchHere
  <2> HIDE DEF q
  <2>2. ~Scripts[q[1]].whole /\ PassesAgain(q)
    BY <1>4, <2>1 DEF KeepsAgain
  <2>3. DOMAIN prepared = {}
    BY <1>0, <1>1, <2>1, <2>2 DEF QueueInv, Current
  <2>4. e.file \in Files /\ text = tree[e.file] /\ tree \in [Files -> Seq(STRING)]
    BY <1>0, <2>1, <2>3, EditIn, TextHere DEF QueueInv
  <2>5. CASE Passed(GuardAt(q), e, text)
    <3>1. todo' = todo /\ tree' = tree
      BY <2>1, <2>5 DEF PatchStep
    <3> QED
      BY <1>0, <1>1, <1>4, <3>1 DEF AgainRun
  <2>6. CASE ~Passed(GuardAt(q), e, text)
    <3>1. GuardAt(q) = "any"
      <4>1. ~ (GuardAt(q) \in {"lenient", "block"} /\ StaysWhole(q, e.new))
        BY <1>2, <2>1, <2>4, <2>6, WholeFacts DEF Passed
      <4>2. ~ (GuardAt(q) = "block" /\ StaysWhole(q, e.added))
        BY <1>2, <2>1, <2>4, <2>6, WholeFacts DEF Passed
      <4> QED
        BY <2>2, <4>1, <4>2 DEF PassesAgain
    <3>2. Accepted(GuardAt(q), e, text)
      BY <3>1 DEF Accepted
    <3>3. todo' = todo /\ tree' = [tree EXCEPT ![e.file] = Replaced(@, e)]
      BY <2>1, <2>2, <2>6, <3>2 DEF PatchStep
    <3>4. Replaced(text, e) = text
      <4>1. Swaps(q) /\ e.new \in Seq(STRING)
        BY <2>1, <3>1, SpotFacts
      <4>2. Occurs(text, e.old) = 0 /\ text \in Seq(STRING)
        BY <1>2, <2>1, <2>4, <4>1, WholeFacts
      <4>3. e.old \notin Range(text)
        BY <4>2, OccursNever
      <4> QED
        BY <4>1, <4>2, <4>3, ReplacedNothing
    <3>5. tree' = tree
      BY <2>4, <3>3, <3>4
    <3> QED
      BY <1>0, <1>1, <1>4, <3>3, <3>5 DEF AgainRun
  <2> QED
    BY <2>5, <2>6
<1> QED
  BY <1>2, <1>3, <1>4

\* The refusal of a script that begins.
LEMMA RefusalBegins ==
    ASSUME QueueInv, WholeTree, at' = 1, tree' = tree, prepared' = prepared, DOMAIN prepared = {},
           NEW i, i \in DOMAIN Scripts, StopsAgain(i)
    PROVE  \E q \in Spots : q[1] = i /\ Refuses(q)'
<1>1. PICK q \in Spots :
        /\ q[1] = i
        /\ \/ Repeats(q)
           \/ Exhausts(q) /\ 1 <= q[2] /\ Occurs(tree[EditAt(q).file], EditAt(q).old) = 0
  BY RefusalAhead
<1>2. Text(EditAt(q).file)' = tree[EditAt(q).file]
  BY DEF Text
<1> QED
  BY <1>1, <1>2 DEF Refuses

LEMMA HandWrite ==
    ASSUME InstallInv, Write, hand # {}, "stonefist" \notin hand
    PROVE  UNCHANGED tree /\ AgainRun'
<1>0. QueueInv /\ AgainRun
  BY DEF InstallInv
<1>1. outcome = "patching" /\ todo # << >> /\ UNCHANGED hand /\ todo \in Seq(DOMAIN Scripts)
  BY <1>0 DEF Write, QueueInv
<1>2. /\ WholeTree /\ todo[1] \in DOMAIN Scripts /\ (StopsAgain(todo[1]) \/ KeepsAgain(todo[1]))
      /\ Current = Scripts[todo[1]]
  BY <1>1, HandScript DEF Current
<1>3. at > Len(Scripts[todo[1]].edits) /\ at \in Nat /\ Len(Scripts[todo[1]].edits) \in Nat
  BY <1>0, <1>2, ScriptsAre DEF Write, QueueInv
<1>4. ~StopsAgain(todo[1])
  <2> SUFFICES ASSUME StopsAgain(todo[1]) PROVE FALSE
    OBVIOUS
  <2>1. PICK s \in Spots : s[1] = todo[1] /\ Refuses(s)
    BY <1>0, <1>1 DEF AgainRun
  <2>2. s[2] \in 1 .. Len(Scripts[todo[1]].edits)
    <3>1. s[2] \in DOMAIN Scripts[todo[1]].edits
      BY <2>1, SpotPlace
    <3> QED
      BY <1>2, <3>1, ScriptsAre
  <2>3. at <= s[2]
    BY <2>1, <2>2 DEF Refuses
  <2> QED
    BY <1>3, <2>2, <2>3
<1>5. DOMAIN prepared = {}
  BY <1>0, <1>1, <1>2, <1>4 DEF QueueInv, KeepsAgain
<1>6. todo' = Tail(todo) /\ at' = 1 /\ tree' = tree /\ prepared' = prepared
  BY <1>5 DEF Write
<1>7. AgainRun'
  <2> SUFFICES ASSUME todo' # << >>
               PROVE  /\ Scripts[todo'[1]].name \in Runnable \ {"stonefist"}
                      /\ \A i \in DOMAIN todo' : Scripts[todo'[i]].name = Scripts[todo'[1]].name
                      /\ \A i, j \in DOMAIN todo' : i < j => todo'[i] < todo'[j]
                      /\ \A i \in DOMAIN Scripts :
                           Scripts[i].name = Scripts[todo'[1]].name =>
                             i \in Range(todo') \/ (i < todo'[1] /\ ~StopsAgain(i))
                      /\ StopsAgain(todo'[1]) => \E q \in Spots : q[1] = todo'[1] /\ Refuses(q)'
    BY DEF AgainRun
  <2> DEFINE rest == todo'
  <2>1. /\ rest \in Seq(DOMAIN Scripts) /\ Len(rest) = Len(todo) - 1
        /\ \A i \in 1 .. Len(rest) : rest[i] = todo[i + 1]
    BY <1>1, <1>6, HeadTailProperties
  <2>2. Len(todo) \in Nat /\ Len(rest) \in Nat \ {0} /\ DOMAIN rest = 1 .. Len(rest) /\ DOMAIN todo = 1 .. Len(todo)
    BY <1>1, <2>1, EmptySeq
  <2>3. /\ Scripts[todo[1]].name \in Runnable \ {"stonefist"}
        /\ \A i \in DOMAIN todo : Scripts[todo[i]].name = Scripts[todo[1]].name
        /\ \A i, j \in DOMAIN todo : i < j => todo[i] < todo[j]
        /\ \A i \in DOMAIN Scripts :
             Scripts[i].name = Scripts[todo[1]].name =>
               i \in Range(todo) \/ (i < todo[1] /\ ~StopsAgain(i))
    BY <1>0, <1>1 DEF AgainRun
  <2> HIDE DEF rest
  <2>4. \A i \in DOMAIN rest : i + 1 \in DOMAIN todo /\ rest[i] = todo[i + 1]
    BY <2>1, <2>2
  <2>5. 1 \in DOMAIN rest /\ 2 \in DOMAIN todo /\ 1 \in DOMAIN todo /\ rest[1] = todo[2] /\ todo[1] < todo[2]
    BY <2>1, <2>2, <2>3
  <2>6. Scripts[rest[1]].name = Scripts[todo[1]].name
    BY <2>3, <2>5
  <2>7. \A i \in DOMAIN rest : Scripts[rest[i]].name = Scripts[rest[1]].name
    BY <2>3, <2>4, <2>6
  <2>8. \A i, j \in DOMAIN rest : i < j => rest[i] < rest[j]
    BY <2>2, <2>3, <2>4
  <2>9. ASSUME NEW i \in DOMAIN Scripts, Scripts[i].name = Scripts[rest[1]].name
        PROVE  i \in Range(rest) \/ (i < rest[1] /\ ~StopsAgain(i))
    <3>1. i \in Range(todo) \/ (i < todo[1] /\ ~StopsAgain(i))
      BY <2>3, <2>6, <2>9
    <3>2. todo[1] \in Nat /\ todo[2] \in Nat /\ i \in Nat
      BY <1>1, <2>5, ScriptsAre
    <3>3. CASE i \in Range(todo)
      <4>1. PICK m \in DOMAIN todo : todo[m] = i
        BY <3>3 DEF Range
      <4>2. CASE m = 1
        BY <1>4, <2>5, <4>1, <4>2
      <4>3. CASE m # 1
        <5>1. m - 1 \in DOMAIN rest /\ rest[m - 1] = i
          BY <2>1, <2>2, <4>1, <4>3
        <5> QED
          BY <5>1 DEF Range
      <4> QED
        BY <4>2, <4>3
    <3>4. CASE i < todo[1] /\ ~StopsAgain(i)
      BY <2>5, <3>2, <3>4
    <3> QED
      BY <3>1, <3>3, <3>4
  <2>10. ASSUME StopsAgain(rest[1]) PROVE \E q \in Spots : q[1] = rest[1] /\ Refuses(q)'
    <3>1. rest[1] \in DOMAIN Scripts
      BY <2>1, <2>2
    <3> QED
      BY <1>0, <1>2, <1>5, <1>6, <2>10, <3>1, RefusalBegins
  <2> QED
    BY <2>3, <2>6, <2>7, <2>8, <2>9, <2>10 DEF rest
<1> QED
  BY <1>6, <1>7

LEMMA HandBegins ==
    ASSUME InstallInv, NEW name, name \in Runnable, RunByHand(name)
    PROVE  AgainRun'
<1>0. QueueInv /\ StageInv
  BY DEF InstallInv
<1> SUFFICES ASSUME "stonefist" \notin hand', todo' # << >>
             PROVE  AgainRun'
  BY DEF AgainRun
<1>1. outcome = "installed" /\ hand' = hand \cup {name} /\ at' = at /\ tree' = tree /\ prepared' = prepared
  BY DEF RunByHand
<1>2. at = 1 /\ DOMAIN prepared = {}
  BY <1>0, <1>1 DEF QueueInv
<1>3. WholeTree /\ name \in Runnable \ {"stonefist"}
  <2>1. marked
    BY <1>0, <1>1 DEF StageInv
  <2> QED
    BY <1>1, <2>1 DEF InstallInv
<1> DEFINE queue == todo'
<1>4. /\ queue \in Seq(DOMAIN Scripts) /\ queue # << >>
      /\ \A i \in DOMAIN queue : Scripts[queue[i]].name = name
      /\ \A i, j \in DOMAIN queue : i < j => queue[i] < queue[j]
      /\ \A n \in DOMAIN Scripts : Scripts[n].name = name => n \in Range(queue)
  BY HandRunOrder
<1> HIDE DEF queue
<1>5. 1 \in DOMAIN queue /\ queue[1] \in DOMAIN Scripts
  BY <1>4, EmptySeq
<1>6. Scripts[queue[1]].name = name
  BY <1>4, <1>5
<1>7. StopsAgain(queue[1]) => \E q \in Spots : q[1] = queue[1] /\ Refuses(q)'
  BY <1>0, <1>1, <1>2, <1>3, <1>5, RefusalBegins
<1>8. /\ Scripts[queue[1]].name \in Runnable \ {"stonefist"}
      /\ \A i \in DOMAIN queue : Scripts[queue[i]].name = Scripts[queue[1]].name
      /\ \A i, j \in DOMAIN queue : i < j => queue[i] < queue[j]
      /\ \A i \in DOMAIN Scripts :
           Scripts[i].name = Scripts[queue[1]].name =>
             i \in Range(queue) \/ (i < queue[1] /\ ~StopsAgain(i))
  BY <1>3, <1>4, <1>6
<1> QED
  BY <1>7, <1>8 DEF AgainRun, queue

\* A script run again leaves the tree as it is, and stops before it would not.
LEMMA AgainStep ==
    ASSUME InstallInv, InstallNext
    PROVE  HandRunKeeps /\ AgainRun'
<1>0. QueueInv /\ StageInv /\ AgainRun
  BY DEF InstallInv
<1>1. CASE Patch
  <2>1. UNCHANGED hand
    BY <1>1 DEF Patch
  <2>2. hand # {} /\ "stonefist" \notin hand => UNCHANGED tree /\ AgainRun'
    BY <1>1, HandPatch
  <2> QED
    BY <2>1, <2>2 DEF HandRunKeeps, AgainRun
<1>2. CASE Write
  <2>1. UNCHANGED hand
    BY <1>2 DEF Write
  <2>2. hand # {} /\ "stonefist" \notin hand => UNCHANGED tree /\ AgainRun'
    BY <1>2, HandWrite
  <2> QED
    BY <2>1, <2>2 DEF HandRunKeeps, AgainRun
<1>3. CASE Begin
  BY <1>3 DEF Begin, HandRunKeeps, AgainRun
<1>4. CASE Stop
  BY <1>4 DEF Stop, HandRunKeeps, AgainRun
<1>5. CASE Mark
  BY <1>5 DEF Mark, HandRunKeeps, AgainRun
<1>6. outcome = "fetching" => hand = {}
  BY <1>0 DEF StageInv
<1>7. CASE Fetched
  BY <1>6, <1>7 DEF Fetched, HandRunKeeps, AgainRun
<1>8. ASSUME NEW d \in DataFiles, Fetch(d) PROVE HandRunKeeps /\ AgainRun'
  BY <1>6, <1>8 DEF Fetch, HandRunKeeps, AgainRun
<1>9. ASSUME NEW name \in Runnable, RunByHand(name) PROVE HandRunKeeps /\ AgainRun'
  <2>1. AgainRun'
    BY <1>9, HandBegins
  <2>2. UNCHANGED tree
    BY <1>9 DEF RunByHand
  <2> QED
    BY <2>1, <2>2 DEF HandRunKeeps
<1> QED
  BY <1>1, <1>2, <1>3, <1>4, <1>5, <1>7, <1>8, <1>9 DEF InstallNext

LEMMA MarkedStep ==
    ASSUME InstallInv, InstallNext, marked'
    PROVE  (drift.kind # "none" => DriftPassed)' /\ ("stonefist" \notin hand' => WholeTree')
<1>0. StageInv /\ (marked => /\ drift.kind # "none" => DriftPassed
                             /\ "stonefist" \notin hand => WholeTree)
  BY DEF InstallInv
<1>1. drift' = drift
  BY DEF InstallNext, Begin, Fetched, Patch, Write, Mark, Stop, Fetch, RunByHand
<1>2. DriftPassed' <=> DriftPassed
  BY <1>1 DEF DriftPassed
<1>3. tree' = tree => (WholeTree' <=> WholeTree)
  BY <1>1 DEF WholeTree
<1>4. CASE Mark /\ hand = {}
  <2>1. WholeTree /\ (drift.kind # "none" => DriftPassed)
    BY <1>4, MarkStep
  <2>2. tree' = tree
    BY <1>4 DEF Mark
  <2> QED
    BY <1>1, <1>2, <1>3, <2>1, <2>2
<1>5. CASE ~ (Mark /\ hand = {})
  <2>1. marked
    <3>1. Mark => marked
      BY <1>0, <1>5 DEF StageInv, Mark
    <3>2. ~Mark => marked' = marked
      BY DEF InstallNext, Begin, Fetched, Patch, Write, Stop, Fetch, RunByHand
    <3> QED
      BY <3>1, <3>2
  <2>2. outcome = "installed" \/ (outcome = "patching" /\ hand # {})
    BY <1>0, <2>1 DEF StageInv
  <2>3. hand \subseteq hand'
    BY DEF InstallNext, Begin, Fetched, Patch, Write, Mark, Stop, Fetch, RunByHand
  <2>4. "stonefist" \notin hand => tree' = tree
    <3>1. CASE outcome = "installed"
      BY <3>1 DEF InstallNext, Begin, Fetched, Patch, Write, Mark, Stop, Fetch, RunByHand
    <3>2. CASE hand # {}
      BY <3>2, AgainStep DEF HandRunKeeps
    <3> QED
      BY <2>2, <3>1, <3>2
  <2> QED
    BY <1>0, <1>1, <1>2, <1>3, <2>1, <2>3, <2>4
<1> QED
  BY <1>4, <1>5

LEMMA InstallStep ==
    ASSUME InstallInv, [InstallNext]_installVars
    PROVE  InstallInv' /\ HandRunKeeps
<1>1. CASE InstallNext
  <2>1. DriftOK(drift')
    <3>1. drift' = drift
      BY <1>1 DEF InstallNext, Begin, Fetched, Patch, Write, Mark, Stop, Fetch, RunByHand
    <3> QED
      BY <3>1 DEF InstallInv
  <2>2. QueueInv' /\ StageInv' /\ FirstRun' /\ AgainRun' /\ HandRunKeeps
    BY <1>1, QueueStep, StageStep, FirstStep, AgainStep
  <2>3. marked' => /\ (drift.kind # "none" => DriftPassed)'
                   /\ "stonefist" \notin hand' => WholeTree'
    BY <1>1, MarkedStep
  <2> QED
    BY <2>1, <2>2, <2>3 DEF InstallInv
<1>2. CASE UNCHANGED installVars
  <2>1. QueueInv' <=> QueueInv
    BY <1>2 DEF installVars, QueueInv, Current
  <2>2. StageInv' <=> StageInv
    BY <1>2 DEF installVars, StageInv
  <2>3. \A f : Text(f)' = Text(f)
    BY <1>2 DEF installVars, Text
  <2>4. FirstRun' <=> FirstRun
    BY <1>2, <2>3 DEF installVars, FirstRun
  <2>5. \A q : Refuses(q)' <=> Refuses(q)
    BY <1>2, <2>3 DEF installVars, Refuses
  <2>6. AgainRun' <=> AgainRun
    BY <1>2, <2>5 DEF installVars, AgainRun
  <2>7. DriftPassed' <=> DriftPassed
    BY <1>2 DEF installVars, DriftPassed
  <2>8. WholeTree' <=> WholeTree
    BY <1>2 DEF installVars, WholeTree
  <2>9. UNCHANGED <<drift, marked, hand, tree>>
    BY <1>2 DEF installVars
  <2> QED
    BY <2>1, <2>2, <2>4, <2>6, <2>7, <2>8, <2>9 DEF InstallInv, HandRunKeeps
<1> QED
  BY <1>1, <1>2

\* What the markers tell a worker.
LEMMA InstallShows ==
    ASSUME InstallInv
    PROVE  InstallTypeOK /\ MarkedIsWhole
<1>0. DriftOK(drift) /\ QueueInv /\ StageInv
  BY DEF InstallInv
<1>1. InstallTypeOK
  <2>1. Range(todo) \subseteq DOMAIN Scripts
    BY <1>0 DEF QueueInv, Range
  <2> QED
    BY <1>0, <2>1 DEF QueueInv, StageInv, InstallTypeOK
<1>2. ASSUME marked, "stonefist" \notin hand, NEW f \in Files, NEW p \in Added(f)
      PROVE  \/ Occurs(tree[f], p) = IF p \in Consumed(f) THEN 0 ELSE 1
             \/ DriftPassed /\ f = drift.file
  <2>1. TextFits(drift, f, tree[f], AllIn(f))
    BY <1>2 DEF InstallInv, WholeTree
  <2>2. PICK e \in Edits : e.file = f /\ p \in Range(e.added)
    BY DEF Added, Made
  <2>3. PICK q \in Spots : EditAt(q) = e
    BY EditIn
  <2>4. p \in There(AllIn(f)) /\ p \in TextsOf(f)
    BY <2>2, <2>3 DEF There, AllIn, TextsOf
  <2>5. Consumed(f) = Gone(AllIn(f))
    <3>1. ASSUME NEW o, o \in Consumed(f) PROVE o \in Gone(AllIn(f))
      <4>1. PICK d \in Edits : d.file = f /\ d.new = d.added /\ o = d.old
        BY <3>1 DEF Consumed, Made
      <4>2. PICK r \in Spots : EditAt(r) = d
        BY EditIn
      <4> QED
        BY <4>1, <4>2 DEF Gone, AllIn, Swaps
    <3>2. ASSUME NEW o, o \in Gone(AllIn(f)) PROVE o \in Consumed(f)
      <4>1. PICK r \in Spots : EditAt(r).file = f /\ Swaps(r) /\ o = EditAt(r).old
        BY <3>2 DEF Gone, AllIn
      <4>2. EditAt(r) \in Edits
        BY EditIn
      <4> QED
        BY <4>1, <4>2 DEF Consumed, Made, Swaps
    <3> QED
      BY <3>1, <3>2
  <2>6. CASE Loose(drift, f, p)
    <3>1. PICK r \in Spots : EditAt(r).file = f /\ EditAt(r).old = drift.at /\ Lax(drift, r)
      BY <2>6 DEF Loose
    <3>2. f = drift.file
      BY <2>6 DEF Loose
    <3> QED
      BY <3>1, <3>2, DriftIsPassed
  <2>7. CASE ~Loose(drift, f, p)
    BY <2>1, <2>4, <2>5, <2>7 DEF TextFits, Counted
  <2> QED
    BY <2>6, <2>7
<1>3. marked => /\ \A d \in DataFiles : fetch[d].got = "ok"
                /\ drift.kind # "none" => DriftPassed
  BY <1>0 DEF StageInv, InstallInv
<1> QED
  BY <1>1, <1>2, <1>3 DEF MarkedIsWhole

\* InstallSound (install_pob_engine.py): the markers a worker looks for are
\* written when every data file had its digest, on sources in which every guarded
\* anchor was there once (dropped lines at least once), and every text the scripts add is there once; it stays
\* so whatever scripts are run again by hand (stonefist apart), for any data
\* files, requests, drifts and number of hand runs.
THEOREM InstallIsSound == AloneSpec => []InstallSound
<1> DEFINE Inv == part = "install" => InstallInv
<1>1. AloneInit => Inv
  BY InstallStarts DEF AloneInit
<1>2. Inv /\ [AloneNext]_<<part, vars, purchaseVars, pageVars, serverVars, installVars, deployVars>> => Inv'
  <2> SUFFICES ASSUME Inv, part' = "install",
                      [AloneNext]_<<part, vars, purchaseVars, pageVars, serverVars, installVars, deployVars>>
               PROVE  InstallInv'
    OBVIOUS
  <2>1. part = "install" /\ [InstallNext]_installVars
    BY DEF AloneNext
  <2> QED
    BY <2>1, InstallStep
<1>3. Inv => InstallSound
  BY InstallShows DEF InstallSound
<1> QED
  BY <1>1, <1>2, <1>3, PTL DEF AloneSpec

\* InstalledKept (the command lines of the patch scripts): a script that is run
\* again on an installed tree refuses before it has written, or passes over what
\* is there, so no step of it changes a file.
THEOREM InstalledIsKept == AloneSpec => InstalledKept
<1> DEFINE Inv == part = "install" => InstallInv
<1>1. AloneInit => Inv
  BY InstallStarts DEF AloneInit
<1>2. Inv /\ [AloneNext]_<<part, vars, purchaseVars, pageVars, serverVars, installVars, deployVars>> =>
        Inv' /\ [part = "install" => HandRunKeeps]_installVars
  <2> SUFFICES ASSUME Inv,
                      [AloneNext]_<<part, vars, purchaseVars, pageVars, serverVars, installVars, deployVars>>
               PROVE  Inv' /\ (part = "install" => HandRunKeeps)
    OBVIOUS
  <2>1. part' = part /\ (part = "install" => [InstallNext]_installVars)
    BY DEF AloneNext
  <2> QED
    BY <2>1, InstallStep
<1> QED
  BY <1>1, <1>2, PTL DEF AloneSpec, InstalledKept

===============================================================================

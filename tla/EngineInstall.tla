----------------------------- MODULE EngineInstall -----------------------------
(* The installation of the pinned calculation engine (install_pob_engine.py):  *)
(* fetch, overlay, fourteen patch scripts in one order, and the marker files   *)
(* that the worker reads before every calculation.                             *)
(* PatchScripts names the scripts and what they edit.                          *)
EXTENDS PatchScripts, Lists

CONSTANTS
    DataFiles,      \* the overlaid data files, each with its digest
    MaxAttempts,    \* requests per data file
    DriftFiles,     \* bound: the files that may differ from the reviewed ones
    MaxHand         \* bound: scripts run again by hand

VARIABLES
    drift,      \* how the sources differ from the reviewed ones: [kind, file, at]
    outcome,    \* "idle", "fetching", "patching", "failed", "installed"
    exists,     \* the destination directory exists
    fetch,      \* each data file: [left: requests left, got: "none", "ok" or "bad"]
    todo,       \* scripts still to run (places in Scripts), the first one running
    at,         \* its next edit
    prepared,   \* files it will write once all its edits have been checked
    tree,       \* the text of every file: in the archive, then in the destination
    marked,     \* the marker files are written
    hand        \* scripts run by hand on the installed tree

installVars == <<drift, outcome, exists, fetch, todo, at, prepared, tree, marked, hand>>

-------------------------------------------------------------------------------
(* Edits *)

Guard(script, edit) == IF edit.guard = "script" THEN script.guard ELSE edit.guard

PlacesOf(text, part) ==
    {i \in 1..(Len(text) - Len(part) + 1) : SubSeq(text, i, i + Len(part) - 1) = part}
Has(text, part) == part # << >> /\ PlacesOf(text, part) # {}
Occurs(text, place) == Cardinality(PlacesOf(text, <<place>>))

\* Every occurrence is replaced (str.replace).
Replaced(text, e) ==
    FlattenSeq([i \in DOMAIN text |-> IF text[i] = e.old THEN e.new ELSE <<text[i]>>])

\* Mutant: a later entry that separates an earlier one from its anchor hides it.
PassedWithAnchor(guard, e, text) == guard \in {"lenient", "block"} /\ Has(text, e.new)

Passed(guard, e, text) ==
    \/ guard \in {"lenient", "block"} /\ Has(text, e.new)
    \/ guard = "block" /\ Has(text, e.added)

\* Mutant: an anchor that occurs twice is accepted.
AcceptedOften(guard, e, text) ==
    guard = "any" \/ (Occurs(text, e.old) >= 1 /\ (guard = "strict" => ~Has(text, e.new)))

Accepted(guard, e, text) ==
    \/ guard = "any"
    \/ guard = "some" /\ Occurs(text, e.old) >= 1
    \/ /\ guard \notin {"any", "some"} /\ Occurs(text, e.old) = 1
       /\ guard = "strict" => ~Has(text, e.new)

Files == DOMAIN Sources
Made(file) == {e \in Edits : e.file = file}
Added(file) == UNION {Range(e.added) : e \in Made(file)}
\* Texts that a later edit takes out again.
Consumed(file) == {e.old : e \in {d \in Made(file) : d.new = d.added}}

\* An upstream version in which one anchor is gone or repeated.
Drifted(d, file) ==
    IF d.file # file THEN Sources[file]
    ELSE IF d.kind = "double" THEN Append(Sources[file], d.at)
    ELSE SelectSeq(Sources[file], LAMBDA place : place # d.at)

-------------------------------------------------------------------------------
(* What the table of edits is like. The scripts are what they are: TLC         *)
(* evaluates these facts, and the proofs take no other from the table.         *)

Spots == UNION {{i} \X DOMAIN Scripts[i].edits : i \in DOMAIN Scripts}
EditAt(q) == Scripts[q[1]].edits[q[2]]
GuardAt(q) == Guard(Scripts[q[1]], EditAt(q))
Sooner(q, r) == q[1] < r[1] \/ (q[1] = r[1] /\ q[2] < r[2])
SameFile(q, r) == EditAt(q).file = EditAt(r).file
Swaps(q) == EditAt(q).new = EditAt(q).added

\* An edit puts texts of its own before its anchor, behind it or in its place.
EditsAreFormed ==
    /\ \A i \in DOMAIN Scripts : Scripts[i].whole \in BOOLEAN /\ Scripts[i].edits \in Seq(Edits)
    /\ \A q \in Spots :
        LET e == EditAt(q)
        IN  /\ GuardAt(q) \in {"strict", "once", "some", "lenient", "block", "any"}
            /\ e.old \in STRING /\ e.added \in Seq(STRING) /\ e.old \notin Range(e.added)
            /\ \A i, j \in DOMAIN e.added : e.added[i] = e.added[j] => i = j
            /\ e.new \in {e.added, e.added \o <<e.old>>, <<e.old>> \o e.added}
            /\ GuardAt(q) \in {"strict", "lenient", "block"} => e.added # << >>
            /\ GuardAt(q) \in {"any", "some"} => Swaps(q) /\ e.old \in Range(Sources[e.file])

\* No text is added twice or was there before, none is an anchor before it is
\* added, and none is an anchor again once it is gone.
TextsAreApart ==
    \A q, r \in Spots : SameFile(q, r) =>
        /\ q # r => Range(EditAt(q).added) \cap Range(EditAt(r).added) = {}
        /\ Range(EditAt(q).added) \cap Range(Sources[EditAt(q).file]) = {}
        /\ EditAt(r).old \in Range(EditAt(q).added) => Sooner(q, r) /\ GuardAt(q) \notin {"any", "some"}
        /\ Swaps(q) /\ Sooner(q, r) => EditAt(r).old # EditAt(q).old

\* The reviewed files have no other places than the anchors of edits.
AnchorsAreEdited ==
    \A f \in Files : \A a \in Range(Sources[f]) :
      \E q \in Spots : EditAt(q).file = f /\ EditAt(q).old = a

\* A reviewed file has each of them once, and a drifted one has one of them more
\* or less often.
SourcesAreReviewed ==
    /\ "" \notin Files
    /\ \A f \in Files :
         /\ Sources[f] \in Seq(STRING)
         /\ \A a \in Range(Sources[f]) :
              /\ Occurs(Sources[f], a) = 1
              /\ \A kind \in {"missing", "double"} :
                   LET text == Drifted([kind |-> kind, file |-> f, at |-> a], f)
                   IN  /\ text \in Seq(STRING) /\ Occurs(text, a) # 1
                       /\ kind = "missing" => a \notin Range(text)
                       /\ \A b \in Range(text) : b = a \/ Occurs(text, b) = 1
                       /\ Range(text) \cup {a} = Range(Sources[f])

\* An edit leaves a part of a text in one piece: it has its anchor elsewhere, or
\* at the end of the part and adds behind it, or at its start and adds before.
Spares(e, part) ==
    \/ e.old \notin Range(part)
    \/ e.new = <<e.old>> \o e.added /\ e.old = Last(part) /\ e.old \notin Range(Front(part))
    \/ e.new = e.added \o <<e.old>> /\ e.old = Head(part) /\ e.old \notin Range(Tail(part))

\* What an edit puts in a file is left in one piece by the edits after it.
StaysWhole(q, part) ==
    part # << >> /\ \A r \in Spots : SameFile(q, r) /\ Sooner(q, r) => Spares(EditAt(r), part)

\* Edits that refuse when their script runs again: the anchor is gone and the
\* script does not add it; or the new text is there when the script begins.
Exhausts(q) ==
    /\ GuardAt(q) \in {"strict", "once", "some"} /\ Swaps(q)
    /\ \A r \in Spots : r[1] = q[1] /\ SameFile(q, r) => EditAt(q).old \notin Range(EditAt(r).added)
Repeats(q) == GuardAt(q) = "strict" /\ q[2] = 1 /\ StaysWhole(q, EditAt(q).new)

\* Edits that are passed over then, or change nothing.
PassesAgain(q) ==
    \/ GuardAt(q) = "any"
    \/ GuardAt(q) \in {"lenient", "block"} /\ StaysWhole(q, EditAt(q).new)
    \/ GuardAt(q) = "block" /\ StaysWhole(q, EditAt(q).added)

StopsAgain(i) == Scripts[i].whole /\ \E q \in Spots : q[1] = i /\ (Exhausts(q) \/ Repeats(q))
KeepsAgain(i) == ~Scripts[i].whole /\ \A q \in Spots : q[1] = i => PassesAgain(q)

\* A script that runs again stops before it has written anything, or passes over
\* every edit.
RunsAgain ==
    \A i \in DOMAIN Scripts :
      Scripts[i].name \in Runnable \ {"stonefist"} =>
        \/ StopsAgain(i) \/ KeepsAgain(i)
        \/ \E h \in 1..(i - 1) : Scripts[h].name = Scripts[i].name /\ StopsAgain(h)

ASSUME TableAssumption ==
    EditsAreFormed /\ TextsAreApart /\ AnchorsAreEdited /\ SourcesAreReviewed /\ RunsAgain

ASSUME InstallAssumption ==
    MaxAttempts \in Nat \ {0} /\ DriftFiles \subseteq Files /\ MaxHand \in Nat

-------------------------------------------------------------------------------
(* The installer. *)

InstallTypeOK ==
    /\ outcome \in {"idle", "fetching", "patching", "failed", "installed"}
    /\ exists \in BOOLEAN /\ marked \in BOOLEAN
    /\ fetch \in [DataFiles -> [left : 0..MaxAttempts, got : {"none", "ok", "bad"}]]
    /\ at \in Nat \ {0} /\ Range(todo) \subseteq DOMAIN Scripts
    /\ DOMAIN tree = Files /\ DOMAIN prepared \subseteq Files
    /\ hand \subseteq Runnable

\* The reviewed sources, or a version in which one anchor is gone or repeated.
InstallInit ==
    /\ drift \in {[kind |-> "none", file |-> "", at |-> ""]} \cup
         UNION {[kind : {"missing", "double"}, file : {f}, at : Range(Sources[f])] : f \in DriftFiles}
    /\ tree = [f \in Files |-> Drifted(drift, f)]
    /\ outcome = "idle" /\ exists = FALSE /\ marked = FALSE
    /\ fetch = [d \in DataFiles |-> [left |-> MaxAttempts, got |-> "none"]]
    /\ todo = << >> /\ at = 1 /\ prepared = << >> /\ hand = {}

\* An existing destination and an archive with another digest are refused.
Begin ==
    /\ outcome \in {"idle", "failed"} /\ hand = {}
    /\ \/ outcome' = "failed" /\ UNCHANGED exists
       \/ ~exists /\ outcome' = "fetching" /\ exists' = TRUE
    /\ UNCHANGED <<drift, fetch, todo, at, prepared, tree, marked, hand>>

\* One thread fetches one data file: three requests, then its digest.
Fetch(d) ==
    /\ outcome = "fetching" /\ fetch[d].got = "none"
    /\ \E answer \in {"none", "ok", "bad"} :
         LET left == fetch[d].left - 1
         IN  fetch' = [fetch EXCEPT ![d] =
               [left |-> left, got |-> IF answer = "none" /\ left = 0 THEN "bad" ELSE answer]]
    /\ UNCHANGED <<drift, outcome, exists, todo, at, prepared, tree, marked, hand>>

\* The pool waits for every thread that runs; a failure drops the files it has
\* not started.
Fetched ==
    /\ outcome = "fetching"
    /\ \A d \in DataFiles :
         fetch[d].got # "none" \/ (fetch[d].left = MaxAttempts /\ \E b \in DataFiles : fetch[b].got = "bad")
    /\ IF \E d \in DataFiles : fetch[d].got = "bad"
       THEN outcome' = "failed" /\ UNCHANGED todo
       ELSE outcome' = "patching" /\ todo' = [i \in DOMAIN Scripts |-> i]
    /\ fetch' = [d \in DataFiles |-> [fetch[d] EXCEPT !.left = 0]]
    /\ UNCHANGED <<drift, exists, at, prepared, tree, marked, hand>>

Current == Scripts[Head(todo)]
Text(file) == IF file \in DOMAIN prepared THEN prepared[file] ELSE tree[file]

\* The next edit of the running script: passed over, refused, or made, at once
\* in the file or in the text the script will write at its end.
Patch ==
    /\ outcome = "patching" /\ todo # << >> /\ at <= Len(Current.edits)
    /\ LET e == Current.edits[at]
           guard == Guard(Current, e)
       IN  IF Passed(guard, e, Text(e.file))
           THEN at' = at + 1 /\ UNCHANGED <<outcome, todo, prepared, tree>>
           ELSE IF ~Accepted(guard, e, Text(e.file))
           THEN /\ outcome' = (IF hand = {} THEN "failed" ELSE "installed")
                /\ todo' = << >> /\ at' = 1 /\ prepared' = << >> /\ UNCHANGED tree
           ELSE /\ at' = at + 1 /\ UNCHANGED <<outcome, todo>>
                /\ IF Current.whole
                   THEN /\ prepared' = [f \in DOMAIN prepared \cup {e.file} |->
                                          IF f = e.file THEN Replaced(Text(f), e) ELSE prepared[f]]
                        /\ UNCHANGED tree
                   ELSE /\ tree' = [tree EXCEPT ![e.file] = Replaced(@, e)]
                        /\ UNCHANGED prepared
    /\ UNCHANGED <<drift, exists, fetch, marked, hand>>

\* Every edit of the script is checked: its prepared files are written in turn.
Write ==
    /\ outcome = "patching" /\ todo # << >> /\ at > Len(Current.edits)
    /\ IF DOMAIN prepared = {}
       THEN todo' = Tail(todo) /\ at' = 1 /\ UNCHANGED <<prepared, tree>>
       ELSE LET f == CHOOSE g \in DOMAIN prepared : TRUE
            IN  /\ tree' = [tree EXCEPT ![f] = prepared[f]]
                /\ prepared' = [g \in DOMAIN prepared \ {f} |-> prepared[g]]
                /\ UNCHANGED <<todo, at>>
    /\ UNCHANGED <<drift, outcome, exists, fetch, marked, hand>>

\* The marker files are the last thing the installer writes.
Mark ==
    /\ outcome = "patching" /\ todo = << >>
    /\ outcome' = "installed" /\ marked' = TRUE
    /\ UNCHANGED <<drift, exists, fetch, todo, at, prepared, tree, hand>>

\* The process or a write fails: what is on the disk stays.
Stop ==
    /\ outcome \in {"fetching", "patching"} /\ hand = {}
    /\ outcome' = "failed" /\ todo' = << >> /\ at' = 1 /\ prepared' = << >>
    /\ UNCHANGED <<drift, exists, fetch, tree, marked, hand>>

\* A script is run again by hand on the installed tree.
RunByHand(name) ==
    /\ outcome = "installed" /\ name \notin hand /\ Cardinality(hand) < MaxHand
    /\ outcome' = "patching" /\ hand' = hand \cup {name}
    /\ todo' = Places(Len(Scripts), {i \in DOMAIN Scripts : Scripts[i].name = name})
    /\ UNCHANGED <<drift, exists, fetch, at, prepared, tree, marked>>

InstallNext ==
    \/ Begin \/ Fetched \/ Patch \/ Write \/ Mark \/ Stop
    \/ \E d \in DataFiles : Fetch(d)
    \/ \E name \in Runnable : RunByHand(name)

InstallSpec == InstallInit /\ [][InstallNext]_installVars

-------------------------------------------------------------------------------
\* Guards that let an anchor pass which is gone or repeated.
Tolerates(guard, kind) == guard = "any" \/ (guard = "some" /\ kind = "double")

\* The one place that differs is the anchor of an edit whose guard lets it pass.
DriftPassed ==
    \E i \in DOMAIN Scripts : \E e \in Range(Scripts[i].edits) :
      Tolerates(Guard(Scripts[i], e), drift.kind) /\ e.file = drift.file /\ e.old = drift.at

\* A worker accepts the tree when its markers are there: then every data file
\* had its digest, the sources have every guarded anchor exactly once (lines that
\* two scripts drop: at least once), and what
\* the fourteen scripts add is there exactly once - also what one script adds
\* around the anchors and inside the texts of another.
MarkedIsWhole ==
    marked =>
        /\ \A d \in DataFiles : fetch[d].got = "ok"
        /\ drift.kind # "none" => DriftPassed
        /\ "stonefist" \notin hand =>
             \A f \in Files :
               LET consumed == Consumed(f)
               IN  \A text \in Added(f) :
                     \/ Occurs(tree[f], text) = IF text \in consumed THEN 0 ELSE 1
                     \/ DriftPassed /\ f = drift.file

\* A script run again by hand leaves the installed tree as it is, whether it
\* refuses or passes over its edits. (stonefist is the exception: another of its
\* edits separates its first text from the anchor, so it writes that text again
\* before it refuses.)
HandRunKeeps == hand # {} /\ "stonefist" \notin hand => tree' = tree

===============================================================================

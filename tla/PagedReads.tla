------------------------------ MODULE PagedReads ------------------------------
(* Long answers are read in pages of at most 8192 bytes: a client sends the    *)
(* next_offset of a page back until it is null. Most page functions drop rows  *)
(* from the end of a page that is too large and correct next_offset; some      *)
(* halve the limit; some refuse. Documents are read as slices of their         *)
(* canonical JSON: a plan or a comparison as it was made, a portfolio or a     *)
(* trace as it stands, which other calls revise between two pages. Every page  *)
(* names the digest of the document it was cut from.                           *)
(*                                                                             *)
(* A row is a number and its size; a document's characters are rows too.       *)
EXTENDS FiniteSetsExt, Lists

CONSTANTS
    Tables,       \* the lists a client may read: sequences of row sizes
    Parts,        \* the sections of a document
    Contents,     \* what a section may hold: sequences of row sizes
    Envelope,     \* bytes of a page beside its rows
    PageBytes,    \* 8192
    TextBytes,    \* 4500, the bound of a fragment
    FragmentRows, \* 1500, its bound in characters
    Limits,       \* the limits a client may ask for
    MaxRevised,   \* bound: revisions of a document
    None

VARIABLES
    view,      \* the kind of page function in use, None before the first page
    table,     \* the list it reads, or the sections of the document it reads
    section,   \* the section read
    revised,   \* revisions of the document since it was opened
    at,        \* next_offset as the client knows it
    got,       \* rows received so far
    seals,     \* the digests of the pages received so far
    page       \* the last answer

pageVars == <<view, table, section, revised, at, got, seals, page>>

Rows(sizes) == [i \in DOMAIN sizes |-> <<i, sizes[i]>>]
Weight(rows) == Total(0, [i \in DOMAIN rows |-> rows[i][2]])
Slice(rows, o, n) == SubSeq(rows, o + 1, IF o + n < Len(rows) THEN o + n ELSE Len(rows))

\* tool_json_bytes: the size of the answer as a host renders it.
Bounded(rows) == Envelope + Weight(rows) <= PageBytes

Answer(rows, o, n) ==
    [rows |-> Slice(rows, o, n), next |-> IF o + n < Len(rows) THEN o + n ELSE None,
     refused |-> FALSE]
Refused == [rows |-> <<>>, next |-> None, refused |-> TRUE]

-------------------------------------------------------------------------------
(* The page functions. *)

\* Mutant: rows are dropped and next_offset keeps pointing behind them.
TrimmedBlindly(rows, o, l) ==
    LET most == Len(Slice(rows, o, l))
        n == Max({k \in 0..most : k <= 1 \/ Bounded(Slice(rows, o, k))})
    IN  IF Bounded(Slice(rows, o, n))
        THEN [Answer(rows, o, most) EXCEPT !.rows = Slice(rows, o, n)] ELSE Refused

\* Rows are popped from the end until the page fits; one row that does not fit
\* refuses the page.
Trimmed(rows, o, l) ==
    LET most == Len(Slice(rows, o, l))
        n == Max({k \in 0..most : k <= 1 \/ Bounded(Slice(rows, o, k))})
    IN  IF Bounded(Slice(rows, o, n)) THEN Answer(rows, o, n) ELSE Refused

\* A page that is too large is refused; next_offset is the limit further on.
Fixed(rows, o, l) == IF Bounded(Slice(rows, o, l)) THEN Answer(rows, o, l) ELSE Refused

\* A page that is too large is asked again with half the limit, down to one row.
Halves(l) == {1} \cup {n \in 1..l : \E k \in 0..l : n = l \div 2^k}
Halved(rows, o, l) ==
    LET n == Max({m \in Halves(l) : m = 1 \/ Bounded(Slice(rows, o, m))})
    IN  IF Bounded(Slice(rows, o, n)) THEN Answer(rows, o, n) ELSE Refused

\* A fragment of text is bounded in characters and in bytes.
Fragment(rows, o, l) ==
    LET most == IF l < FragmentRows THEN l ELSE FragmentRows
    IN  Answer(rows, o, Max({n \in 0..most : Weight(Slice(rows, o, n)) <= TextBytes}))

\* Counters and error traces share one offset: the page ends where either is cut.
Longer(a, b) == IF Len(a) < Len(b) THEN Len(b) ELSE Len(a)
SizeAt(sizes, i) == IF i \in DOMAIN sizes THEN sizes[i] ELSE 0
Joint(counters, errors, o, l) ==
    Trimmed(Rows([i \in 1..Longer(counters, errors) |-> SizeAt(counters, i) + SizeAt(errors, i)]), o, l)

ListPage(v, lists, o, l) ==
    CASE v = "trimmed" -> Trimmed(Rows(lists[1]), o, l)
      [] v = "fixed" -> Fixed(Rows(lists[1]), o, l)
      [] v = "halved" -> Halved(Rows(lists[1]), o, l)
      [] v = "joint" -> Joint(lists[1], lists[2], o, l)

-------------------------------------------------------------------------------
(* A client reads. *)

Documents == {"text", "ledger"}   \* one that stays as it is, one that is revised

Init ==
    /\ view = None /\ table = <<>> /\ section = None /\ revised = 0
    /\ at = 0 /\ got = <<>> /\ seals = {} /\ page = None

\* The lists are immutable while they are read: a projection, a receipt or a
\* calculation retained under an identifier.
OpenList(v, first, second) ==
    /\ view = None
    /\ view' = v /\ table' = <<first, second>>
    /\ UNCHANGED <<section, revised, at, got, seals, page>>

OpenDocument(v, content, s) ==
    /\ view = None
    /\ view' = v /\ table' = content /\ section' = s
    /\ UNCHANGED <<revised, at, got, seals, page>>

Received(answer) ==
    /\ page' = answer
    /\ got' = got \o answer.rows
    /\ at' = IF answer.refused THEN at ELSE answer.next

\* The client sends next_offset back, with any limit.
ReadList(l) ==
    /\ view \notin Documents \cup {None} /\ at # None
    /\ Received(ListPage(view, table, at, l))
    /\ UNCHANGED <<view, table, section, revised, seals>>

\* artifact_digest: a digest of all sections.
Seal == table

\* A portfolio or a trace is cut at the limit; a refused page names no digest.
ReadText(l) ==
    /\ view \in Documents /\ at # None
    /\ LET rows == Rows(table[section])
           answer == IF view = "text" THEN Fragment(rows, at, l) ELSE Fixed(rows, at, l)
       IN  /\ Received(answer)
           /\ seals' = IF answer.refused THEN seals ELSE seals \cup {Seal}
    /\ UNCHANGED <<view, table, section, revised>>

\* Another call records an event, values the portfolio or appends a step.
Revise(s, content) ==
    /\ view = "ledger" /\ revised < MaxRevised
    /\ table' = [table EXCEPT ![s] = content]
    /\ revised' = revised + 1
    /\ UNCHANGED <<view, section, at, got, seals, page>>

Next ==
    \/ \E v \in {"trimmed", "fixed", "halved"}, first \in Tables : OpenList(v, first, <<>>)
    \/ \E first, second \in Tables : OpenList("joint", first, second)
    \/ \E v \in Documents, content \in [Parts -> Contents], s \in Parts : OpenDocument(v, content, s)
    \/ \E l \in Limits : ReadList(l) \/ ReadText(l)
    \/ \E s \in Parts, content \in Contents : Revise(s, content)

Spec == Init /\ [][Next]_pageVars

-------------------------------------------------------------------------------
(* Properties. *)

Whole ==
    IF view = "joint" THEN [i \in 1..Longer(table[1], table[2]) |-> i] ELSE Rows(table[1])

\* A client that follows next_offset receives every row once and in order however
\* the pages were cut, each page brings it further, and a list ends complete. A
\* page is refused only for its size, and a trimmed or halved one only when a
\* single row does not fit: no limit the client can choose would help.
PagesLossless ==
    view \notin Documents \cup {None} =>
      /\ [i \in DOMAIN got |-> got[i][1]] = [i \in 1..(IF at = None THEN Len(Whole) ELSE at) |-> i]
      /\ page # None => page.rows # <<>> \/ page.next = None
      /\ view # "fixed" /\ page # None /\ page.refused =>
           \A l \in Limits : ListPage(view, table, at, l).refused

\* Fragments of one digest are fragments of one text: a client that reads to the
\* end under a single digest has exactly the section as it stood, although a
\* portfolio or a trace may have been revised, even back and forth, between the
\* pages.
FragmentsOfOneText ==
    view \in Documents /\ at = None /\ Cardinality(seals) = 1 =>
      \E sealed \in seals : got = Rows(sealed[section])

===============================================================================

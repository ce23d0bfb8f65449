----------------------------- MODULE SessionList -----------------------------
(***************************************************************************)
(* GET /sessions: a client walks page by page through the sessions of its  *)
(* API key that a filter lets through, while sessions are created, changed *)
(* and deleted.  Every page is two statements, a count and a page cut out  *)
(* of the sessions ordered by creation; SessionStore has the writes behind *)
(* one session, which are one statement each here.  Of the filters, the    *)
(* mode stands for mode and project, the tag for tags and title.           *)
(***************************************************************************)
EXTENDS Integers, FiniteSets

CONSTANTS
    Rows,         \* the sessions of the key there may be
    Born,         \* Rows -> Nat: created_at
    Sizes,        \* page sizes
    AtStart,      \* what a session may be when the walk begins
    Filters,      \* what a client asks for
    MaxWrites     \* bound: the writes made during a walk

VARIABLES
    table,        \* the sessions table: a Row, Missing, or Deleted, for good
    filter, size, \* what the client asks of every page
    walk,         \* "count", "select" or "over"
    pageNo, total,\* the page asked for, and what the count said last
    shown,        \* how often each session was shown
    writes,       \* bound: the writes still to come
    steady,       \* history: sessions that passed the filter all the time
    gone, fresh,  \* history: sessions that ceased, or began, to pass it
    late          \* history: those that began to since the last count

listVars == <<filter, size, walk, pageNo, total, shown>>
pageVars == <<table, listVars, writes, steady, gone, fresh, late>>

Modes   == {"none", "brainstorm", "code"}
Row     == [mode : Modes, tagged : BOOLEAN]
Plain   == [mode |-> "none", tagged |-> FALSE]
Missing == [Plain EXCEPT !.mode = "missing"]
Deleted == [Plain EXCEPT !.mode = "deleted"]

ASSUME ListAssumption ==
    /\ IsFiniteSet(Rows) /\ Born \in [Rows -> Nat] /\ Sizes \subseteq Nat \ {0} /\ MaxWrites \in Nat
    /\ AtStart \subseteq Row \cup {Missing} /\ Filters \subseteq Row

\* A filter that is not given lets every session through; a session without a
\* mode passes none, although the response shows it under "code".
Matches(r) ==
    /\ r \in Row
    /\ filter.mode # "none" => r.mode = filter.mode
    /\ filter.tagged => r.tagged
Matching == {s \in Rows : Matches(table[s])}

ListInit ==
    /\ table \in [Rows -> AtStart]
    /\ filter \in Filters /\ size \in Sizes
    /\ walk = "count" /\ pageNo = 1 /\ total = 0
    /\ shown = [s \in Rows |-> 0]
    /\ writes = MaxWrites
    /\ steady = Matching /\ gone = {} /\ fresh = {} /\ late = {}

----------------------------------------------------------------------------
(* The statements of other requests *)

Write(s, r) ==
    /\ walk # "over" /\ writes > 0
    /\ table' = [table EXCEPT ![s] = r]
    /\ writes' = writes - 1
    /\ UNCHANGED listVars
    /\ steady' = steady \cap Matching'
    /\ gone' = gone \cup (Matching \ Matching')
    /\ fresh' = fresh \cup (Matching' \ Matching)
    /\ late' = late \cup (Matching' \ Matching)

\* The database stamps a row when its transaction begins, not when it commits:
\* a new row may be older than one that is there.
CreateRow(s)  == table[s] = Missing /\ Write(s, Plain)
PromoteRow(s) == table[s] \in Row /\ Write(s, [table[s] EXCEPT !.mode = "code"])
TagRow(s)     == table[s] \in Row /\ \E t \in BOOLEAN : Write(s, [table[s] EXCEPT !.tagged = t])
DeleteRow(s)  == table[s] \in Row /\ Write(s, Deleted)

----------------------------------------------------------------------------
(* One page: two statements of one transaction, READ COMMITTED *)

CountRows ==
    /\ walk = "count"
    /\ total' = Cardinality(Matching)
    /\ late' = {}
    /\ walk' = "select"
    /\ UNCHANGED <<table, filter, size, pageNo, shown, writes, steady, gone, fresh>>

\* Mutant of Offset: the page is counted from zero.
OffsetFromZero == pageNo * size

Offset == (pageNo - 1) * size

\* ORDER BY created_at DESC: equals come in any order, another for every page.
Newer(s, t) == Born[s] > Born[t]
Pages(rows) ==
    {p \in SUBSET rows :
        \E before \in SUBSET (rows \ p) :
            /\ Cardinality(before) = Offset \/ (p = {} /\ Cardinality(rows) <= Offset)
            /\ Cardinality(p) = size
               \/ (Cardinality(p) < size /\ rows \subseteq before \cup p)
            /\ \A s \in before, t \in rows \ before : ~Newer(t, s)
            /\ \A s \in p, t \in rows \ (before \cup p) : ~Newer(t, s)}

\* The client goes on while the last count leaves something to show.
SelectRows ==
    /\ walk = "select"
    /\ \E p \in Pages(Matching) :
          shown' = [s \in Rows |-> IF s \in p THEN shown[s] + 1 ELSE shown[s]]
    /\ IF pageNo * size < total
       THEN walk' = "count" /\ pageNo' = pageNo + 1
       ELSE walk' = "over" /\ UNCHANGED pageNo
    /\ UNCHANGED <<table, filter, size, total, writes, steady, gone, fresh, late>>

ListNext ==
    \/ CountRows \/ SelectRows
    \/ \E s \in Rows : CreateRow(s) \/ PromoteRow(s) \/ TagRow(s) \/ DeleteRow(s)

ListSpec == ListInit /\ [][ListNext]_pageVars

----------------------------------------------------------------------------

\* A session that passes the filter all through a walk is shown: only one that
\* is newer and leaves, or one that comes between the last count and its page,
\* can move it past the client.  It is shown once, unless a newer one came; and
\* nothing holds among sessions of one created_at, which no second key orders
\* (session_repo.py 196-275).
Beside(s) == {t \in (steady \cup gone \cup fresh) \ {s} : Born[t] = Born[s]}
WalkSeesAll ==
    walk = "over" =>
        \A s \in steady : Beside(s) = {} =>
            /\ shown[s] = 0 => \E t \in gone \cup late : Newer(t, s)
            /\ shown[s] > 1 => \E t \in fresh : Newer(t, s)
=============================================================================

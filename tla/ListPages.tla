------------------------------ MODULE ListPages ------------------------------
(***************************************************************************)
(* The list pages and their exports (pkg/page, the Select...Page and       *)
(* Select...List functions of internal/repository).  A page is two         *)
(* statements, COUNT and then SELECT with LIMIT and OFFSET; a client walks *)
(* from page to page until it has seen as many rows as the last count,     *)
(* while others insert, change and delete rows.                            *)
(*                                                                         *)
(* SQL promises an order only as far as ORDER BY decides it: rows that tie *)
(* come in any order, another one in each statement.                       *)
(*                                                                         *)
(* The rows are those that match the filter.  A row has its primary key,   *)
(* given out in rising order, and one more column to sort by.              *)
(***************************************************************************)
EXTENDS Integers, FiniteSets, Sequences, SequencesExt

CONSTANTS
    MaxListed,         \* bound: rows ever
    FirstRows,     \* bound: rows at the start
    SortKeys,
    ListSizes,
    MaxPageSize,
    MaxInt,        \* the largest int
    MaxExportRows

ASSUME ListsAssumption ==
    /\ MaxListed \in Nat /\ FirstRows \in 0..MaxListed /\ SortKeys \subseteq Int
    /\ ListSizes \subseteq Nat \ {0} /\ MaxPageSize \in Nat \ {0} /\ MaxExportRows \in Nat
    /\ MaxInt \in Nat \ {0, 1} /\ MaxListed < MaxInt

VARIABLES
    list,          \* which list it is
    listed,        \* primary key -> the other column
    lastRow,
    walk           \* the client

listVars == <<list, listed, lastRow, walk>>

Asc(column) == [column |-> column, desc |-> FALSE]
Desc(column) == [column |-> column, desc |-> TRUE]

-----------------------------------------------------------------------------
(* The lists: the order of their pages when the client asks for none, that *)
(* of the export, whether the client may sort, and whether a row is joined *)
(* with several others, which DISTINCT undoes.                             *)

List(page, export) == [page |-> page, export |-> export, sortable |-> TRUE, joined |-> FALSE]

SelectLogininforPage == List(<<Desc("id")>>, <<Desc("id")>>)
SelectOperLogPage == List(<<Desc("id")>>, <<Desc("id")>>)
SelectJobLogPage == List(<<Desc("id")>>, <<Desc("id")>>)
SelectNoticePage == List(<<Desc("id")>>, << >>)
SelectJobPage == List(<<Asc("id")>>, <<Asc("id")>>)
SelectPostPage == List(<<Asc("id")>>, << >>)
SelectConfigPage == List(<<Asc("id")>>, <<Asc("id")>>)
SelectDictTypePage == List(<<Asc("id")>>, <<Asc("id")>>)
SelectDictDataPage == List(<<Asc("key"), Asc("id")>>, <<Asc("key")>>)
SelectUserPage == List(<<Asc("id")>>, <<Asc("id")>>)
SelectRolePage == [List(<<Asc("key"), Asc("id")>>, <<Asc("key")>>) EXCEPT !.joined = TRUE]
SelectAuthUserPage == [List(<<Asc("id")>>, << >>) EXCEPT !.joined = TRUE, !.sortable = FALSE]
SelectGenTablePage == List(<<Desc("key"), Asc("id")>>, << >>)
SelectDBTablePage == List(<<Desc("key"), Asc("id")>>, << >>)

Lists == {SelectLogininforPage, SelectOperLogPage, SelectJobLogPage, SelectNoticePage, SelectJobPage,
          SelectPostPage, SelectConfigPage, SelectDictTypePage, SelectDictDataPage, SelectUserPage,
          SelectRolePage, SelectAuthUserPage, SelectGenTablePage, SelectDBTablePage}

-----------------------------------------------------------------------------
(* pkg/page.                                                               *)

\* Sizes are cut; a column that may not be sorted by is ignored.
Parse(number, size, column, desc) ==
    [number |-> IF number = 0 THEN 1 ELSE number,
     size |-> IF size > MaxPageSize THEN MaxPageSize ELSE size,
     orderBy |-> IF list.sortable /\ column \in {"id", "key"} THEN <<[column |-> column, desc |-> desc]>> ELSE << >>]

\* An offset beyond the largest int stays there.
Offset(query) ==
    LET pages == query.number - 1
    IN IF pages > MaxInt \div query.size THEN MaxInt ELSE pages * query.size

\* Mutant: the client's order alone.
StableNot(query) == IF query.orderBy = << >> THEN list.page ELSE query.orderBy

Stable(query) == IF query.orderBy = << >> THEN list.page ELSE query.orderBy \o <<Asc("id")>>

-----------------------------------------------------------------------------
(* What SQL answers.                                                       *)

\* A row of a joined list is there once for each row it is joined with.
Joined == {<<id, n>> : id \in DOMAIN listed, n \in 1..2}
Distinct(pairs) == {pair[1] : pair \in pairs}
Matching == IF list.joined THEN Distinct(Joined) ELSE DOMAIN listed

Value(rows, id, column) == IF column = "id" THEN id ELSE rows[id]

Precedes(rows, a, b, order) ==
    \E i \in DOMAIN order :
        LET x == Value(rows, a, order[i].column)
            y == Value(rows, b, order[i].column)
        IN /\ \A j \in 1..(i - 1) : Value(rows, a, order[j].column) = Value(rows, b, order[j].column)
           /\ IF order[i].desc THEN x > y ELSE x < y

Answers(order) ==
    {answer \in SetToSeqs(Matching) :
        \A i, j \in DOMAIN answer : i < j => ~Precedes(listed, answer[j], answer[i], order)}

Cut(answer, offset, limit) ==
    SubSeq(answer, offset + 1, IF offset + limit > Len(answer) THEN Len(answer) ELSE offset + limit)

-----------------------------------------------------------------------------
(* The client.  It remembers what was there when it began, and whether a   *)
(* row came meanwhile, at all or between a count and its rows.  One under  *)
(* whose walk a row goes or moves has no promise and is not followed.      *)

NoQuery == [number |-> 1, size |-> 1, orderBy |-> << >>]
NoWalk == [at |-> "rest", query |-> NoQuery, first |-> 1, total |-> 0, seen |-> << >>,
           start |-> {}, grown |-> FALSE, between |-> FALSE]

ListInit ==
    /\ list \in Lists
    /\ lastRow \in 0..FirstRows
    /\ listed \in [1..lastRow -> SortKeys]
    /\ walk = NoWalk

Ended == walk.at \in {"done", "exported", "refused"}

\* What it has seen is forgotten before anything else happens.
Leave == Ended /\ walk' = NoWalk /\ UNCHANGED <<list, listed, lastRow>>

Browse(number, size, column, desc) ==
    /\ walk.at = "rest"
    /\ LET query == Parse(number, size, column, desc) IN
       walk' = [NoWalk EXCEPT !.at = "count", !.query = query, !.first = query.number, !.start = DOMAIN listed]
    /\ UNCHANGED <<list, listed, lastRow>>

\* Without rows there is no second statement.
CountRows ==
    /\ walk.at = "count"
    /\ walk' = [walk EXCEPT !.total = Cardinality(Matching), !.at = IF Matching = {} THEN "done" ELSE "select"]
    /\ UNCHANGED <<list, listed, lastRow>>

SelectRows ==
    LET query == walk.query IN
    /\ walk.at = "select"
    /\ \E answer \in Answers(Stable(query)) :
         LET walked == [walk EXCEPT !.seen = @ \o Cut(answer, Offset(query), query.size)] IN
         walk' = IF query.number * query.size >= walk.total
                 THEN [walked EXCEPT !.at = "done"]
                 ELSE [walked EXCEPT !.at = "count", !.query.number = @ + 1]
    /\ UNCHANGED <<list, listed, lastRow>>

\* One row more than allowed is asked for, so that too many are noticed.
checkExportSize(answer) == Len(answer) <= MaxExportRows

Export ==
    /\ walk.at = "rest"
    /\ \E answer \in Answers(list.export) :
         LET file == Cut(answer, 0, MaxExportRows + 1) IN
         walk' = [NoWalk EXCEPT !.at = IF checkExportSize(file) THEN "exported" ELSE "refused",
                                !.seen = IF checkExportSize(file) THEN file ELSE << >>,
                                !.start = DOMAIN listed]
    /\ UNCHANGED <<list, listed, lastRow>>

During(changes) == ~Ended /\ walk' = IF walk.at = "rest" THEN walk ELSE changes

Insert(key) ==
    /\ lastRow < MaxListed
    /\ lastRow' = lastRow + 1
    /\ listed' = [id \in DOMAIN listed \cup {lastRow'} |-> IF id = lastRow' THEN key ELSE listed[id]]
    /\ During([walk EXCEPT !.grown = TRUE, !.between = @ \/ walk.at = "select"])
    /\ UNCHANGED list

\* One, several or all of them.
DeleteListed(ids) ==
    /\ listed' = [id \in DOMAIN listed \ ids |-> listed[id]]
    /\ During(NoWalk)
    /\ UNCHANGED <<list, lastRow>>

\* TRUNCATE also begins with the first primary key again; the lists of the login
\* and the operation log, which look the same, may do so too.
CleanJobLog ==
    /\ list = SelectJobLogPage
    /\ listed' = [id \in {} |-> 0] /\ lastRow' = 0
    /\ During(NoWalk)
    /\ UNCHANGED list

Update(id, key) ==
    /\ listed' = [listed EXCEPT ![id] = key]
    /\ During(NoWalk)
    /\ UNCHANGED <<list, lastRow>>

ListNext ==
    \/ \E number \in {0, MaxInt}, size \in ListSizes, column \in {"id", "key", "other"}, desc \in BOOLEAN :
            Browse(number, size, column, desc)
    \/ CountRows \/ SelectRows \/ Export \/ Leave
    \/ \E key \in SortKeys : Insert(key)
    \/ \E ids \in (SUBSET DOMAIN listed) \ {{}} : DeleteListed(ids)
    \/ CleanJobLog
    \/ \E id \in DOMAIN listed, key \in SortKeys : Update(id, key)

ListSpec == ListInit /\ [][ListNext]_listVars

-----------------------------------------------------------------------------
ListTypeOK ==
    /\ list \in Lists
    /\ lastRow \in 0..MaxListed
    /\ DOMAIN listed \subseteq 1..lastRow /\ \A id \in DOMAIN listed : listed[id] \in SortKeys
    /\ walk.at \in {"rest", "count", "select", "done", "exported", "refused"}
    /\ walk.query.number \in 1..MaxInt /\ walk.query.size \in 1..MaxPageSize
    /\ walk.total \in 0..MaxListed /\ walk.seen \in Seq(1..MaxListed) /\ walk.start \subseteq 1..MaxListed

EachOnce(seq, set) == Len(seq) = Cardinality(set) /\ ToSet(seq) = set

\* A client that walks through all pages sees every row exactly once, whatever it
\* sorts by and however many rows tie, and nothing beyond the last page
\* (page.go:102, page.go:59); if rows come meanwhile, and none of them between a
\* count and its rows, at least every row that was there when it began.
PagesComplete ==
    walk.at = "done" =>
        /\ walk.first = MaxInt => walk.seen = << >>
        /\ walk.first = 1 /\ ~walk.between => walk.start \subseteq ToSet(walk.seen)
        /\ walk.first = 1 /\ ~walk.grown =>
               EachOnce(walk.seen, walk.start) /\ walk.total = Len(walk.seen)

\* An export has every row exactly once, or there is none (service/export.go:45).
ExportWhole == walk.at = "exported" => EachOnce(walk.seen, walk.start)

=============================================================================

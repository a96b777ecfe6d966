--------------------------------- MODULE Paging ---------------------------------
(***************************************************************************)
(* The cutting of the lists of mcp::Server into pages (src/src/server/      *)
(* server.cpp, paginate), and what a client gets that follows the cursors.  *)
(* A cursor is the number of items before the page; its text is a decimal.  *)
(***************************************************************************)
EXTENDS Naturals, Sequences

CONSTANT MaxSize   \* SIZE_MAX

ASSUME SizeAssumption == MaxSize \in Nat

\* Mutant: the cursor of the last page leads to a page behind it.
AlwaysMore(end, total) == TRUE
MoreFollow(end, total) == end < total

Paginate(total, pageSize, cursor) ==
    IF pageSize = 0 \/ total = 0 THEN [first |-> 0, end |-> total, more |-> FALSE]
    ELSE LET offset == IF cursor >= total THEN 0 ELSE cursor
             wanted == (offset + pageSize) % (MaxSize + 1)
             end == IF wanted < total THEN wanted ELSE total
         IN  [first |-> offset, end |-> end, more |-> MoreFollow(end, total)]

\* A client that has items and the last page's cursor takes one more page, if any.
NewClient == [items |-> <<>>, cursor |-> 0, more |-> TRUE]
TakePage(total, pageSize, client) ==
    LET page == Paginate(total, pageSize, client.cursor)
    IN  IF client.more
        THEN [items |-> client.items \o [i \in 1..(page.end - page.first) |-> page.first + i],
              cursor |-> page.end, more |-> page.more]
        ELSE client

\* The client after so many pages.
Followed(total, pageSize, pages) ==
    LET client[n \in 0..pages] ==
            IF n = 0 THEN NewClient ELSE TakePage(total, pageSize, client[n - 1])
    IN  client[pages]

\* A client that follows the cursors gets every item once and in order, ends after at
\* most one page per item, and no cursor asks for what is not there; unless the page
\* size is so large that the end of a page does not fit a size_t.
PagesCoverTheList(total, pageSize) ==
    total + pageSize <= MaxSize =>
        /\ LET client == Followed(total, pageSize, total + 1)
           IN  client.items = [i \in 1..total |-> i] /\ ~client.more
        /\ \A cursor \in 0..MaxSize :
              LET page == Paginate(total, pageSize, cursor)
              IN  page.first <= page.end /\ page.end <= total
=============================================================================

------------------------------- MODULE Searches -------------------------------
(***************************************************************************)
(* The Query runner's multi-page searches (runner.py): paginated-search    *)
(* with search_after and scroll-search.  The request body belongs to the   *)
(* parameter source, which hands out the same object for every call, so    *)
(* what a call leaves in it is there for the next one.  The documents that *)
(* match are 1..hits in sort order.                                        *)
(***************************************************************************)
EXTENDS Naturals, FiniteSetsExt

CONSTANTS Searches  \* records [kind, hits, size, pages]; pages = 0 stands for "all"

ASSUME SearchesAssumption ==
    \A s \in Searches :
       /\ s.kind \in {"paginated-search", "scroll-search"}
       /\ s.hits \in Nat /\ s.size \in Nat \ {0} /\ s.pages \in Nat

VARIABLES
    search,   \* the search of this task
    page,     \* pages retrieved by the current call
    after,    \* body["search_after"], as the last document seen; 0: not in the body
    scrolled, \* documents the scroll has handed out
    scroll,   \* the cluster keeps a scroll context
    seen,     \* documents retrieved by the current call
    calls,    \* how the current or last call stands: "none", "open", "returned", "failed"
    kept      \* a call before this one failed or was cut off by its page limit

searchVars == <<search, page, after, scrolled, scroll, seen, calls, kept>>

SearchesInit ==
    /\ search = [kind |-> "none", hits |-> 0, size |-> 1, pages |-> 0]
    /\ page = 0 /\ after = 0 /\ scrolled = 0 /\ scroll = FALSE
    /\ seen = {} /\ calls = "none" /\ kept = FALSE

\* The first call fixes the search of the task; later ones repeat it.
StartSearch ==
    /\ calls # "open"
    /\ IF calls = "none" THEN search' \in Searches ELSE UNCHANGED search
    /\ calls' = "open" /\ page' = 0 /\ seen' = {} /\ scrolled' = 0
    /\ UNCHANGED <<after, scroll, kept>>

\* The documents of the page that starts after document n.
PageAfter(n) == {d \in 1..search.hits : n < d /\ d <= n + search.size}

\* range(1, total_pages + 1) is exhausted.
LastPage == search.pages # 0 /\ page + 1 = search.pages

\* Mutant: a full last page asks for one more.
MoreHitsOrFull == search.hits >= (page + 1) * search.size

\* Another page is needed: results["hits"] / size > page.
MoreHits == search.hits > (page + 1) * search.size

\* _search_after_query: "hits / size > page" asks for another page; only the
\* other branch takes search_after out of the body again.
SearchAfterPage ==
    /\ calls = "open" /\ search.kind = "paginated-search"
    /\ LET docs == PageAfter(after)
           more == MoreHits
       IN  /\ seen' = seen \union docs
           /\ after' = IF more /\ docs # {} THEN Max(docs) ELSE 0
           /\ page' = page + 1
           /\ calls' = IF more /\ ~LastPage THEN "open" ELSE "returned"
           /\ kept' = (kept \/ (more /\ LastPage))
    /\ UNCHANGED <<search, scrolled, scroll>>

\* _scroll_query: the first page opens the scroll; an empty page, or a total
\* below the page size, ends the loop.  The finally block clears the scroll;
\* an error there is only logged.
ScrollPage ==
    /\ calls = "open" /\ search.kind = "scroll-search"
    /\ LET docs == PageAfter(scrolled)
           collected == IF page = 0 THEN search.hits < search.size \/ search.hits = 0
                        ELSE docs = {}
       IN  /\ seen' = seen \union docs
           /\ scrolled' = scrolled + Cardinality(docs)
           /\ page' = page + 1
           /\ IF collected \/ LastPage
              THEN calls' = "returned" /\ scroll' \in BOOLEAN
              ELSE calls' = "open" /\ scroll' = TRUE
    /\ UNCHANGED <<search, after, kept>>

\* A request fails; the body is left as it is, the scroll is cleared.
SearchFails ==
    /\ calls = "open"
    /\ calls' = "failed"
    /\ kept' = (kept \/ after # 0)
    /\ scroll' \in {FALSE, scroll}
    /\ UNCHANGED <<search, page, after, scrolled, seen>>

SearchesNext == StartSearch \/ SearchAfterPage \/ ScrollPage \/ SearchFails

\* A call that is not limited in pages retrieves every document that matches,
\* in as many pages as it reports as its weight - unless an earlier call has
\* left its position in the shared body.
AllPages ==
    calls = "returned" /\ search.pages = 0 /\ ~kept =>
        /\ seen = 1..search.hits
        /\ page = LET full == (search.hits + search.size - 1) \div search.size
                  IN  IF search.kind = "paginated-search" \/ search.hits < search.size
                      THEN Max({1, full}) ELSE full + 1

===============================================================================

----------------------------- MODULE ClientLists -----------------------------
(***************************************************************************)
(* The lists of a coach's clients (repositories/Coach.go, ListClientAccess in *)
(* repositories/entitlement.go, ClientsOfCoaches in repositories/analytics.go). *)
(* Each joins the coach-client rows with the accounts.  The rows come as a       *)
(* sequence in the order of the list; names and the search by name are left out.  *)
(***************************************************************************)
EXTENDS Integers, Sequences, SequencesExt, FiniteSets

CONSTANT PageSize

ASSUME PageAssumption == PageSize \in Nat \ {0}

\* $skip and $limit; pageDefaults, and the defaults at the head of each list, keep pages above 0.
Page(seq, page) == {seq[i] : i \in ((page - 1) * PageSize + 1 .. page * PageSize) \cap DOMAIN seq}

\* facetPage, runPaged: the total is counted over the rows that are paged.
Paged(seq, page) == [clients |-> Page(seq, page), total |-> Len(seq)]

\* How many pages a caller reads who believes the total.
PageCount(total) == (total + PageSize - 1) \div PageSize

\* $unwind drops the rows whose account is gone; each of the others moves up by as many places as
\* were dropped before it.
Joined(rows, accounts) ==
    LET kept == {i \in DOMAIN rows : rows[i] \in accounts}
        Before(i) == Cardinality({j \in kept : j < i})
    IN  [n \in 1 .. Cardinality(kept) |-> rows[CHOOSE i \in kept : Before(i) = n - 1]]

\* The join comes before the facet: page and total are of the joined rows.
ListCoachClients(rows, accounts, page) == Paged(Joined(rows, accounts), page)

\* The page is cut and the total counted before the join.
ListCoachClientsSummary(rows, accounts, page) ==
    [clients |-> Page(rows, page) \cap accounts, total |-> Len(rows)]

\* The coach's list of what each client may use.
ListClientAccess(rows, accounts, page) == Paged(Joined(rows, accounts), page)

\* The clients of every coach in a scope; facetPage counts what it pages.
ClientsOfCoaches(rows, accounts, page) == Paged(Joined(rows, accounts), page)

\* Without pages.
GetAllCoachClientDetails(rows, accounts) == ToSet(rows) \cap accounts

\* The ids alone, without the join.
GetClientIDsByCoach(rows) == ToSet(rows)
LinkedClientIDs(rows, asked) == ToSet(rows) \cap asked

\* For every id that was asked for, also those that are linked to nobody.
CheckClientLinks(rows, asked) == [c \in asked |-> c \in LinkedClientIDs(rows, asked)]

\* A client stands on exactly one of the pages that the total announces.
StandsOnce(List(_, _, _), rows, accounts, c) ==
    LET pages == 1 .. PageCount(List(rows, accounts, 1).total)
    IN  Cardinality({p \in pages : c \in List(rows, accounts, p).clients}) = 1

ShownEverywhere(rows, accounts, c) ==
    /\ StandsOnce(ListCoachClients, rows, accounts, c)
    /\ StandsOnce(ListCoachClientsSummary, rows, accounts, c)
    /\ StandsOnce(ListClientAccess, rows, accounts, c)
    /\ StandsOnce(ClientsOfCoaches, rows, accounts, c)
    /\ c \in GetAllCoachClientDetails(rows, accounts) \cap GetClientIDsByCoach(rows)

=============================================================================

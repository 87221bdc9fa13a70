------------------------------- MODULE Browsing -------------------------------
(***************************************************************************)
(* A client pages through a collection while it changes: the list and get  *)
(* functions of every service, parsePagination (types/index.ts), the meta  *)
(* of the controllers and parseFieldSelection (utils/fieldSelection.ts).   *)
(*                                                                         *)
(* A page is an offset into the rows as they are when it is read, and the  *)
(* total beside it is counted by a statement of its own, before or after.  *)
(* Rows are kept in the order of the sort field, whose values differ.      *)
(***************************************************************************)
EXTENDS Integers, FiniteSets, SequencesExt

CONSTANTS
  Rows,          \* ids; a new row takes one that was never used
  Limits,        \* limits a client may write; 0 stands for none
  DefaultLimit, MaxLimit,
  Unknown

ASSUME LimitsAssumption ==
  /\ Limits \subseteq Int
  /\ DefaultLimit \in 1..MaxLimit /\ MaxLimit \in Nat

ASSUME UnknownAssumption == Unknown \notin Nat /\ \A ids \in SUBSET Rows : ids # Unknown

VARIABLES
  list,     \* the collection, who asks, and how it is sorted and paged
  table,    \* the collection's rows, by ascending sort field
  used,     \* ids that were given out
  stage,    \* of the client: "before", "paging" or "done"
  page,     \* the page it asks for
  found,    \* the ids on that page, once read
  total,    \* the number of rows, once counted
  seen,     \* ids the client was shown
  owed,     \* ghost: listed at the start, and not edited or deleted since
  excused   \* ghost: did the list move in a way that pages do not survive?

browsingVars == <<list, table, used, stage, page, found, total, seen, owed, excused>>

Kinds == {"restaurants", "meals", "orders", "coupons", "users"}
Roles == {"CUSTOMER", "RESTAURANT_OWNER", "ADMIN"}

(* The where clauses.  A row is open if it is not blocked and, if a meal,  *)
(* available; mine if the viewer owns it, or ordered it.                   *)
ListedRestaurant(row) ==
  CASE list.role = "CUSTOMER"         -> row.open
    [] list.role = "RESTAURANT_OWNER" -> row.mine \/ row.open
    [] list.role = "ADMIN"            -> TRUE
ListedMeal(row) == list.role = "CUSTOMER" => row.open
ListedOrder(row) == list.role # "ADMIN" => row.mine

Listed(row) ==
  /\ list.kind = "restaurants" => ListedRestaurant(row)
  /\ list.kind = "meals" => ListedMeal(row)
  /\ list.kind = "orders" => ListedOrder(row)

AtLeast(n, m) == IF n < m THEN m ELSE n
AtMost(n, m) == IF n > m THEN m ELSE n

Limit(n) == AtMost(AtLeast(IF n = 0 THEN DefaultLimit ELSE n, 1), MaxLimit)

(* Only administrators list users, and coupons have no updatedAt. *)
BrowsingInit ==
  /\ list \in [kind : Kinds, role : Roles, limit : {Limit(n) : n \in Limits},
               sortBy : {"createdAt", "updatedAt"}, sortOrder : {"asc", "desc"}]
  /\ list.kind = "users" => list.role = "ADMIN"
  /\ list.kind = "coupons" => list.sortBy = "createdAt"
  /\ table = <<>> /\ used = {}
  /\ stage = "before" /\ page = 1 /\ found = Unknown /\ total = Unknown
  /\ seen = {} /\ owed = {} /\ excused = FALSE

Ids(positions) == {table[i].id : i \in positions}
Listing == {i \in DOMAIN table : Listed(table[i])}
Matches == Ids(Listing)

(* The place of a row among those listed, in the order that was asked for. *)
Precedes(i, j) == IF list.sortOrder = "asc" THEN i <= j ELSE i >= j
UpTo(i) == Ids({j \in Listing : Precedes(j, i)})
Place(i) == Cardinality(UpTo(i))

(* Mutant: pages counted from zero. *)
Skip_FromZero == page * list.limit

Skip == (page - 1) * list.limit
TotalPages == (total + list.limit - 1) \div list.limit

(* The client asks for the first page. *)
Begin ==
  /\ stage = "before"
  /\ stage' = "paging"
  /\ owed' = Matches
  /\ UNCHANGED <<list, table, used, page, found, total, seen, excused>>

(* Mutant: the limit is not taken. *)
FindMany_NoTake ==
  /\ stage = "paging" /\ found = Unknown
  /\ found' = Ids({i \in Listing : Skip < Place(i)})
  /\ UNCHANGED <<list, table, used, stage, page, total, seen, owed, excused>>

FindMany ==
  /\ stage = "paging" /\ found = Unknown
  /\ found' = Ids({i \in Listing : Skip < Place(i) /\ Place(i) <= Skip + list.limit})
  /\ UNCHANGED <<list, table, used, stage, page, total, seen, owed, excused>>

Count ==
  /\ stage = "paging" /\ total = Unknown
  /\ total' = Cardinality(Matches)
  /\ UNCHANGED <<list, table, used, stage, page, found, seen, owed, excused>>

(* The answer; the client goes on up to the totalPages it carries. *)
Show ==
  /\ found # Unknown /\ total # Unknown
  /\ seen' = seen \cup found
  /\ IF page < TotalPages THEN page' = page + 1 /\ stage' = stage
                          ELSE page' = page /\ stage' = "done"
  /\ found' = Unknown /\ total' = Unknown
  /\ UNCHANGED <<list, table, used, owed, excused>>

(* A total that was counted before a row arrived, and will end the paging  *)
(* with a page that is read after it.                                      *)
Outdated == stage = "paging" /\ found = Unknown /\ total # Unknown /\ page >= TotalPages

(* The table is followed until the client has paged to the end. *)
Disturb(moved) ==
  /\ stage # "done"
  /\ excused' = (excused \/ (stage = "paging" /\ moved))

Create(id, open, mine) ==
  LET row == [id |-> id, open |-> open, mine |-> mine]
  IN /\ id \notin used
     /\ open \/ list.kind \in {"restaurants", "meals"}
     /\ mine => list.kind \in {"restaurants", "orders"}
     /\ used' = used \cup {id}
     /\ table' = Append(table, row)
     /\ Disturb(Listed(row) /\ Outdated)
     /\ UNCHANGED <<list, stage, page, found, total, seen, owed>>

(* An edit moves the row to the end of a table that is sorted by updatedAt; *)
(* only restaurants and meals are ever hidden and shown.                    *)
Edit(i, open) ==
  LET row == [table[i] EXCEPT !.open = open]
      moves == list.sortBy = "updatedAt"
      leaves == Listed(table[i]) /\ ~Listed(row)
      arrives == Listed(row) /\ (moves \/ ~Listed(table[i]))
  IN /\ open = table[i].open \/ list.kind \in {"restaurants", "meals"}
     /\ table' = IF moves THEN Append(RemoveAt(table, i), row) ELSE [table EXCEPT ![i] = row]
     /\ owed' = IF moves \/ leaves THEN owed \ {row.id} ELSE owed
     /\ Disturb(\/ leaves
                \/ Listed(table[i]) /\ moves /\ list.sortOrder = "asc"
                \/ arrives /\ Outdated)
     /\ UNCHANGED <<list, used, stage, page, found, total, seen>>

(* No operation deletes an order. *)
Delete(i) ==
  /\ list.kind # "orders"
  /\ table' = RemoveAt(table, i)
  /\ owed' = owed \ {table[i].id}
  /\ Disturb(Listed(table[i]))
  /\ UNCHANGED <<list, used, stage, page, found, total, seen>>

BrowsingNext ==
  \/ Begin \/ FindMany \/ Count \/ Show
  \/ \E id \in Rows, open, mine \in BOOLEAN : Create(id, open, mine)
  \/ \E i \in DOMAIN table, open \in BOOLEAN : Edit(i, open)
  \/ \E i \in DOMAIN table : Delete(i)

BrowsingSpec == BrowsingInit /\ [][BrowsingNext]_browsingVars

-----------------------------------------------------------------------------
(* The fields of an answer, for the fields that were asked for. *)
Selected(fields) == IF fields = {} THEN {"id", "isBlocked"} ELSE fields \cup {"id"}

(* What a viewer who knows the id may read, having asked for the fields.   *)
(* Only the isBlocked field tells that a restaurant is blocked; a meal, a  *)
(* coupon and a user are not looked at.                                    *)
ReadableRestaurant(row, fields) ==
  list.role = "CUSTOMER" /\ "isBlocked" \in Selected(fields) => row.open

(* Mutant: the owner of another restaurant is not refused. *)
ReadableOrder_AnyOwner(row) == list.role = "CUSTOMER" => row.mine

ReadableOrder(row) ==
  /\ list.role = "CUSTOMER" => row.mine
  /\ list.role = "RESTAURANT_OWNER" => row.mine

Readable(row, fields) ==
  /\ list.kind = "restaurants" => ReadableRestaurant(row, fields)
  /\ list.kind = "orders" => ReadableOrder(row)

Row == [id : Rows, open : BOOLEAN, mine : BOOLEAN]

(* Every variable has the shape the code's rows and answers have, ids are  *)
(* unique, and a page holds no more rows than its limit.                   *)
BrowsingTypeOK ==
  /\ list.limit \in 1..MaxLimit
  /\ table \in Seq(Row)
  /\ \A i, j \in DOMAIN table : table[i].id = table[j].id => i = j
  /\ used \subseteq Rows /\ Ids(DOMAIN table) \subseteq used
  /\ stage \in {"before", "paging", "done"}
  /\ page \in Nat \ {0}
  /\ found # Unknown => found \subseteq used /\ Cardinality(found) <= list.limit
  /\ total # Unknown => total \in Nat
  /\ seen \subseteq used /\ owed \subseteq Ids(DOMAIN table)
  /\ excused \in BOOLEAN

(* A client that pages to the end is shown every row that was listed when  *)
(* it began and not edited meanwhile, whatever else is created or shown:   *)
(* pages do not survive a listed row that leaves or moves behind others,   *)
(* nor one that arrives between the count and the read of the last page.   *)
NothingMissed == stage = "done" /\ ~excused => owed \subseteq seen

(* Rows that the get functions show by their id and the lists leave out:   *)
(* meals off the menu, blocked restaurants to the owners of others, and to *)
(* customers who do not select isBlocked.                                  *)
OnlyById(fields) ==
  \/ list.kind = "meals"
  \/ /\ list.kind = "restaurants"
     /\ list.role = "RESTAURANT_OWNER" \/ "isBlocked" \notin Selected(fields)

(* The where clause of a list and the check on a single row, written apart *)
(* for each kind, agree: what is listed can be read by its id, whichever   *)
(* fields are selected, and what can be read is listed but for the cases   *)
(* of OnlyById.                                                            *)
ListAndReadAgree ==
  \A row \in Range(table), fields \in SUBSET {"id", "isBlocked"} :
    /\ Listed(row) => Readable(row, fields)
    /\ Readable(row, fields) => Listed(row) \/ OnlyById(fields)
=============================================================================

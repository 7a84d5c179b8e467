----------------------------- MODULE LedgerViews -----------------------------
(***************************************************************************)
(* What the program shows of the ledger: the balance, the dashboard, the   *)
(* tree of the stock, the cables, the search, the card of a position with  *)
(* its history, the list of write-offs, what went into an equipment, the   *)
(* events of the reports, the problems of the data and the comparison with *)
(* a scan. Each is a query of its own over the same three tables, with its *)
(* own grouping and its own way to the quantities; none takes a lock, so   *)
(* all see the committed image.                                            *)
(***************************************************************************)
EXTENDS WarehouseLedger

\* Rows of stock_issue_allocations, joined by card or by issue.
Allocated(d, c) == Total([i \in DOMAIN d.issues |-> d.issues[i].parts[c]])
Matched(d, i) == Total([c \in DOMAIN d.cards |-> d.issues[i].parts[c]])

Left(d, c) == d.cards[c].quantity - Allocated(d, c)
LeftOf(d, lots) == Total([c \in lots |-> Left(d, c)])

-----------------------------------------------------------------------------
(* The balance: lots grouped into positions, whatever their shelf. *)

Key(card) ==
  [serial |-> card.serial, inventory |-> card.inventory, kind |-> card.kind,
   item |-> card.item]

Positions(d) == {Key(d.cards[c]) : c \in DOMAIN d.cards}

stock_balance(d) ==
  [k \in Positions(d) |-> LeftOf(d, {c \in DOMAIN d.cards : Key(d.cards[c]) = k})]

Positive(d) == {k \in Positions(d) : stock_balance(d)[k] > 0}

InPositions(d, S) == Total([k \in S |-> stock_balance(d)[k]])

\* Mutant: the total of the write-offs is taken for what left the stock.
dashboard_by_issues(d) ==
  [balance   |-> Total([c \in DOMAIN d.cards |-> d.cards[c].quantity])
                   - Total([i \in DOMAIN d.issues |-> d.issues[i].quantity]),
   positions |-> Cardinality(Positive(d)),
   equipment |-> InPositions(d, {k \in Positive(d) : k.kind # "cable"}),
   cables    |-> InPositions(d, {k \in Positive(d) : k.kind = "cable"})]

\* The balance is a difference of two totals over whole tables.
dashboard_stats(d) ==
  [balance   |-> Total([c \in DOMAIN d.cards |-> d.cards[c].quantity])
                   - Total([i \in DOMAIN d.issues |-> Total(d.issues[i].parts)]),
   positions |-> Cardinality(Positive(d)),
   equipment |-> InPositions(d, {k \in Positive(d) : k.kind # "cable"}),
   cables    |-> InPositions(d, {k \in Positive(d) : k.kind = "cable"})]

warehouse_type_summary(d) ==
  [t \in {k.kind : k \in Positive(d)} |->
     LET group == {k \in Positive(d) : k.kind = t}
     IN [positions |-> Cardinality(group), quantity |-> InPositions(d, group)]]

\* The first level of the tree, without a filter or for positions in stock.
stock_tree(d, state) ==
  LET filtered == IF state = "positive" THEN Positive(d) ELSE Positions(d)
  IN [t \in {k.kind : k \in filtered} |->
        LET group == {k \in filtered : k.kind = t}
        IN [positions |-> Cardinality(group), available |-> InPositions(d, group)]]

\* Cables by item, whatever S/N or number their cards carry.
cable_balance(d) ==
  LET cables == {c \in DOMAIN d.cards : d.cards[c].kind = "cable"}
  IN [i \in {d.cards[c].item : c \in cables} |->
        LeftOf(d, {c \in cables : d.cards[c].item = i})]

cable_items(d) == {i \in DOMAIN cable_balance(d) : cable_balance(d)[i] > 0}

\* The totals of the first page: every lot, also of positions with nothing left.
warehouse_categories(d) ==
  [t \in Kinds |-> LeftOf(d, {c \in DOMAIN d.cards : d.cards[c].kind = t})]

-----------------------------------------------------------------------------
(* The group of a card by its type. The program has the rule three times: in   *)
(* Python for one card, in SQL for the balance and in SQL for the tree.        *)

ItemTypes == {"", "transceiver", "memory", "drive", "adapter", "accessory", "other", "named"}
CableTypes == {"", "assembly", "cable"}

TypeGroup ==
  [transceiver |-> "transceivers", memory |-> "memory", drive |-> "drives",
   adapter |-> "adapters", accessory |-> "other"]

\* The component's type speaks before the equipment's; a type outside the named
\* groups is a component's or an equipment's, and "other" stands for none.
operational_category(equipment, component, cable) ==
  LET item == IF component # "" THEN component ELSE equipment
  IN IF cable # "" THEN IF cable = "assembly" THEN "assemblies" ELSE "cables"
     ELSE IF item \in DOMAIN TypeGroup THEN TypeGroup[item]
     ELSE IF component # "" THEN IF component = "other" THEN "other" ELSE "components"
     ELSE IF equipment \in {"", "other"} THEN "other" ELSE "equipment"

\* The CASE of the queries, arm by arm: the first that fits.
category_sql(equipment, component, cable) ==
  LET item == IF component # "" THEN component ELSE equipment
      arms == <<<<cable = "assembly", "assemblies">>, <<cable # "", "cables">>,
                <<item = "transceiver", "transceivers">>, <<item = "memory", "memory">>,
                <<item = "drive", "drives">>, <<item = "adapter", "adapters">>,
                <<item = "accessory", "other">>, <<component = "other", "other">>,
                <<component # "", "components">>, <<equipment = "other", "other">>,
                <<equipment # "", "equipment">>, <<TRUE, "other">>>>
  IN arms[Min({i \in DOMAIN arms : arms[i][1]})][2]

-----------------------------------------------------------------------------
(* The card of a position: by S/N, by cable item or by id. *)

LotsOfItem(d, i) == {c \in DOMAIN d.cards : d.cards[c].serial = NoSerial
                                            /\ d.cards[c].item = i}

\* One row per write-off: how much of it the allocations account for.
list_rows(d) ==
  [i \in DOMAIN d.issues |->
     [unmatched |-> IF d.issues[i].quantity > Matched(d, i)
                    THEN d.issues[i].quantity - Matched(d, i) ELSE 0,
      status    |-> IF d.issues[i].quantity > Matched(d, i)
                    THEN "not matched" ELSE "posted"]]

\* Components written off to an equipment; one that was never in stock counts
\* with the quantity of the row.
LinkedQuantity(d, i) == IF Matched(d, i) > 0 THEN Matched(d, i) ELSE d.issues[i].quantity

for_target(d, s) ==
  LET operations == {i \in DOMAIN d.issues : s # NoSerial /\ d.issues[i].target = s}
  IN [operations |-> operations,
      quantity   |-> Total([i \in operations |-> LinkedQuantity(d, i)])]

\* Receipts come in, allocations of these receipts go out, and what was written
\* off to the equipment is told beside them.
History(d, lots, target) ==
  {[event |-> "receipt", of |-> c, quantity |-> d.cards[c].quantity] : c \in lots}
  \cup {[event |-> "issue", of |-> x, quantity |-> -d.issues[x[1]].parts[x[2]]] :
          x \in {y \in (DOMAIN d.issues) \X lots : d.issues[y[1]].parts[y[2]] > 0}}
  \cup {[event |-> "component", of |-> i, quantity |-> LinkedQuantity(d, i)] :
          i \in for_target(d, target).operations}

position_card(d, lots) ==
  LET target == IF lots = {} THEN NoSerial ELSE d.cards[Min(lots)].serial
  IN [balance |-> LeftOf(d, lots),
      status  |-> IF LeftOf(d, lots) > 0 THEN "in stock" ELSE "written off",
      history |-> History(d, lots, target)]

\* What the balance and the search hand out to open a card with.
position_key(card) ==
  IF card.serial # NoSerial THEN <<"sn", card.serial>> ELSE <<"cable", card.item>>

lots_of_key(d, key) ==
  IF key[1] = "sn" THEN WithSerial(d, key[2]) ELSE LotsOfItem(d, key[2])

\* A scanned identifier is looked up first; only when it is nobody's, the text
\* of the cards and the write-offs to an equipment are searched.
exact_identifiers(d, query) == WithSerial(d, query) \cup WithInventory(d, query)

mentioned(d, query) ==
  {c \in DOMAIN d.cards :
     query \in {d.cards[c].serial, d.cards[c].inventory, d.cards[c].item, d.cards[c].place}}

global_search(d, query) ==
  IF exact_identifiers(d, query) # {}
  THEN exact_identifiers(d, query)
  ELSE mentioned(d, query)

\* The story of the whole warehouse: one row per receipt and per write-off.
warehouse_history(d) ==
  {[event |-> "receipt", of |-> c, quantity |-> d.cards[c].quantity] : c \in DOMAIN d.cards}
  \cup {[event |-> "issue", of |-> i, quantity |-> d.issues[i].quantity] : i \in DOMAIN d.issues}

-----------------------------------------------------------------------------
(* What is wrong with the data. *)

unmatched_issues(d) == {i \in DOMAIN d.issues : d.issues[i].quantity - Matched(d, i) > 0}

duplicate_serials(d) == {s \in Serials : Cardinality(WithSerial(d, s)) > 1}

negative_balances(d) == {k \in Positions(d) : stock_balance(d)[k] < 0}

incomplete_rows(d) == {c \in DOMAIN d.cards : d.cards[c].place = NoPlace}

\* The lists of a report's period; a card without a date is in no period that
\* has a beginning.
data_quality_problems(d, from, to) ==
  [unmatched  |-> unmatched_issues(d),
   duplicates |-> duplicate_serials(d),
   negative   |-> negative_balances(d),
   incomplete |-> {c \in incomplete_rows(d) :
                     /\ from # NoDate => d.cards[c].date >= from
                     /\ to # NoDate => d.cards[c].date <= to}]

data_quality_problem_counts(d) ==
  [unmatched  |-> Cardinality(unmatched_issues(d)),
   duplicates |-> Cardinality(duplicate_serials(d)),
   negative   |-> Cardinality(negative_balances(d)),
   incomplete |-> Cardinality(incomplete_rows(d))]

\* The page of the problems shows a duplicate S/N with all its cards, and counts
\* it once.
data_quality_summary(d) ==
  [duplicates |-> UNION {WithSerial(d, s) : s \in duplicate_serials(d)},
   counts     |-> data_quality_problem_counts(d)]

\* A receipt without a date is in no period.
receipt_events(d) ==
  {[card |-> c, type |-> IF d.cards[c].kind = "cable" THEN "CABLE_RECEIVED"
                         ELSE "RECEIPT_CREATED"] :
     c \in {x \in DOMAIN d.cards : d.cards[x].date # NoDate}}

issue_events(d) ==
  {[issue |-> i, quantity |-> d.issues[i].quantity,
    parts |-> {c \in DOMAIN d.cards : d.issues[i].parts[c] > 0}] : i \in DOMAIN d.issues}

\* Scanned S/N against those with stock.
inventory_compare(d, scanned) ==
  LET inStock == {k.serial : k \in Positive(d)} \ {NoSerial}
  IN [found     |-> scanned \cap inStock,
      not_found |-> scanned \ inStock,
      missing   |-> inStock \ scanned]
-----------------------------------------------------------------------------
(* Properties. *)

Told(history, events) == Total([h \in {x \in history : x.event \in events} |-> h.quantity])

CategoryTotal(tree) == Total([t \in DOMAIN tree |-> tree[t].available])

\* The aggregate of a card is the sum of its allocation rows; a write-off is
\* covered by allocations in full or, for a problem row, not at all.
BalancedIn(d) ==
  /\ \A c \in CardIds :
       d.taken[c] = Allocated(d, c)
  /\ \A i \in DOMAIN d.issues :
       Total(d.issues[i].parts) =
         IF d.issues[i].status = "matched" THEN d.issues[i].quantity ELSE 0

\* Every screen tells the same stock, however it gets there: the dashboard, the
\* positions, their types and categories, the tree with and without empty
\* positions, the cables, and the history of the whole warehouse once what was
\* never in stock is taken out of it. The key of a position opens a card whose
\* balance is that of the positions with this key, whose receipts and write-offs
\* add up to it, and which tells every component written off to it. A scan finds
\* an S/N exactly when its card is in stock and a write-off finds a lot of it; a
\* write-off is posted exactly when stock_issues calls it matched.
OnePictureOfStock ==
  LET d == db
      board == dashboard_stats(d)
      types == warehouse_type_summary(d)
      Shown(lots) == position_card(d, lots)
  IN /\ BalancedIn(d)
     /\ board.balance = InPositions(d, Positions(d))
     /\ board.balance = board.equipment + board.cables
     /\ board.balance = Total([t \in DOMAIN types |-> types[t].quantity])
     /\ board.positions = Total([t \in DOMAIN types |-> types[t].positions])
     /\ board.balance = CategoryTotal(stock_tree(d, "any"))
     /\ board.balance = CategoryTotal(stock_tree(d, "positive"))
     /\ board.cables = Total(cable_balance(d))
     /\ board.balance = Total(warehouse_categories(d))
     /\ board.balance = Told(warehouse_history(d), {"receipt"})
                          - Told(warehouse_history(d), {"issue"})
                          + Total([i \in DOMAIN d.issues |-> list_rows(d)[i].unmatched])
     /\ \A c \in DOMAIN d.cards :
          LET key == position_key(d.cards[c])
          IN /\ Told(Shown({c}).history, {"receipt", "issue"}) = Shown({c}).balance
             /\ Shown({c}).balance \in 0..d.cards[c].quantity
             /\ c \in lots_of_key(d, key)
             /\ Shown(lots_of_key(d, key)).balance =
                  InPositions(d, {k \in Positions(d) : position_key(k) = key})
     /\ \A s \in Serials :
          LET seen == inventory_compare(d, {s})
              card == Shown(WithSerial(d, s))
          IN /\ WithSerial(d, s) # {} =>
                  /\ Told(card.history, {"component"}) = for_target(d, s).quantity
                  /\ global_search(d, s) = lots_of_key(d, <<"sn", s>>) \cup WithInventory(d, s)
             /\ (seen.found = {s}) = (Shown(WithSerial(d, s)).status = "in stock")
             /\ (seen.found = {s}) = (AvailableBySerial(d, s) # {})
             /\ for_target(d, s).quantity =
                  Total([e \in {x \in issue_events(d) : d.issues[x.issue].target = s}
                           |-> e.quantity])
     /\ \A i \in DOMAIN d.issues :
          (list_rows(d)[i].status = "posted") = (d.issues[i].status = "matched")

\* The lists of problems are true: no position is below zero; the unmatched rows
\* are those kept as problems; an S/N is listed as a duplicate exactly when the
\* editor of cards refuses it for that; two reports that meet miss no card.
ProblemsAreReal ==
  LET d == db
      all == data_quality_problems(d, NoDate, NoDate)
      summary == data_quality_summary(d)
  IN /\ all.negative = {}
     /\ all.unmatched = {i \in DOMAIN d.issues : d.issues[i].status = "unmatched"}
     /\ \A s \in Serials :
          s \in all.duplicates <=> WithSerial(d, s) # {} /\ ~CanUpdate(d, s)
     /\ Cardinality(summary.duplicates) >= 2 * summary.counts.duplicates
     /\ all.incomplete = data_quality_problems(d, NoDate, 1).incomplete
                            \cup data_quality_problems(d, 2, NoDate).incomplete

\* A card is in one group, whichever of the rules places it.
GroupsAgree ==
  \A e, c \in ItemTypes, k \in CableTypes :
    operational_category(e, c, k) = category_sql(e, c, k)

\* Whatever is in stock can leave it: by its S/N, to an equipment if it is a
\* component and there is one, or by its item if it is a cable; also after its
\* type was edited, and every cable that the list of cables offers.
NoStockIsStuck ==
  LET One(s, i, t) == [serial |-> s, item |-> i, place |-> NoPlace, target |-> t,
                       task |-> TRUE, quantity |-> 1]
      HasTarget(s) == \E t \in Serials \ {s} : IsTargetEquipment(db, t)
  IN /\ \A c \in DOMAIN db.cards :
          Available(db, c) > 0 /\ db.cards[c].serial # NoSerial
            /\ HasTarget(db.cards[c].serial) =>
              \/ \E t \in Serials \cup {NoSerial} :
                   CanIssue(db, One(db.cards[c].serial, NoItem, t))
              \/ CanIssueCable(db, One(NoSerial, db.cards[c].item, NoSerial))
     /\ \A i \in cable_items(db) :
          CanIssueCable(db, [One(NoSerial, i, NoSerial) EXCEPT !.quantity = cable_balance(db)[i]])

\* The stock that the screens show is one, its problems are real, and none of it
\* is stuck.
StockIsOneAndMoves == GroupsAgree /\ OnePictureOfStock /\ ProblemsAreReal /\ NoStockIsStuck
=============================================================================

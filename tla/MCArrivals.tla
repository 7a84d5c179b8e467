---------------------------- MODULE MCArrivals -------------------------------
(* What comes into the warehouse from documents: instances of Deliveries and of the
   stages of the migration for TLC, next to each other. *)
EXTENDS FullReview, PilotMigration, OfflineBuild, CandidateStaging, MCDeliveries

MCTexts == {"012", "a1", "A1", "12", "0", " "}
MCMatch == [t \in MCTexts |-> CASE t \in {"a1", "A1"} -> "a1" [] t = " " -> Blank [] OTHER -> t]
MCTokens == {"12", "1.2E1", "1.5", "0"}
MCForm == [t \in MCTokens |->
            CASE t = "1.5" -> "broken" [] t = "1.2E1" -> "exponent" [] OTHER -> "integer"]
MCDigits == [t \in MCTokens |-> CASE t = "1.2E1" -> "12" [] OTHER -> t]
MCZeroed == {"012", "0"}
MCFields == {"vendor"}

Cell(type, value, zeros) == [type |-> type, value |-> value, zeros |-> zeros]
Text(t) == Cell("text", t, FALSE)
Number(t) == Cell("number", t, FALSE)
NoCell == Cell("empty", "", FALSE)
Odd == {Text(" "), Number("1.5"), Cell("number", "12", TRUE), NoCell,
        Cell("formula", "a1", FALSE), Cell("other", "a1", FALSE)}

SheetRow(cell, date, vendor, quantity) ==
  [cell |-> cell, target |-> NoCell, date |-> date, attrs |-> [f \in {"vendor"} |-> vendor],
   quantity |-> quantity, bulk |-> FALSE, note |-> ""]
Plain(cell) == SheetRow(cell, 1, Blank, "1")
Into(cell, into) == [Plain(cell) EXCEPT !.target = into]

\* Rows of one card that differ in date, vendor, spelling and note.
Spread ==
  {SheetRow(Text("a1"), d, v, "1") : d \in {0, 1}, v \in {Blank, "x", "y"}}
    \cup {SheetRow(Text("A1"), 1, "x", "1"), [SheetRow(Text("a1"), 1, "x", "1") EXCEPT !.note = "n"]}
\* Rows of several cards, and rows that stand for no card.
Mixed ==
  {Plain(Text("012")), Plain(Text("12")), Plain(Number("12")), Plain(Cell("number", "1.2E1", TRUE)),
   Plain(Text("0")), SheetRow(Text("a1"), 1, "x", "2"), SheetRow(Text("a1"), 1, "x", ""),
   [Plain(Text("a1")) EXCEPT !.bulk = TRUE]}
    \cup {Plain(c) : c \in Odd}
Issued ==
  {Plain(Text("012")), Plain(Number("12")), Into(Text("012"), Text("a1")), Into(Text("a1"), Text("012")),
   Into(Text("A1"), Number("1.2E1")), SheetRow(Text("12"), 0, Blank, ""), SheetRow(Text("a1"), 1, "x", "2"),
   [Plain(Text("12")) EXCEPT !.bulk = TRUE], Plain(Number("0"))}
    \cup {Plain(c) : c \in Odd}

UpTo(S, n) == UNION {[1 .. k -> S] : k \in 0 .. n}
MCBooks ==
  {[s \in {"RECEIPT", "ISSUE"} |-> IF s = "RECEIPT" THEN b[1] ELSE b[2]] :
     b \in (UpTo(Spread, 3) \X {<<>>, <<Plain(Text("a1")), Plain(Text("A1"))>>})
             \cup (UpTo(Mixed, 2) \X {<<i>> : i \in Issued})
             \cup ({<<Plain(Text("012"))>>, <<Plain(Text("a1")), Plain(Number("12"))>>}
                     \X UpTo(Issued, 3))}
MCTestSerials == {"1.2E1"}

-----------------------------------------------------------------------------
(* The sheets of the pilot: one that meets every quota, with one or two rows changed. *)

PlainRow(serial, vendor, model) ==
  [serial |-> serial, status |-> "TEXT_EXACT", notSerial |-> FALSE, manual |-> FALSE, units |-> 1,
   kind |-> "equipment", vendor |-> vendor, model |-> model, supplied |-> TRUE, part |-> "",
   item |-> "x", shelf |-> "s1", warned |-> FALSE,
   date |-> [type |-> "n", dated |-> TRUE, value |-> 5, iso |-> FALSE]]
Flawed(row) == {[row EXCEPT !.notSerial = TRUE], [row EXCEPT !.manual = TRUE], [row EXCEPT !.units = 2],
               [row EXCEPT !.date.type = "s"]}
Zero == [PlainRow("01", "dell", "m") EXCEPT !.kind = "component", !.shelf = ""]
Single == PlainRow("u1", "Yadro", "r220")
C1 == PlainRow("c1", "Yadro", "r220")
C2 == [PlainRow("C1", "xfusion", "m") EXCEPT !.shelf = "s2"]
E1 == PlainRow("e1", "dell", "m")
H1 == PlainRow("h1", "dell", "m")
Unk == PlainRow("k1", "dell", "unknown")
Base == <<C1, C2, E1, E1, H1, [H1 EXCEPT !.shelf = "s2"],
  [Single EXCEPT !.status = "SOURCE_CORRUPTED"], [Single EXCEPT !.status = "NUMERIC_FORMAT_UNPROVEN"],
  [PlainRow("q1","dell","m") EXCEPT !.notSerial = TRUE], Unk, Zero, Single, PlainRow("v1", "huawei", "m")>>
Changes ==
  ({1} \X ({[C1 EXCEPT !.shelf = "s2"]} \cup Flawed(C1)))
    \cup ({2} \X ({[C2 EXCEPT !.shelf = "s1"], C1} \cup Flawed(C2)))
    \cup ({3} \X Flawed(E1)) \cup ({4} \X {H1, C1, [E1 EXCEPT !.notSerial = TRUE]})
    \cup ({6} \X ({[H1 EXCEPT !.vendor = "xfusion"], H1} \cup Flawed(H1)))
    \cup ({7, 8, 9, 10} \X {PlainRow("k2", "dell", "m")})
    \cup ({12, 13} \X ({PlainRow("v1", "xfusion", "m"), C2, [Zero EXCEPT !.serial = "02"], E1, H1}
                         \cup Flawed(Single)))
Changed(sh, c) == [sh EXCEPT ![c[1]] = c[2]]
Orders == {[i \in 1 .. 13 |-> 14 - i], [i \in 1 .. 13 |-> (5 * i) % 13]}
MCSheets ==
  {[rows |-> Changed(Changed(Base, c), d), rank |-> o] : c \in Changes, d \in Changes, o \in Orders}
MCNeed ==
  [conflict |-> 1, exact |-> 1, history |-> 1, damaged |-> 1, numeric |-> 1, quantity |-> 1,
   manual |-> 1, imports |-> 6, vendors |-> 1, named |-> {"dell", "huawei", "xfusion"},
   zero |-> 1, component |-> 1, shelfless |-> 1, ordinary |-> 2]
MCKey ==
  [s \in {"c1", "C1", "e1", "h1", "k1", "k2", "01", "02", "u1", "v1", "q1"} |->
     IF s = "C1" THEN "c1" ELSE s]
MCVendors == [s \in {"Yadro", "dell", "huawei", "xfusion"} |-> IF s = "Yadro" THEN "yadro" ELSE s]
MCModels ==
  [p \in {<<"yadro", "r220">>, <<"dell", "m">>, <<"huawei", "m">>, <<"xfusion", "m">>} |-> p[2]]

-----------------------------------------------------------------------------
(* The candidate: two vendors with models of one label, spelled in two ways. *)

MCFold == [n \in {Blank, "Dell", "DELL", "dell", "HP", "hp", "R7", "r7", "ssd", "SSD", "ram", "memory", "P1"} |->
  CASE n \in {"Dell", "DELL", "dell"} -> "dell" [] n \in {"HP", "hp"} -> "hp" [] n \in {"R7", "r7"} -> "r7"
    [] n \in {"ssd", "SSD"} -> "ssd" [] n = "P1" -> "p1" [] OTHER -> n]
MCDomains == {"vendor", "model", "catalog_item", "component_type"}
MCSeeded == {<<"vendor", "hp">>, <<"component_type", "ssd">>, <<"component_type", "memory">>}
MCMeaning == [m \in {<<"component_type", "ssd">>, <<"component_type", "ram">>} |->
                IF m[2] = "ram" THEN "memory" ELSE "ssd"]

Reviewed(domain, text, proposed) ==
  [domain |-> domain, text |-> text, proposed |-> proposed, corrupted |-> FALSE,
   conflict |-> FALSE, sheet |-> "RECEIPT", count |-> 1]
MCReviews ==
  {Reviewed("vendor", "Dell", Blank), Reviewed("vendor", "DELL", "Dell"), Reviewed("vendor", "HP", Blank),
   [Reviewed("vendor", "HP", "Dell") EXCEPT !.conflict = TRUE], [Reviewed("vendor", "Dell", Blank) EXCEPT !.count = 2],
   Reviewed("component_type", "ram", Blank), Reviewed("component_type", "SSD", Blank),
   Reviewed("vendor", Blank, Blank), Reviewed("model", "R7", Blank), Reviewed("rack", "R7", Blank),
   [Reviewed("vendor", "HP", Blank) EXCEPT !.corrupted = TRUE]}

Staged(cell, vendor, model) ==
  [cell |-> cell, target |-> NoCell, vendor |-> vendor, model |-> model, item |-> "ram",
   kind |-> "server", part |-> [text |-> Blank, numeric |-> FALSE]]
OfPart(row, text, numeric) == [row EXCEPT !.part = [text |-> text, numeric |-> numeric]]
MCReceipts ==
  {Staged(Text("a1"), "Dell", "R7"), [Staged(Text("A1"), "DELL", "r7") EXCEPT !.item = "SSD"],
   Staged(Number("12"), "HP", "R7"), Staged(Number("1.5"), "Dell", Blank),
   OfPart(Staged(NoCell, "HP", Blank), "P1", FALSE), OfPart(Staged(Text("012"), "HP", "P1"), "P1", FALSE),
   OfPart(Staged(Text(" "), "HP", Blank), "P1", TRUE), [Staged(Text("0"), "HP", "r7") EXCEPT !.kind = Blank]}
MCIssues == {[Staged(c, Blank, Blank) EXCEPT !.target = t] : c \in {Text("a1"), Number("1.5")},
               t \in {NoCell, Number("12"), Text("0")}}

MCInputs ==
  LET Book3(reviews, receipts, moves) ==
        {[x \in {"review", "RECEIPT", "ISSUE"} |->
            CASE x = "review" -> i[1] [] x = "RECEIPT" -> i[2] [] OTHER -> i[3]] :
           i \in reviews \X receipts \X moves}
  IN  Book3(UpTo(MCReviews, 2), {<<Staged(Text("a1"), "Dell", "R7"), Staged(Text("12"), "HP", "R7")>>}, {<<>>})
        \cup Book3({<<>>, <<Reviewed("vendor", "Dell", Blank)>>, <<Reviewed("vendor", "DELL", Blank)>>},
                UpTo(MCReceipts, 3), {<<>>})
        \cup Book3({<<>>}, UpTo(MCReceipts, 1), UpTo(MCIssues, 2))

-----------------------------------------------------------------------------
VARIABLE part

MCInit ==
  /\ part \in {"deliveries", "full", "pilot", "build", "staging"}
  /\ Init /\ (part # "deliveries" => Len(db.cards) = 1) /\ InitBuild
  /\ IF part = "full" THEN InitFull ELSE book = [s \in Sheets |-> <<>>] /\ at = "refused" /\ EmptyTables
  /\ IF part = "staging" THEN InitStaging
     ELSE /\ input = <<>> /\ phase = "none" /\ values = {} /\ aliases = {} /\ open = <<>>
          /\ staged = <<>> /\ usage = EmptyBag /\ catalog = <<>> /\ items = {}
  /\ IF part = "pilot" THEN InitPilot
     ELSE /\ sheet = [rows |-> <<>>, rank |-> <<>>] /\ step = "refused" /\ chosen = <<>>
          /\ target = <<>> /\ stock = <<>> /\ isolated = {} /\ audits = <<>> /\ stamp = NoRow

\* A second document comes before or after the preview of the first, not beside it;
\* the pilot and the full candidate, which share no output, are not built at once, and
\* no source changes twice. The review of the S/N, which no comparison looks at beside
\* another source, changes alone.
FewDocuments == Len(db'.docs) + Cardinality(previews') <= 2
FewBuilds ==
  /\ NoBuild \in {builder'["pilot"], builder'["full"]}
  /\ \A x \in {"raw", "review", "serialReview", "working"} : source'[x] < 2
  /\ source'.serialReview = 1 => source'.edits = 1

MCNext ==
  /\ UNCHANGED part
  /\ \/ part = "deliveries" /\ Next /\ FewDocuments /\ UNCHANGED <<fullVars, pilotVars, buildVars, stagingVars>>
     \/ part = "full" /\ NextFull /\ UNCHANGED <<pilotVars, buildVars, stagingVars, vars>>
     \/ part = "pilot" /\ NextPilot /\ UNCHANGED <<fullVars, buildVars, stagingVars, vars>>
     \/ part = "build" /\ NextBuild /\ FewBuilds /\ UNCHANGED <<fullVars, pilotVars, stagingVars, vars>>
     \/ part = "staging" /\ NextStaging /\ UNCHANGED <<fullVars, pilotVars, buildVars, vars>>

MCSpec == MCInit /\ [][MCNext]_<<vars, fullVars, pilotVars, buildVars, stagingVars, part>>
=============================================================================

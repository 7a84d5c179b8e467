--------------------------- MODULE MCInventoryCalm ---------------------------
(* The sessions of FullInventory while no summary meets a journal, and, next to
   them, what one session counts: five workbooks of two rows. *)
EXTENDS MCFullInventory, CandidateRehearsal

\* A server, s/n sn1, and what the rows of the workbooks have instead.
ServerRow ==
  ("RowId" :> "1") @@ ("ItemKind" :> "SERIALIZED") @@ ("WarehouseCode" :> "IX") @@
  ("LocationCode" :> "shelf1") @@ ("SerialNumber" :> "sn1") @@ ("InventoryNumber" :> "") @@
  ("PartNumber" :> "p1") @@ ("Vendor" :> "acme") @@ ("Model" :> "") @@
  ("Description" :> "server") @@ ("Quantity" :> "1") @@ ("UOM" :> "pcs") @@ ("Condition" :> "AVAILABLE")
RowWith(changes) == [cells |-> changes @@ ServerRow, flawed |-> FALSE, formula |-> {}, loose |-> {}]
BulkRow == ("RowId" :> "2") @@ ("ItemKind" :> "BULK") @@ ("SerialNumber" :> "") @@ ("Quantity" :> "2.5")
\* One server counted twice; a serial number that is a formula; bulk stock counted in
\* two rows; an inventory number given twice, not as text, in an unknown place; a
\* vendor spelled in two ways.
Twice == <<RowWith(<<>>), RowWith(("RowId" :> "2") @@ ("SerialNumber" :> "SN1"))>>
Formula == <<[RowWith(<<>>) EXCEPT !.formula = {"SerialNumber"}],
             RowWith(BulkRow @@ ("UOM" :> "m") @@ ("PartNumber" :> "p2"))>>
Split == <<RowWith(BulkRow @@ ("Quantity" :> "1")), RowWith(BulkRow @@ ("RowId" :> "1") @@ ("Quantity" :> "1"))>>
Numbered == <<RowWith("InventoryNumber" :> "i1"),
  [RowWith(("RowId" :> "2") @@ ("SerialNumber" :> "sn2") @@ ("InventoryNumber" :> "i1") @@ ("LocationCode" :> "shelf2"))
     EXCEPT !.loose = {"InventoryNumber"}]>>
Spelled == <<RowWith(<<>>), RowWith(BulkRow @@ ("UOM" :> "m") @@ ("Vendor" :> "ACME") @@ ("PartNumber" :> "p2"))>>
MCSheets == {Twice, Formula, Split, Numbered, Spelled}
Decision(n, action, field, value) ==
  [row |-> n, action |-> action, field |-> field, value |-> value, supersedes |-> 0]
CatalogItem(n) == Decision(n, "CHOOSE_CATALOG_ITEM", "", "")
NewEquipment(n) == Decision(n, "CREATE_NEW_EQUIPMENT_CANDIDATE", "", "")
Correct(n, field, value) == Decision(n, "CORRECT_VALUE", field, value)
Clean(n) == <<CatalogItem(n), NewEquipment(n)>>
MCRoutine == [s \in MCSheets |->
  CASE s = Formula -> Clean(2) [] s \in {Twice, Numbered} -> Clean(1) [] OTHER -> Clean(1) \o Clean(2)]
MCOffered == [s \in MCSheets |->
  CASE s = Twice    -> {CatalogItem(2), Decision(2, "DEFER_ROW", "", ""), Correct(2, "SerialNumber", "sn2"),
                        Decision(2, "MARK_DUPLICATE", "", "")}
    [] s = Formula  -> {CatalogItem(1), NewEquipment(1), Correct(1, "SerialNumber", "sn2"), Decision(1, "EXCLUDE_ROW", "", "")}
    [] s = Numbered -> {CatalogItem(2), NewEquipment(2), Correct(2, "InventoryNumber", "i2"),
                        Decision(2, "CHOOSE_TARGET_LOCATION", "", "shelf1"),
                        Decision(2, "CONFIRM_LITERAL_IDENTIFIER", "InventoryNumber", "")}
    [] s = Split    -> {Decision(2, "QUARANTINE_ROW", "", ""), Correct(2, "LocationCode", "shelf2")}
    [] OTHER        -> {Correct(2, "Vendor", "acme")}]
MCTexts == {"", "1", "2", "2.5", "SERIALIZED", "BULK", "IX", "shelf1", "shelf2", "sn1", "SN1", "sn2",
            "i1", "i2", "p1", "p2", "acme", "ACME", "server", "pcs", "m", "AVAILABLE"}
MCTextKey == [t \in MCTexts |-> CASE t = "SN1" -> "sn1" [] t = "ACME" -> "acme" [] OTHER -> t]
MCNumber == [t \in MCTexts |-> CASE t = "1" -> 1000 [] t = "2" -> 2000 [] t = "2.5" -> 2500 [] OTHER -> 0]
Value(domain, id, spellings) == [domain |-> domain, id |-> id, spellings |-> spellings]
MCDictionary == {Value("datacenter", 1, {"IX"}), Value("shelf", 2, {"shelf1"}), Value("shelf", 3, {"shelf2"}),
                 Value("unit_of_measure", 4, {"pcs"}), Value("unit_of_measure", 5, {"m"})}
MCApproved == {1, 2, 4, 5}

-----------------------------------------------------------------------------

VARIABLE part

MCInit ==
  /\ Init /\ InitRehearsal
  /\ part \in {"sessions", "rehearsal"} /\ (part = "rehearsal" \/ sheet = Twice)

MCNext ==
  /\ UNCHANGED part
  /\ \/ part = "sessions" /\ CalmNext /\ UNCHANGED rehearsalVars
     \/ part = "rehearsal" /\ NextRehearsal /\ UNCHANGED vars

MCSpec == MCInit /\ [][MCNext]_<<vars, rehearsalVars, part>>

AnyThread == Interchangeable \cup Permutations(Builders)
=============================================================================

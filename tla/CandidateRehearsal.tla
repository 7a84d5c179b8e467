------------------------- MODULE CandidateRehearsal -------------------------
(***************************************************************************)
(* What a FULL inventory counts: the checks of the rows of an uploaded     *)
(* workbook, the decisions an operator records about them, the previews    *)
(* built from both, and the disposable database an administrator builds    *)
(* from a preview to show that the count can become the first balance.     *)
(*                                                                         *)
(*   sheet      the rows of the session's workbook                         *)
(*   decisions  preview_resolutions, in the order of their ids             *)
(*   previews   the READY runs, by digest: a preview that finds nothing    *)
(*              new reuses the run it repeats                              *)
(*   session    the status of the session and its active run               *)
(*   approved   the approved values of the reference dictionary            *)
(*   candidate  the file <digest>.db of each preview                       *)
(*   builder    what each request thread is about to do                    *)
(*                                                                         *)
(* The requests run without the server's lock. A preview claims its        *)
(* session, so it is one step here (FullInventory has its own steps); the  *)
(* build of a candidate claims nothing.                                    *)
(***************************************************************************)
EXTENDS Integers, Sequences, FiniteSetsExt

CONSTANTS
  Builders,      \* request threads
  Sheets,        \* workbooks: sequences of rows
  TextKey,       \* the text that stands for all its spellings (_serial_key, _key)
  Number,        \* what a quantity reads as, in thousandths; 0 when it is refused
  Manifest,      \* WarehouseCode of the Manifest
  Dictionary,    \* reference values: domain, id, and the spellings that find them
  Approved,      \* ids approved from the start
  Routine,       \* per workbook, decisions recorded after the first look at it
  Offered,       \* per workbook, decisions an operator may take later
  MaxDecisions, MaxPreviews \* bounds

VARIABLES sheet, decisions, previews, session, approved, candidate, builder
rehearsalVars == <<sheet, decisions, previews, session, approved, candidate, builder>>

Blank == ""   \* the text of an empty cell

Columns == {"RowId", "ItemKind", "WarehouseCode", "LocationCode", "SerialNumber",
            "InventoryNumber", "PartNumber", "Vendor", "Model", "Description",
            "Quantity", "UOM", "Condition"}
RequiredColumns == {"RowId", "ItemKind", "WarehouseCode", "LocationCode", "Description",
                    "Quantity", "UOM", "Condition"}
IdentifierColumns == {"SerialNumber", "InventoryNumber", "PartNumber", "RowId"}
ItemKinds == {"SERIALIZED", "BULK", "CABLE", "CONSUMABLE"}
Conditions == {"AVAILABLE", "QUARANTINED", "DAMAGED"}
Dispositions == {"EXCLUDE_ROW", "QUARANTINE_ROW", "MARK_DUPLICATE"}
EquipmentActions == {"LINK_EXISTING_EQUIPMENT", "CREATE_NEW_EQUIPMENT_CANDIDATE"}

Texts == DOMAIN TextKey
Lines == [cells : [Columns -> Texts], flawed : BOOLEAN,
          formula : SUBSET Columns, loose : SUBSET Columns]
Decisions == [row : Nat, action : STRING, field : STRING, value : Texts, supersedes : Nat]

ASSUME RehearsalAssumption ==
  /\ MaxDecisions \in Nat /\ MaxPreviews \in Nat \ {0}
  /\ Number \in [Texts -> Nat] /\ Sheets \subseteq Seq(Lines)
  /\ Routine \in [Sheets -> Seq(Decisions)] /\ Offered \in [Sheets -> SUBSET Decisions]

-----------------------------------------------------------------------------
(* Decisions. *)

\* _active_resolutions: those no later one supersedes.
ActiveDecisions ==
  {i \in DOMAIN decisions : \A j \in DOMAIN decisions : decisions[j].supersedes # i}

OnRow(r, plan) == {i \in plan : decisions[i].row = r}

\* _resolution_scope
ScopeOf(d) ==
  CASE d.action \in Dispositions \cup {"DEFER_ROW"} -> <<d.row, "DISPOSITION", Blank>>
    [] d.action = "CORRECT_VALUE"                   -> <<d.row, "VALUE", d.field>>
    [] d.action = "CHOOSE_TARGET_LOCATION"          -> <<d.row, "TARGET_LOCATION", Blank>>
    [] d.action \in EquipmentActions                -> <<d.row, "EQUIPMENT", Blank>>
    [] d.action = "CHOOSE_CATALOG_ITEM"             -> <<d.row, "CATALOG", Blank>>
    [] OTHER                                        -> <<d.row, d.action, d.field>>

\* A decision gives the cell another text.
Replaces(d, column) ==
  \/ d.action = "CORRECT_VALUE" /\ d.field = column
  \/ d.action = "CHOOSE_TARGET_LOCATION" /\ column = "LocationCode"

\* The texts of a row once the decisions of a plan are applied, in their order.
Effective(r, plan) ==
  [c \in Columns |->
     LET made == {i \in OnRow(r, plan) : Replaces(decisions[i], c)}
     IN  IF made = {} THEN sheet[r].cells[c] ELSE decisions[Max(made)].value]

Disposition(r, plan) ==
  LET out == {i \in OnRow(r, plan) : decisions[i].action \in Dispositions}
  IN  IF out = {} THEN Blank ELSE decisions[Max(out)].action

LocationFindings == {"UNKNOWN_LOCATION", "AMBIGUOUS_LOCATION", "INACTIVE_OR_CANDIDATE_LOCATION"}

\* The loop of _finding_resolved ends at the first decision that concerns the
\* finding, whether that decision settles it or not.
Concerns(d, f) ==
  \/ d.action \in Dispositions \cup EquipmentActions \cup {"CHOOSE_CATALOG_ITEM"}
  \/ d.action \in {"CORRECT_VALUE", "CONFIRM_LITERAL_IDENTIFIER"} /\ d.field = f.field
  \/ d.action = "CHOOSE_TARGET_LOCATION" /\ f.code \in LocationFindings

\* Mutant: any decision about a field settles every finding of the field.
SettlesField(d, f) == TRUE

Settles(d, f) ==
  CASE d.action \in Dispositions                -> TRUE
    [] d.action = "CORRECT_VALUE"               -> f.code \in {"FORMULA_CELL", "IDENTIFIER_NOT_TEXT"}
    [] d.action = "CONFIRM_LITERAL_IDENTIFIER"  -> f.code = "IDENTIFIER_NOT_TEXT"
    [] d.action = "CHOOSE_TARGET_LOCATION"      -> TRUE
    [] d.action \in EquipmentActions            -> f.code = "UNRESOLVED_NEW_EQUIPMENT"
    [] d.action = "CHOOSE_CATALOG_ITEM"         -> f.code = "AMBIGUOUS_CATALOG_ITEM"
    [] OTHER                                    -> FALSE

\* _finding_resolved
FindingResolved(f, r, plan) ==
  LET concerned == {i \in OnRow(r, plan) : Concerns(decisions[i], f)}
  IN  concerned # {} /\ Settles(decisions[Min(concerned)], f)

-----------------------------------------------------------------------------
(* The checks of a row: _validate_row. Checks of the texts that no other part *)
(* of the count depends on (times, CountedBy, lengths) are one flag `flawed`. *)

Finding(code, field) == [code |-> code, field |-> field]
When(found, code, field) == IF found THEN {Finding(code, field)} ELSE {}

Named(domain, text) == {v \in Dictionary : v.domain = domain /\ text \in v.spellings}

\* _resolve_reference
ApprovedMatches(domain, text, refs) == {v \in Named(domain, text) : v.id \in refs}

\* _mapping_findings
MappingFindings(warehouse, location, refs) ==
  LET datacenters == Cardinality(ApprovedMatches("datacenter", warehouse, refs))
      shelves == Cardinality(ApprovedMatches("shelf", location, refs))
      old == Named("warehouse_location", location) # {}
  IN  UNION {
        When(datacenters > 1, "AMBIGUOUS_WAREHOUSE", "WarehouseCode"),
        When(datacenters = 0, "UNKNOWN_WAREHOUSE", "WarehouseCode"),
        When(shelves > 1, "AMBIGUOUS_LOCATION", "LocationCode"),
        When(shelves = 0 /\ old, "INACTIVE_OR_CANDIDATE_LOCATION", "LocationCode"),
        When(shelves = 0 /\ ~old, "UNKNOWN_LOCATION", "LocationCode")}

KindOf(cells) == IF cells["ItemKind"] \in ItemKinds THEN cells["ItemKind"] ELSE "BULK"
IsSerialized(cells) == KindOf(cells) = "SERIALIZED"

\* A row repeats a number of an earlier one, also of one that is not counted.
Repeats(rows, r, column) ==
  /\ rows[r][column] # Blank
  /\ \E q \in 1 .. r - 1 : rows[q][column] # Blank /\ TextKey[rows[q][column]] = TextKey[rows[r][column]]

SerialRepeats(rows, r) ==
  /\ IsSerialized(rows[r]) /\ rows[r]["SerialNumber"] # Blank
  /\ \E q \in 1 .. r - 1 :
       /\ IsSerialized(rows[q]) /\ rows[q]["SerialNumber"] # Blank
       /\ TextKey[rows[q]["SerialNumber"]] = TextKey[rows[r]["SerialNumber"]]

\* The findings of a row that block approval.
RowFindings(rows, r, refs) ==
  LET c == rows[r]
      quantity == Number[c["Quantity"]]
  IN  MappingFindings(c["WarehouseCode"], c["LocationCode"], refs) \cup
      {Finding("REQUIRED_VALUE_MISSING", f) : f \in {g \in RequiredColumns : c[g] = Blank}} \cup
      {Finding("FORMULA_CELL", f) : f \in sheet[r].formula} \cup
      {Finding("IDENTIFIER_NOT_TEXT", f) : f \in sheet[r].loose} \cup
      UNION {
        When(sheet[r].flawed, "HIDDEN_DATA_ROW", Blank),
        When(c["RowId"] # Blank /\ \E q \in 1 .. r - 1 : rows[q]["RowId"] = c["RowId"],
             "DUPLICATE_ROW_ID", "RowId"),
        When(c["ItemKind"] \notin ItemKinds, "UNKNOWN_ITEM_KIND", "ItemKind"),
        When(c["WarehouseCode"] # Manifest, "WAREHOUSE_SCOPE_MISMATCH", "WarehouseCode"),
        When(IsSerialized(c) /\ c["SerialNumber"] = Blank, "SERIAL_REQUIRED", "SerialNumber"),
        When(SerialRepeats(rows, r), "DUPLICATE_SERIAL", "SerialNumber"),
        When(Repeats(rows, r, "InventoryNumber"), "DUPLICATE_INVENTORY_NUMBER", "InventoryNumber"),
        When(quantity = 0, "INVALID_QUANTITY", "Quantity"),
        When(IsSerialized(c) /\ quantity \notin {0, 1000}, "SERIALIZED_QUANTITY", "Quantity"),
        When(IsSerialized(c) /\ c["Vendor"] = Blank, "VENDOR_REQUIRED", "Vendor"),
        When(c["PartNumber"] = Blank /\ c["SerialNumber"] = Blank, "PART_NUMBER_REQUIRED", "PartNumber"),
        When(c["Condition"] \notin Conditions, "UNKNOWN_CONDITION", "Condition"),
        When(Cardinality(ApprovedMatches("unit_of_measure", c["UOM"], refs)) # 1, "UNKNOWN_UOM", "UOM")}

-----------------------------------------------------------------------------
(* Previews. *)

\* build_preview: the rows as decided, what is still open, and whether anything is.
\* A dictionary that is not the one the workbook names blocks for good.
PreviewOf(plan, refs) ==
  LET cells == [r \in DOMAIN sheet |-> Effective(r, plan)]
      found == [r \in DOMAIN sheet |-> RowFindings(cells, r, refs)]
      blocked == {r \in DOMAIN sheet : \E f \in found[r] : ~FindingResolved(f, r, plan)}
  IN  [plan |-> plan, refs |-> refs, found |-> found, ready |-> blocked = {} /\ refs = Approved,
       rows |-> [r \in DOMAIN sheet |-> [cells |-> cells[r], disposition |-> Disposition(r, plan)]]]

Outcome(p) == IF p.ready THEN "READY_FOR_APPROVAL" ELSE "REVIEW_REQUIRED"
UnderReview == session.status \in {"REVIEW_REQUIRED", "READY_FOR_APPROVAL"}

Absent == [state |-> "absent", items |-> {}]
Begun == [state |-> "begun", items |-> {}]
IdleBuilder == [at |-> "idle"]

\* One look at the workbook has been taken, and what has to be decided about its
\* clean rows (their positions in the catalogue, new equipment) has been recorded.
InitRehearsal ==
  /\ sheet \in Sheets /\ decisions = Routine[sheet] /\ approved = Approved
  /\ previews = <<PreviewOf({}, approved)>>
  /\ session = [status |-> IF decisions = <<>> THEN Outcome(previews[1]) ELSE "REVIEW_REQUIRED",
                active |-> 1]
  /\ candidate = [p \in 1 .. MaxPreviews |-> Absent]
  /\ builder = [b \in Builders |-> IdleBuilder]

\* record_resolution: a decision about a row of the active preview replaces the
\* active one of its scope; to confirm an identifier takes a finding about it.
Decide(choice) ==
  LET same == {i \in ActiveDecisions : ScopeOf(decisions[i]) = ScopeOf(choice)} IN
  /\ UnderReview /\ Len(decisions) < MaxDecisions
  /\ choice.action = "CONFIRM_LITERAL_IDENTIFIER" =>
       \E f \in previews[session.active].found[choice.row] : f.field = choice.field
  /\ decisions' = Append(decisions, [choice EXCEPT !.supersedes = IF same = {} THEN 0 ELSE Max(same)])
  /\ session' = [session EXCEPT !.status = "REVIEW_REQUIRED"]
  /\ UNCHANGED <<sheet, previews, approved, candidate, builder>>

\* Runs with the digest of the one that is built.
SameDigest(plan, refs) ==
  {p \in DOMAIN previews : previews[p].plan = plan /\ previews[p].refs = refs}

\* build_preview up to its commit; preview_summary is still to come.
Review(b) ==
  LET plan == ActiveDecisions
      same == SameDigest(plan, approved)
  IN
  /\ builder[b] = IdleBuilder /\ UnderReview
  /\ IF same = {}
     THEN /\ Len(previews) < MaxPreviews
          /\ previews' = Append(previews, PreviewOf(plan, approved))
          /\ session' = [status |-> Outcome(PreviewOf(plan, approved)), active |-> Len(previews) + 1]
     ELSE /\ session' = [status |-> Outcome(previews[Min(same)]), active |-> Min(same)]
          /\ UNCHANGED previews
  /\ builder' = [builder EXCEPT ![b] = [at |-> "answer"]]
  /\ UNCHANGED <<sheet, decisions, approved, candidate>>

\* preview_summary looks into the candidate of the preview if there is one; one
\* that does not verify fails the preview that has just ended, and its session.
AnswerReview(b) ==
  /\ builder[b].at = "answer"
  /\ session' = IF candidate[session.active].state = "begun"
                THEN [session EXCEPT !.status = "FAILED"] ELSE session
  /\ builder' = [builder EXCEPT ![b] = IdleBuilder]
  /\ UNCHANGED <<sheet, decisions, previews, approved, candidate>>

\* Another value of the dictionary is approved meanwhile.
Approve(v) ==
  /\ v.id \notin approved /\ approved' = approved \cup {v.id}
  /\ UNCHANGED <<sheet, decisions, previews, session, candidate, builder>>

-----------------------------------------------------------------------------
(* The candidate database. *)

CountedRows(p) == {r \in DOMAIN previews[p].rows : previews[p].rows[r].disposition \notin Dispositions}
Cells(p, r) == previews[p].rows[r].cells

\* The first checks of build_candidate, with the decisions that are active now.
MayBuild(p) ==
  /\ CountedRows(p) # {}
  /\ \A r \in CountedRows(p) :
       LET actions == {decisions[i].action : i \in OnRow(r, ActiveDecisions)}
       IN  /\ "DEFER_ROW" \notin actions
           /\ "CHOOSE_CATALOG_ITEM" \in actions
           /\ IsSerialized(Cells(p, r)) => "CREATE_NEW_EQUIPMENT_CANDIDATE" \in actions
           /\ "LINK_EXISTING_EQUIPMENT" \notin actions

\* Thousandths of a unit in the smallest quantity of it: pieces, millimetres.
Units == {"pcs", "m"}
Grain(unit) == IF unit = "pcs" THEN 1000 ELSE 1

PositionKey(c) == <<c["ItemKind"], c["Vendor"], c["Model"], c["PartNumber"], c["Description"], c["UOM"]>>
StockKey(c) == <<PositionKey(c), c["WarehouseCode"], c["LocationCode"], c["Condition"], c["UOM"]>>

\* Two texts of a column that the target schema takes for one.
Clash(p, column) ==
  \E q, r \in CountedRows(p) :
    LET s == Cells(p, q)[column]
        t == Cells(p, r)[column]
    IN  s # t /\ s # Blank /\ t # Blank /\ TextKey[s] = TextKey[t]

\* What the schema or the build refuses on the way.
Refused(p) ==
  \/ \E r \in CountedRows(p) :
       LET c == Cells(p, r)
       IN  c["UOM"] \notin Units \/ Number[c["Quantity"]] % Grain(c["UOM"]) # 0
  \/ Clash(p, "Vendor") \/ Clash(p, "Model")
  \/ \E q, r \in CountedRows(p) :
       LET c == Cells(p, q)
           d == Cells(p, r)
       IN  \/ /\ PositionKey(c) # PositionKey(d) /\ c["Vendor"] = d["Vendor"]
              /\ c["PartNumber"] # Blank /\ d["PartNumber"] # Blank
              /\ TextKey[c["PartNumber"]] = TextKey[d["PartNumber"]]
           \/ q # r /\ ~IsSerialized(c) /\ ~IsSerialized(d) /\ StockKey(c) = StockKey(d)
           \/ /\ q # r /\ IsSerialized(c) /\ IsSerialized(d)
              /\ \E column \in {"SerialNumber", "InventoryNumber"} :
                   /\ c[column] # Blank /\ d[column] # Blank
                   /\ TextKey[c[column]] = TextKey[d[column]]

\* Rows of the snapshot, which are also those of the projection.
ItemsOf(p) ==
  {[row |-> r, equipment |-> IsSerialized(Cells(p, r)), stock |-> StockKey(Cells(p, r)),
    minor |-> Number[Cells(p, r)["Quantity"]] \div Grain(Cells(p, r)["UOM"])] : r \in CountedRows(p)}

Returns(b) == builder' = [builder EXCEPT ![b] = IdleBuilder]
GoesOn(b, at) == builder' = [builder EXCEPT ![b].at = at]

\* build_candidate_rehearsal reads the session ...
OpenBuild(b) ==
  /\ builder[b] = IdleBuilder
  /\ builder' = [builder EXCEPT ![b] =
       [at |-> "load", run |-> session.active, ready |-> session.status = "READY_FOR_APPROVAL"]]
  /\ UNCHANGED <<sheet, decisions, previews, session, approved, candidate>>

\* ... then _load_plan its run and the decisions, which may have moved on ...
LoadPlan(b) ==
  /\ builder[b].at = "load"
  /\ IF builder[b].ready /\ MayBuild(builder[b].run) THEN GoesOn(b, "look") ELSE Returns(b)
  /\ UNCHANGED <<sheet, decisions, previews, session, approved, candidate>>

\* ... and then whether the file is there: one that is whole is the answer.
LookForFile(b) ==
  /\ builder[b].at = "look"
  /\ IF candidate[builder[b].run] = Absent THEN GoesOn(b, "create") ELSE Returns(b)
  /\ UNCHANGED <<sheet, decisions, previews, session, approved, candidate>>

\* Mutant: the file is made inside the try block, whose end removes it.
CreateOrRemove(b) ==
  LET p == builder[b].run IN
  /\ builder[b].at = "create"
  /\ candidate' = [candidate EXCEPT ![p] = IF @ = Absent THEN Begun ELSE Absent]
  /\ IF candidate[p] = Absent THEN GoesOn(b, "fill") ELSE Returns(b)
  /\ UNCHANGED <<sheet, decisions, previews, session, approved>>

\* MigrationRunner.create publishes an empty database, unless somebody has.
CreateCandidate(b) ==
  LET p == builder[b].run IN
  /\ builder[b].at = "create"
  /\ IF candidate[p] = Absent
     THEN candidate' = [candidate EXCEPT ![p] = Begun] /\ GoesOn(b, "fill")
     ELSE UNCHANGED candidate /\ Returns(b)
  /\ UNCHANGED <<sheet, decisions, previews, session, approved>>

\* One transaction; when it is refused the file is removed.
Fill(b) ==
  LET p == builder[b].run IN
  /\ builder[b].at = "fill"
  /\ candidate' = [candidate EXCEPT ![p] =
       IF Refused(p) THEN Absent ELSE [state |-> "whole", items |-> ItemsOf(p)]]
  /\ Returns(b)
  /\ UNCHANGED <<sheet, decisions, previews, session, approved>>

\* The process ends; a file that is begun stays.
ServerStops ==
  /\ builder' = [b \in Builders |-> IdleBuilder]
  /\ UNCHANGED <<sheet, decisions, previews, session, approved, candidate>>

NextRehearsal ==
  \/ \E choice \in Offered[sheet] : Decide(choice)
  \/ \E v \in Dictionary : Approve(v)
  \/ \E b \in Builders :
       \/ Review(b) \/ AnswerReview(b)
       \/ OpenBuild(b) \/ LoadPlan(b) \/ LookForFile(b) \/ CreateCandidate(b) \/ Fill(b)
  \/ ServerStops

RehearsalSpec == InitRehearsal /\ [][NextRehearsal]_rehearsalVars

-----------------------------------------------------------------------------
(* Properties. *)

RehearsalTypeOK ==
  /\ sheet \in Sheets /\ Len(decisions) <= MaxDecisions /\ Len(previews) \in 1 .. MaxPreviews
  /\ session.status \in {"REVIEW_REQUIRED", "READY_FOR_APPROVAL", "FAILED"}
  /\ session.active \in DOMAIN previews
  /\ \A p \in 1 .. MaxPreviews : candidate[p].state \in {"absent", "begun", "whole"}

\* A person decided this about the row, in the preview's plan.
Decided(p, r, actions, fields) ==
  \E i \in OnRow(r, previews[p].plan) : decisions[i].action \in actions /\ decisions[i].field \in fields

\* A row of a preview that is ready can be counted: nothing in it was refused by a
\* check unless somebody decided it.
RowStands(p, r) ==
  LET c == Cells(p, r) IN
  /\ c["WarehouseCode"] = Manifest /\ Number[c["Quantity"]] > 0
  /\ IsSerialized(c) => c["SerialNumber"] # Blank /\ Number[c["Quantity"]] = 1000
  /\ \/ \E v \in ApprovedMatches("shelf", c["LocationCode"], previews[p].refs) : TRUE
     \/ Decided(p, r, {"CHOOSE_TARGET_LOCATION"}, STRING)
  /\ ~sheet[r].flawed
  /\ \A f \in sheet[r].formula : Decided(p, r, {"CORRECT_VALUE"}, {f})
  /\ \A f \in sheet[r].loose : Decided(p, r, {"CORRECT_VALUE", "CONFIRM_LITERAL_IDENTIFIER"}, {f})

\* No two counted rows are the same thing.
NoTwoAreOne(p) ==
  \A q, r \in CountedRows(p) : q # r =>
    LET c == Cells(p, q)
        d == Cells(p, r)
    IN  /\ c["RowId"] # d["RowId"]
        /\ c["InventoryNumber"] # Blank /\ d["InventoryNumber"] # Blank =>
             TextKey[c["InventoryNumber"]] # TextKey[d["InventoryNumber"]]
        /\ IsSerialized(c) /\ IsSerialized(d) =>
             TextKey[c["SerialNumber"]] # TextKey[d["SerialNumber"]]

\* A whole candidate holds every counted row once, equipment for a serialized one,
\* bulk stock under distinct keys, with the quantity that was counted.
HoldsTheCount(p) ==
  LET items == candidate[p].items IN
  /\ previews[p].ready
  /\ {i.row : i \in items} = CountedRows(p) /\ Cardinality(items) = Cardinality(CountedRows(p))
  /\ \A i \in items :
       /\ i.equipment = IsSerialized(Cells(p, i.row))
       /\ i.minor * Grain(Cells(p, i.row)["UOM"]) = Number[Cells(p, i.row)["Quantity"]]
  /\ \A i, j \in items : i # j /\ ~i.equipment /\ ~j.equipment => i.stock # j.stock

\* The candidate is the count: whatever decisions are recorded, changed and undone
\* while previews and candidates are built side by side, a ready preview counts only
\* rows that stand and are distinct things, a candidate is the whole count of the
\* preview it is named after, and once whole it is neither changed nor removed
\* (_validate_row, _finding_resolved, build_candidate).
CandidateIsTheCount ==
  [][/\ \A p \in DOMAIN previews' :
          /\ (previews[p].ready => NoTwoAreOne(p) /\ \A r \in CountedRows(p) : RowStands(p, r))'
          /\ (candidate[p].state = "whole" => HoldsTheCount(p))'
     /\ \A p \in DOMAIN previews : candidate[p].state = "whole" => candidate'[p] = candidate[p]]_rehearsalVars
=============================================================================

---------------------------- MODULE CandidateStaging ----------------------------
(***************************************************************************)
(* The first stage of the migration: the candidate database. The reviewed  *)
(* spellings of names become reference values and aliases, every row of    *)
(* the receipt and issue sheets is staged with what its S/N cells prove,   *)
(* and models and catalogue items are proposed from the receipts. One      *)
(* transaction writes it all. The later stages read names through the      *)
(* approved aliases only.                                                  *)
(*                                                                         *)
(*   input    the review sheet and the two sheets of operations            *)
(*   phase    what is being written; then committed, valid or failed       *)
(*   values   reference values                                             *)
(*   aliases  spellings that stand for a value                             *)
(*   open     review rows that are not taken over, each with the reason    *)
(*   staged   operation rows                                               *)
(*   usage    receipts per vendor and model as they are spelled            *)
(*   catalog  proposals by key: the first row of each, and its item names  *)
(*   items    catalogue items                                              *)
(*                                                                         *)
(* What an S/N cell proves is that of FullMigration. Source files, users   *)
(* and confidence are left out; the sheets are read as the iterator of the *)
(* workbook gives them.                                                    *)
(***************************************************************************)
EXTENDS FullMigration, Bags

CONSTANTS
  Inputs,     \* the workbooks that may be staged: [review, RECEIPT, ISSUE]
  Fold,       \* normalize_reference_key: spelling -> key; Blank is its own key
  Domains,    \* domain keys
  Seeded,     \* the values of the program: <<domain, key>>
  Meaning,    \* SEMANTIC_REFERENCE_MAP: <<domain, key>> -> key of a seeded value
  Apart,      \* pairs of vendors that are never merged
  Doubtful    \* texts of S/N that a person must look at

ASSUME SpellingsAreFolded ==
  /\ Blank \in DOMAIN Fold /\ \A n \in DOMAIN Fold : Fold[n] = Blank <=> n = Blank
  /\ {"vendor", "model", "catalog_item"} \subseteq Domains
  /\ \A m \in DOMAIN Meaning : <<m[1], Meaning[m]>> \in Seeded
  /\ \A p \in Apart : Cardinality(p) = 2
  /\ \A s \in Seeded : s[2] \in DOMAIN Fold /\ Fold[s[2]] = s[2]

Parts == {"review", "RECEIPT", "ISSUE"}
SheetRows == UNION {Range(w[s]) : w \in Inputs, s \in Parts}

\* Three lists of rows; each name of a receipt has its key; no reason is no reason.
ASSUME InputsAreSheets ==
  /\ Inputs \subseteq [Parts -> Seq(SheetRows)]
  /\ None \notin {"BLOCKED_SOURCE_CORRUPTED", "OUTSIDE_0_13_3A_DOMAIN",
                  "REQUIRES_STRUCTURED_VENDOR_MODEL_CONTEXT"}
  /\ \A w \in Inputs : \A r \in Range(w["RECEIPT"]) : {r.vendor, r.model} \subseteq DOMAIN Fold

VARIABLES input, phase, values, aliases, open, staged, usage, catalog, items
stagingVars == <<input, phase, values, aliases, open, staged, usage, catalog, items>>

Structured == {"model", "catalog_item"}
NoScope == <<>>

InitStaging ==
  /\ input \in Inputs /\ phase = "review"
  /\ values = {[domain |-> s[1], scope |-> NoScope, key |-> <<s[2]>>, name |-> <<s[2]>>, approved |-> TRUE] :
                 s \in Seeded}
  /\ aliases = {} /\ open = <<>> /\ staged = <<>> /\ usage = EmptyBag
  /\ catalog = <<>> /\ items = {}

-----------------------------------------------------------------------------
(* Values and aliases. *)

\* A key is a tuple, of one folded spelling but for catalogue items.
Folded(name) == <<Fold[name]>>

Stored(domain, scope, key) ==
  {v \in values : v.domain = domain /\ v.scope = scope /\ v.key = key}

\* _insert_reference_value: the first spelling of a key stays; what is new is
\* a candidate and not active.
Ensured(domain, scope, name, key) ==
  IF Stored(domain, scope, key) # {} THEN values
  ELSE values \cup {[domain |-> domain, scope |-> scope, key |-> key, name |-> name, approved |-> FALSE]}

\* resolve_alias_safety: only spellings of one key are the same name.
Safe(domain, text, name) ==
  /\ Fold[text] # Blank /\ Fold[name] # Blank
  /\ ~(domain = "vendor" /\ {Fold[text], Fold[name]} \in Apart)
  /\ Fold[text] = Fold[name]

\* _insert_alias: ON CONFLICT the later row replaces the count and the verdict.
Aliased(all, a) ==
  {b \in all : <<b.domain, b.text, b.scope, b.key, b.sheet>> # <<a.domain, a.text, a.scope, a.key, a.sheet>>}
    \cup {a}

Alias(domain, text, scope, key, sheet, count, approved) ==
  [domain |-> domain, text |-> text, scope |-> scope, key |-> key, sheet |-> sheet,
   count |-> count, approved |-> approved]

-----------------------------------------------------------------------------
(* The review sheet, row after row. *)

ReviewRow == input.review[1]
Proposed == IF ReviewRow.proposed = Blank THEN ReviewRow.text ELSE ReviewRow.proposed
Meant == <<ReviewRow.domain, Fold[ReviewRow.text]>> \in DOMAIN Meaning

\* Why a row is not taken over.
Obstacle ==
  IF ReviewRow.corrupted THEN "BLOCKED_SOURCE_CORRUPTED"
  ELSE IF ReviewRow.domain \notin Domains THEN "OUTSIDE_0_13_3A_DOMAIN"
  ELSE IF ReviewRow.domain \in Structured THEN "REQUIRES_STRUCTURED_VENDOR_MODEL_CONTEXT"
  ELSE IF ~Meant /\ Proposed = Blank THEN "EMPTY_CANDIDATE" ELSE None

\* _seed_reference_foundation
Review ==
  /\ phase = "review" /\ input.review # <<>>
  /\ input' = [input EXCEPT !.review = Tail(@)]
  /\ IF Obstacle # None
     THEN open' = Append(open, Obstacle) /\ UNCHANGED <<values, aliases>>
     ELSE LET d == ReviewRow.domain
              text == ReviewRow.text
              name == IF Meant THEN Meaning[<<d, Fold[text]>>] ELSE Proposed
              byHand == (Meant \/ ReviewRow.conflict) /\ Fold[text] # Fold[name]
          IN  /\ values' = Ensured(d, NoScope, <<name>>, Folded(name))
              /\ aliases' = Aliased(aliases, Alias(d, text, NoScope, Folded(name), ReviewRow.sheet,
                                       ReviewRow.count, Safe(d, text, name) /\ ~byHand))
              /\ UNCHANGED open
  /\ UNCHANGED <<phase, staged, usage, catalog, items>>

ToOperations ==
  /\ phase = "review" /\ input.review = <<>> /\ phase' = "RECEIPT"
  /\ UNCHANGED <<input, values, aliases, open, staged, usage, catalog, items>>

-----------------------------------------------------------------------------
(* The operations. *)

ByHand(cell) ==
  \/ Preservation(cell) \notin {"TEXT_EXACT", "EMPTY"}
  \/ cell.type = "text" /\ (OfText(cell.value) = "EMPTY" \/ cell.value \in Doubtful)

MatchValue(cell) == IF Preservation(cell) = "TEXT_EXACT" THEN Match[cell.value] ELSE Blank

Target(sheet, row) == IF sheet = "ISSUE" THEN row.target ELSE [type |-> "empty", value |-> Blank]

\* The resolution of a row with what its S/N and that of the target prove.
Resolution(sheet, row) ==
  CASE Preservation(row.cell) = "SOURCE_CORRUPTED" -> "BLOCKED"
    [] ByHand(row.cell) \/ ByHand(Target(sheet, row)) -> "MANUAL_REVIEW"
    [] row.cell.type # "empty" -> "AUTO_REVIEWED"
    [] OTHER -> "UNREVIEWED"

\* A numeric part number proves nothing and is blanked.
Part(row) == IF row.part.numeric THEN Blank ELSE row.part.text
ModelOrPart(row) == IF row.model # Blank THEN row.model ELSE Part(row)

\* _catalog_proposal, and the key under which equal proposals meet.
Proposes(sheet, row) ==
  sheet = "RECEIPT" /\ row.kind # Blank /\ row.vendor # Blank /\ ModelOrPart(row) # Blank
ItemName(row) == <<row.kind, row.vendor, ModelOrPart(row)>>
ItemKey(row) ==
  [name |-> <<row.kind, Fold[row.vendor], Fold[ModelOrPart(row)]>>,
   vendor |-> Fold[row.vendor], model |-> Fold[row.model], part |-> Part(row)]

ItemScope(k) == k.name \o <<k.vendor, k.model, k.part>>

Collected(row) ==
  LET k == ItemKey(row)
      old == IF k \in DOMAIN catalog THEN catalog[k] ELSE [first |-> row, called |-> EmptyBag]
      new == [old EXCEPT !.called = @ (+) SetToBag({row.item})]
  IN  [x \in DOMAIN catalog \cup {k} |-> IF x = k THEN new ELSE catalog[x]]

StagedRow(sheet, row) ==
  [sheet |-> sheet, row |-> row, status |-> Resolution(sheet, row),
   cells |-> {row.cell} \cup (IF sheet = "ISSUE" THEN {row.target} ELSE {}),
   key |-> IF Proposes(sheet, row) THEN ItemKey(row) ELSE None]

\* _stage_operations, and _insert_serial_cell for each S/N of the row
Stage ==
  /\ phase \in Sheets /\ input[phase] # <<>>
  /\ input' = [input EXCEPT ![phase] = Tail(@)]
  /\ LET row == input[phase][1]
     IN  /\ staged' = Append(staged, StagedRow(phase, row))
         /\ catalog' = IF Proposes(phase, row) THEN Collected(row) ELSE catalog
         /\ usage' = IF phase = "RECEIPT" /\ row.vendor # Blank /\ row.model # Blank
                     THEN usage (+) SetToBag({<<row.vendor, row.model>>}) ELSE usage
  /\ UNCHANGED <<phase, values, aliases, open, items>>

NextSheet ==
  /\ phase \in Sheets /\ input[phase] = <<>>
  /\ phase' = IF phase = "RECEIPT" THEN "ISSUE" ELSE "models"
  /\ UNCHANGED <<input, values, aliases, open, staged, usage, catalog, items>>

-----------------------------------------------------------------------------
(* Models and catalogue items. They are taken in the order of their spelling;
   nothing below depends on it. *)

\* Mutant: models of all vendors share one scope.
ScopeOfAll(vendor) == NoScope

\* vendor_scoped_model_key: a model belongs to its vendor.
ScopeOf(vendor) == Folded(vendor)

\* _insert_models with _ensure_vendor
InsertModel ==
  /\ phase = "models"
  /\ \E pair \in BagToSet(usage) :
       LET vendor == pair[1]
           model == pair[2]
           known == Ensured("vendor", NoScope, <<vendor>>, Folded(vendor))
           scope == ScopeOf(vendor)
       IN  /\ usage' = [p \in BagToSet(usage) \ {pair} |-> usage[p]]
           /\ values' = known \cup Ensured("model", scope, <<model>>, Folded(model))
           /\ aliases' = Aliased(aliases, Alias("model", model, scope, Folded(model), "RECEIPT",
                                    usage[pair], Safe("model", model, model)))
  /\ UNCHANGED <<input, phase, open, staged, catalog, items>>

ToCatalog ==
  /\ phase = "models" /\ usage = EmptyBag /\ phase' = "catalog"
  /\ UNCHANGED <<input, values, aliases, open, staged, usage, catalog, items>>

\* catalog_items_v2 has UNIQUE(canonical_item_name, part_number).
Collides(row) == \E i \in items : i.name = ItemName(row) /\ i.key.part = Part(row)

\* _insert_catalogs: the item, its vendor, and an alias for each name it had; an
\* item of the same name and part number stops the whole build.
InsertItem ==
  /\ phase = "catalog"
  /\ \E k \in DOMAIN catalog \ {i.key : i \in items} :
       LET row == catalog[k].first
       IN  IF Collides(row)
           THEN phase' = "failed" /\ UNCHANGED <<values, aliases, items>>
           ELSE /\ items' = items \cup
                     {[key |-> k, name |-> ItemName(row),
                       model |-> row.model # Blank /\ Stored("model", ScopeOf(row.vendor), Folded(row.model)) # {}]}
                /\ values' = Ensured("vendor", NoScope, <<row.vendor>>, Folded(row.vendor))
                               \cup Ensured("catalog_item", ItemScope(k), ItemName(row), k.name)
                /\ aliases' = aliases \cup
                     {Alias("catalog_item", n, ItemScope(k), k.name, "RECEIPT", catalog[k].called[n], FALSE) :
                        n \in BagToSet(catalog[k].called) \ {Blank}}
                /\ UNCHANGED phase
  /\ UNCHANGED <<input, open, staged, usage, catalog>>

\* The transaction commits once every proposal has its item.
CommitCandidate ==
  /\ phase = "catalog" /\ DOMAIN catalog = {i.key : i \in items} /\ phase' = "committed"
  /\ UNCHANGED <<input, values, aliases, open, staged, usage, catalog, items>>

\* validate_candidate: what it requires of names and S/N cells.
CandidateValid ==
  /\ \A a \in aliases : a.approved =>
       \E v \in Stored(a.domain, a.scope, a.key) : Folded(a.text) = v.key
  /\ \A i \in DOMAIN staged : \A c \in staged[i].cells :
       /\ Preservation(c) = "SOURCE_CORRUPTED" => MatchValue(c) = Blank
       /\ c.type = "number" => MatchValue(c) = Blank /\ ByHand(c)

CheckCandidate ==
  /\ phase = "committed" /\ phase' = IF CandidateValid THEN "valid" ELSE "failed"
  /\ UNCHANGED <<input, values, aliases, open, staged, usage, catalog, items>>

NextStaging ==
  \/ Review \/ ToOperations \/ Stage \/ NextSheet
  \/ InsertModel \/ ToCatalog \/ InsertItem \/ CommitCandidate \/ CheckCandidate

-----------------------------------------------------------------------------
(* What the later stages make of it: _approved_alias_maps and _resolve_row. *)

NamesFor(domain, scope, key) ==
  {v.name : v \in {u \in values : \E a \in aliases :
     /\ a.approved /\ a.domain = domain /\ Folded(a.text) = key
     /\ u.domain = domain /\ u.scope = scope
     /\ <<a.domain, a.scope, a.key>> = <<u.domain, u.scope, u.key>>}}

Approved(domain, scope, text) ==
  LET names == NamesFor(domain, scope, Folded(text))
  IN  IF names = {} THEN text ELSE (CHOOSE n \in names : TRUE)[1]

BuiltVendor(row) == Approved("vendor", NoScope, row.vendor)
BuiltScope(row) == Folded(BuiltVendor(row))
BuiltModel(row) == Approved("model", BuiltScope(row), row.model)

Modelled == {i \in DOMAIN staged : staged[i].sheet = "RECEIPT" /\ Blank \notin {staged[i].row.vendor, staged[i].row.model}}

\* A candidate that passes its validation names things for the stages that follow as
\* the sheets do: an approved spelling stands for one name; each receipt with a vendor
\* and a model finds its model there, and two of them get one name exactly when they
\* are spellings of one vendor and of one model; each proposal has the one item of its
\* key. And nothing stops the staging but two proposals that are told apart by their
\* keys and not by the name and the part number of the item.
StagingKeepsNamesApart ==
  /\ phase = "failed" =>
       \E i \in items, k \in DOMAIN catalog :
         k # i.key /\ ItemName(catalog[k].first) = i.name /\ k.part = i.key.part
  /\ phase = "valid" =>
       /\ \A v \in values : Cardinality(NamesFor(v.domain, v.scope, v.key)) <= 1
       /\ \A i \in Modelled :
            NamesFor("model", BuiltScope(staged[i].row), Folded(staged[i].row.model)) # {}
       /\ \A i, j \in Modelled :
            LET a == staged[i].row
                b == staged[j].row
            IN  (BuiltScope(a) = BuiltScope(b) /\ BuiltModel(a) = BuiltModel(b)) <=>
                  (Fold[a.vendor] = Fold[b.vendor] /\ Fold[a.model] = Fold[b.model])
       /\ \A i \in DOMAIN staged : staged[i].key # None =>
            \E item \in items :
              /\ {x \in items : x.key = staged[i].key} = {item}
              /\ item.model = (staged[i].row.model # Blank)
=============================================================================

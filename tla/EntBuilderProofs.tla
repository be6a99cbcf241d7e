--------------------------- MODULE EntBuilderProofs ---------------------------
(*****************************************************************************)
(* Theorems about EntBuilder, for any of the entities of the client, any     *)
(* number of calls on a builder and any number of saves.  They rest on how   *)
(* the generated files of one entity relate to each other, stated below for  *)
(* an entity E of EntSchema and proved of all fourteen.                      *)
(*****************************************************************************)
EXTENDS EntBuilder, TLAPS

Updates == {"update", "updateOne"}
ColumnsOf(E) == E.table.notNull \cup E.table.null

\* What has a value has a column; counters are fields, no parents; NULL is
\* for what is optional or links to a parent.
Named(E) ==
  /\ E.slots.parents \cup E.declared.valid \cup E.declared.stamped
         \cup E.fields
       \subseteq ColumnsOf(E)
  /\ E.slots.counters \subseteq E.fields \ E.slots.parents
  /\ E.table.null
       \subseteq E.declared.optional \cup E.slots.parents \cup E.selected.fks

\* A one-to-many edge is no column, and every builder writes it.
Edged(E) ==
  \A e \in DOMAIN E.edges.many :
    /\ e \notin ColumnsOf(E) \cup E.slots.counters \cup E.slots.nullables
                  \cup E.setFields \cup E.resetFields
    /\ \A k \in Kinds : e \notin E.offers[k].set /\ e \in E.writes[k].many

\* A create checks what the schema validates, and requires the fields that
\* the table requires, and nothing that may be NULL.
CreateChecks(E, F) ==
  /\ E.declared.valid \subseteq F.valid
  /\ F.required \cup F.parents \subseteq E.table.notNull
  /\ E.fields \cap E.table.notNull \subseteq F.required \cup F.parents

\* A required column that PostgreSQL fills has a default before it; a column
\* that can be cleared has none.
CreateFills(E, F) ==
  /\ (F.required \cup F.parents) \cap E.table.filled \subseteq F.defaults
  /\ (E.slots.nullables \cup E.slots.parents)
       \cap (F.defaults \cup E.table.filled) = {}

\* A create writes whatever it lets a caller set, its defaults, and every
\* column that the table requires.
CreateWrites(E, F, O, W) ==
  E.setFields \cup O.set \cup F.defaults \cup E.table.notNull
    \subseteq W.set \cup W.parents

Creatable(E) ==
  /\ CreateChecks(E, E.fills.create)
  /\ CreateFills(E, E.fills.create)
  /\ CreateWrites(E, E.fills.create, E.offers.create, E.writes.create)

\* An update writes no immutable column, and adds, clears and links whatever
\* else has the method for it; nothing but these.
WritesFit(E, W) ==
  /\ E.declared.immutable
       \cap (W.set \cup W.parents \cup W.add \cup W.clear) = {}
  /\ E.slots.counters \ E.declared.immutable \subseteq W.add
  /\ W.add \subseteq E.slots.counters
  /\ E.slots.nullables \ E.declared.immutable \subseteq W.clear \cup W.parents
  /\ W.clear \subseteq E.fields
  /\ E.slots.parents \ E.declared.immutable \subseteq W.parents
  /\ W.parents \subseteq E.slots.parents
  /\ E.slots.parents \cap W.set = {}

\* An update checks what it writes, and fills in the stamps and nothing else.
FillsFit(E, F, W) ==
  /\ E.declared.valid \cap (W.set \cup W.parents) \subseteq F.valid
  /\ F.parents \subseteq E.slots.parents
  /\ E.declared.stamped = F.defaults
  /\ F.defaults \subseteq W.set \ W.add

\* What a caller can set, an update writes, unless it is immutable.
OffersFit(E, O, W) ==
  (E.setFields \cup O.set) \ E.declared.immutable
    \subseteq W.set \cup W.parents

Updatable(E) ==
  \A k \in Updates :
    /\ WritesFit(E, E.writes[k])
    /\ FillsFit(E, E.fills[k], E.writes[k])
    /\ OffersFit(E, E.offers[k], E.writes[k])

\* A query selects and scans what a builder can set, and loads every edge.
Readable(E) ==
  /\ E.fields \cup E.slots.parents
       \subseteq E.scans \cap (E.selected.columns \cup E.selected.fks)
  /\ E.loads.withFKs = {}
       => E.fields \cup E.slots.parents \subseteq E.selected.columns
  /\ DOMAIN E.edges.single \subseteq E.loads.single

\* A loaded edge has what it needs of its children: their key for it.
ChildrenReadable(E) ==
  \A e \in DOMAIN E.edges.many :
    /\ e \in E.loads.many
    /\ \/ e \in E.loads.childFKs
       \/ E.edges.many[e][2] \in Client[E.edges.many[e][1]].selected.columns

Coherent(E) ==
  /\ Named(E) /\ Edged(E) /\ Creatable(E) /\ Updatable(E)
  /\ Readable(E) /\ ChildrenReadable(E)

-------------------------------------------------------------------------------
(*****************************************************************************)
(* The fourteen entities.                                                    *)
(*****************************************************************************)
LEMMA AchievementCoherent == Coherent(Achievement!Client)
<1> USE DEF Achievement!Client, Achievement!Fields, Achievement!AddFields,
    Achievement!ClearFields, Achievement!SetFields, Achievement!ResetFields,
    Achievement!Edges, Achievement!Slots, Achievement!Table,
    Achievement!Declared, Achievement!Selected, Achievement!Scans
<1>1. Named(Achievement!Client)
  BY DEF Named, ColumnsOf
<1>2. Edged(Achievement!Client)
  BY DEF Edged, ColumnsOf, Kinds, Achievement!CreateOffers,
      Achievement!CreateWrites, Achievement!UpdateOffers,
      Achievement!UpdateWrites, Achievement!UpdateOneOffers,
      Achievement!UpdateOneWrites
<1>3. CreateChecks(Achievement!Client, Achievement!CreateFills)
  BY DEF CreateChecks, Achievement!CreateFills
<1>4. CreateFills(Achievement!Client, Achievement!CreateFills)
  BY DEF CreateFills, Achievement!CreateFills
<1>5. CreateWrites(Achievement!Client, Achievement!CreateFills,
     Achievement!CreateOffers,
                   Achievement!CreateWrites)
  BY DEF CreateWrites, Achievement!CreateFills, Achievement!CreateOffers,
      Achievement!CreateWrites
<1>6. Creatable(Achievement!Client)
  BY <1>3, <1>4, <1>5 DEF Creatable
<1>7. WritesFit(Achievement!Client, Achievement!UpdateWrites)
  BY DEF WritesFit, Achievement!UpdateWrites
<1>8. FillsFit(Achievement!Client, Achievement!UpdateFills,
     Achievement!UpdateWrites)
  BY DEF FillsFit, Achievement!UpdateFills, Achievement!UpdateWrites
<1>9. OffersFit(Achievement!Client, Achievement!UpdateOffers,
     Achievement!UpdateWrites)
  BY DEF OffersFit, Achievement!UpdateOffers, Achievement!UpdateWrites
<1>10. Updatable(Achievement!Client)
  BY <1>7, <1>8, <1>9 DEF Updatable, Updates, Achievement!UpdateOneOffers,
      Achievement!UpdateOneFills, Achievement!UpdateOneWrites
<1>11. Readable(Achievement!Client)
  BY DEF Readable, Achievement!Loads
<1>12. ChildrenReadable(Achievement!Client)
  BY DEF ChildrenReadable, Client, Achievement!Loads, UserAchievement!Client,
      UserAchievement!Selected, UserAchievement!Fields
<1> QED
  BY <1>1, <1>2, <1>6, <1>10, <1>11, <1>12 DEF Coherent

LEMMA CharacterCoherent == Coherent(Character!Client)
<1> USE DEF Character!Client, Character!Fields, Character!AddFields,
    Character!ClearFields, Character!SetFields, Character!ResetFields,
    Character!Edges, Character!Slots, Character!Table, Character!Declared,
    Character!Selected, Character!Scans
<1>1. Named(Character!Client)
  BY DEF Named, ColumnsOf
<1>2. Edged(Character!Client)
  BY DEF Edged, ColumnsOf, Kinds, Character!CreateOffers,
      Character!CreateWrites, Character!UpdateOffers, Character!UpdateWrites,
      Character!UpdateOneOffers, Character!UpdateOneWrites
<1>3. CreateChecks(Character!Client, Character!CreateFills)
  BY DEF CreateChecks, Character!CreateFills
<1>4. CreateFills(Character!Client, Character!CreateFills)
  BY DEF CreateFills, Character!CreateFills
<1>5. CreateWrites(Character!Client, Character!CreateFills,
     Character!CreateOffers,
                   Character!CreateWrites)
  BY DEF CreateWrites, Character!CreateFills, Character!CreateOffers,
      Character!CreateWrites
<1>6. Creatable(Character!Client)
  BY <1>3, <1>4, <1>5 DEF Creatable
<1>7. WritesFit(Character!Client, Character!UpdateWrites)
  BY DEF WritesFit, Character!UpdateWrites
<1>8. FillsFit(Character!Client, Character!UpdateFills, Character!UpdateWrites)
  BY DEF FillsFit, Character!UpdateFills, Character!UpdateWrites
<1>9. OffersFit(Character!Client, Character!UpdateOffers,
     Character!UpdateWrites)
  BY DEF OffersFit, Character!UpdateOffers, Character!UpdateWrites
<1>10. Updatable(Character!Client)
  BY <1>7, <1>8, <1>9 DEF Updatable, Updates, Character!UpdateOneOffers,
      Character!UpdateOneFills, Character!UpdateOneWrites
<1>11. Readable(Character!Client)
  BY DEF Readable, Character!Loads
<1>12. ChildrenReadable(Character!Client)
  BY DEF ChildrenReadable, Client, Character!Loads, Product!Client,
      Product!Selected, Product!Fields, Record!Client, Record!Selected,
      Record!Fields
<1> QED
  BY <1>1, <1>2, <1>6, <1>10, <1>11, <1>12 DEF Coherent

LEMMA ConsentLogCoherent == Coherent(ConsentLog!Client)
<1> USE DEF ConsentLog!Client, ConsentLog!Fields, ConsentLog!AddFields,
    ConsentLog!ClearFields, ConsentLog!SetFields, ConsentLog!ResetFields,
    ConsentLog!Edges, ConsentLog!Slots, ConsentLog!Table, ConsentLog!Declared,
    ConsentLog!Selected, ConsentLog!Scans
<1>1. Named(ConsentLog!Client)
  BY DEF Named, ColumnsOf
<1>2. Edged(ConsentLog!Client)
  BY DEF Edged, ColumnsOf, Kinds, ConsentLog!CreateOffers,
      ConsentLog!CreateWrites, ConsentLog!UpdateOffers,
      ConsentLog!UpdateWrites, ConsentLog!UpdateOneOffers,
      ConsentLog!UpdateOneWrites
<1>3. CreateChecks(ConsentLog!Client, ConsentLog!CreateFills)
  BY DEF CreateChecks, ConsentLog!CreateFills
<1>4. CreateFills(ConsentLog!Client, ConsentLog!CreateFills)
  BY DEF CreateFills, ConsentLog!CreateFills
<1>5. CreateWrites(ConsentLog!Client, ConsentLog!CreateFills,
     ConsentLog!CreateOffers,
                   ConsentLog!CreateWrites)
  BY DEF CreateWrites, ConsentLog!CreateFills, ConsentLog!CreateOffers,
      ConsentLog!CreateWrites
<1>6. Creatable(ConsentLog!Client)
  BY <1>3, <1>4, <1>5 DEF Creatable
<1>7. WritesFit(ConsentLog!Client, ConsentLog!UpdateWrites)
  BY DEF WritesFit, ConsentLog!UpdateWrites
<1>8. FillsFit(ConsentLog!Client, ConsentLog!UpdateFills,
     ConsentLog!UpdateWrites)
  BY DEF FillsFit, ConsentLog!UpdateFills, ConsentLog!UpdateWrites
<1>9. OffersFit(ConsentLog!Client, ConsentLog!UpdateOffers,
     ConsentLog!UpdateWrites)
  BY DEF OffersFit, ConsentLog!UpdateOffers, ConsentLog!UpdateWrites
<1>10. Updatable(ConsentLog!Client)
  BY <1>7, <1>8, <1>9 DEF Updatable, Updates, ConsentLog!UpdateOneOffers,
      ConsentLog!UpdateOneFills, ConsentLog!UpdateOneWrites
<1>11. Readable(ConsentLog!Client)
  BY DEF Readable, ConsentLog!Loads
<1>12. ChildrenReadable(ConsentLog!Client)
  BY DEF ChildrenReadable, ConsentLog!Loads
<1> QED
  BY <1>1, <1>2, <1>6, <1>10, <1>11, <1>12 DEF Coherent

LEMMA EventLogCoherent == Coherent(EventLog!Client)
<1> USE DEF EventLog!Client, EventLog!Fields, EventLog!AddFields,
    EventLog!ClearFields, EventLog!SetFields, EventLog!ResetFields,
    EventLog!Edges, EventLog!Slots, EventLog!Table, EventLog!Declared,
    EventLog!Selected, EventLog!Scans
<1>1. Named(EventLog!Client)
  BY DEF Named, ColumnsOf
<1>2. Edged(EventLog!Client)
  BY DEF Edged, ColumnsOf, Kinds, EventLog!CreateOffers, EventLog!CreateWrites,
      EventLog!UpdateOffers, EventLog!UpdateWrites, EventLog!UpdateOneOffers,
      EventLog!UpdateOneWrites
<1>3. CreateChecks(EventLog!Client, EventLog!CreateFills)
  BY DEF CreateChecks, EventLog!CreateFills
<1>4. CreateFills(EventLog!Client, EventLog!CreateFills)
  BY DEF CreateFills, EventLog!CreateFills
<1>5. CreateWrites(EventLog!Client, EventLog!CreateFills,
     EventLog!CreateOffers,
                   EventLog!CreateWrites)
  BY DEF CreateWrites, EventLog!CreateFills, EventLog!CreateOffers,
      EventLog!CreateWrites
<1>6. Creatable(EventLog!Client)
  BY <1>3, <1>4, <1>5 DEF Creatable
<1>7. WritesFit(EventLog!Client, EventLog!UpdateWrites)
  BY DEF WritesFit, EventLog!UpdateWrites
<1>8. FillsFit(EventLog!Client, EventLog!UpdateFills, EventLog!UpdateWrites)
  BY DEF FillsFit, EventLog!UpdateFills, EventLog!UpdateWrites
<1>9. OffersFit(EventLog!Client, EventLog!UpdateOffers, EventLog!UpdateWrites)
  BY DEF OffersFit, EventLog!UpdateOffers, EventLog!UpdateWrites
<1>10. Updatable(EventLog!Client)
  BY <1>7, <1>8, <1>9 DEF Updatable, Updates, EventLog!UpdateOneOffers,
      EventLog!UpdateOneFills, EventLog!UpdateOneWrites
<1>11. Readable(EventLog!Client)
  BY DEF Readable, EventLog!Loads
<1>12. ChildrenReadable(EventLog!Client)
  BY DEF ChildrenReadable, EventLog!Loads
<1> QED
  BY <1>1, <1>2, <1>6, <1>10, <1>11, <1>12 DEF Coherent

LEMMA ItemCoherent == Coherent(Item!Client)
<1> USE DEF Item!Client, Item!Fields, Item!AddFields, Item!ClearFields,
    Item!SetFields, Item!ResetFields, Item!Edges, Item!Slots, Item!Table,
    Item!Declared, Item!Selected, Item!Scans
<1>1. Named(Item!Client)
  BY DEF Named, ColumnsOf
<1>2. Edged(Item!Client)
  BY DEF Edged, ColumnsOf, Kinds, Item!CreateOffers, Item!CreateWrites,
      Item!UpdateOffers, Item!UpdateWrites, Item!UpdateOneOffers,
      Item!UpdateOneWrites
<1>3. CreateChecks(Item!Client, Item!CreateFills)
  BY DEF CreateChecks, Item!CreateFills
<1>4. CreateFills(Item!Client, Item!CreateFills)
  BY DEF CreateFills, Item!CreateFills
<1>5. CreateWrites(Item!Client, Item!CreateFills, Item!CreateOffers,
                   Item!CreateWrites)
  BY DEF CreateWrites, Item!CreateFills, Item!CreateOffers, Item!CreateWrites
<1>6. Creatable(Item!Client)
  BY <1>3, <1>4, <1>5 DEF Creatable
<1>7. WritesFit(Item!Client, Item!UpdateWrites)
  BY DEF WritesFit, Item!UpdateWrites
<1>8. FillsFit(Item!Client, Item!UpdateFills, Item!UpdateWrites)
  BY DEF FillsFit, Item!UpdateFills, Item!UpdateWrites
<1>9. OffersFit(Item!Client, Item!UpdateOffers, Item!UpdateWrites)
  BY DEF OffersFit, Item!UpdateOffers, Item!UpdateWrites
<1>10. Updatable(Item!Client)
  BY <1>7, <1>8, <1>9 DEF Updatable, Updates, Item!UpdateOneOffers,
      Item!UpdateOneFills, Item!UpdateOneWrites
<1>11. Readable(Item!Client)
  BY DEF Readable, Item!Loads
<1>12. ChildrenReadable(Item!Client)
  BY DEF ChildrenReadable, Client, Item!Loads, Product!Client,
      Product!Selected, Product!Fields
<1> QED
  BY <1>1, <1>2, <1>6, <1>10, <1>11, <1>12 DEF Coherent

LEMMA MusicCoherent == Coherent(Music!Client)
<1> USE DEF Music!Client, Music!Fields, Music!AddFields, Music!ClearFields,
    Music!SetFields, Music!ResetFields, Music!Edges, Music!Slots, Music!Table,
    Music!Declared, Music!Selected, Music!Scans
<1>1. Named(Music!Client)
  BY DEF Named, ColumnsOf
<1>2. Edged(Music!Client)
  BY DEF Edged, ColumnsOf, Kinds, Music!CreateOffers, Music!CreateWrites,
      Music!UpdateOffers, Music!UpdateWrites, Music!UpdateOneOffers,
      Music!UpdateOneWrites
<1>3. CreateChecks(Music!Client, Music!CreateFills)
  BY DEF CreateChecks, Music!CreateFills
<1>4. CreateFills(Music!Client, Music!CreateFills)
  BY DEF CreateFills, Music!CreateFills
<1>5. CreateWrites(Music!Client, Music!CreateFills, Music!CreateOffers,
                   Music!CreateWrites)
  BY DEF CreateWrites, Music!CreateFills, Music!CreateOffers,
      Music!CreateWrites
<1>6. Creatable(Music!Client)
  BY <1>3, <1>4, <1>5 DEF Creatable
<1>7. WritesFit(Music!Client, Music!UpdateWrites)
  BY DEF WritesFit, Music!UpdateWrites
<1>8. FillsFit(Music!Client, Music!UpdateFills, Music!UpdateWrites)
  BY DEF FillsFit, Music!UpdateFills, Music!UpdateWrites
<1>9. OffersFit(Music!Client, Music!UpdateOffers, Music!UpdateWrites)
  BY DEF OffersFit, Music!UpdateOffers, Music!UpdateWrites
<1>10. Updatable(Music!Client)
  BY <1>7, <1>8, <1>9 DEF Updatable, Updates, Music!UpdateOneOffers,
      Music!UpdateOneFills, Music!UpdateOneWrites
<1>11. Readable(Music!Client)
  BY DEF Readable, Music!Loads
<1>12. ChildrenReadable(Music!Client)
  BY DEF ChildrenReadable, Client, Music!Loads, Record!Client, Record!Selected,
      Record!Fields, Stage!Client, Stage!Selected, Stage!Fields
<1> QED
  BY <1>1, <1>2, <1>6, <1>10, <1>11, <1>12 DEF Coherent

LEMMA ProductCoherent == Coherent(Product!Client)
<1> USE DEF Product!Client, Product!Fields, Product!AddFields,
    Product!ClearFields, Product!SetFields, Product!ResetFields, Product!Edges,
    Product!Slots, Product!Table, Product!Declared, Product!Selected,
    Product!Scans
<1>1. Named(Product!Client)
  BY DEF Named, ColumnsOf
<1>2. Edged(Product!Client)
  BY DEF Edged, ColumnsOf, Kinds, Product!CreateOffers, Product!CreateWrites,
      Product!UpdateOffers, Product!UpdateWrites, Product!UpdateOneOffers,
      Product!UpdateOneWrites
<1>3. CreateChecks(Product!Client, Product!CreateFills)
  BY DEF CreateChecks, Product!CreateFills
<1>4. CreateFills(Product!Client, Product!CreateFills)
  BY DEF CreateFills, Product!CreateFills
<1>5. CreateWrites(Product!Client, Product!CreateFills, Product!CreateOffers,
                   Product!CreateWrites)
  BY DEF CreateWrites, Product!CreateFills, Product!CreateOffers,
      Product!CreateWrites
<1>6. Creatable(Product!Client)
  BY <1>3, <1>4, <1>5 DEF Creatable
<1>7. WritesFit(Product!Client, Product!UpdateWrites)
  BY DEF WritesFit, Product!UpdateWrites
<1>8. FillsFit(Product!Client, Product!UpdateFills, Product!UpdateWrites)
  BY DEF FillsFit, Product!UpdateFills, Product!UpdateWrites
<1>9. OffersFit(Product!Client, Product!UpdateOffers, Product!UpdateWrites)
  BY DEF OffersFit, Product!UpdateOffers, Product!UpdateWrites
<1>10. Updatable(Product!Client)
  BY <1>7, <1>8, <1>9 DEF Updatable, Updates, Product!UpdateOneOffers,
      Product!UpdateOneFills, Product!UpdateOneWrites
<1>11. Readable(Product!Client)
  BY DEF Readable, Product!Loads
<1>12. ChildrenReadable(Product!Client)
  BY DEF ChildrenReadable, Client, Product!Loads, UserPurchase!Client,
      UserPurchase!Selected, UserPurchase!Fields
<1> QED
  BY <1>1, <1>2, <1>6, <1>10, <1>11, <1>12 DEF Coherent

LEMMA RecordCoherent == Coherent(Record!Client)
<1> USE DEF Record!Client, Record!Fields, Record!AddFields, Record!ClearFields,
    Record!SetFields, Record!ResetFields, Record!Edges, Record!Slots,
    Record!Table, Record!Declared, Record!Selected, Record!Scans
<1>1. Named(Record!Client)
  BY DEF Named, ColumnsOf
<1>2. Edged(Record!Client)
  BY DEF Edged, ColumnsOf, Kinds, Record!CreateOffers, Record!CreateWrites,
      Record!UpdateOffers, Record!UpdateWrites, Record!UpdateOneOffers,
      Record!UpdateOneWrites
<1>3. CreateChecks(Record!Client, Record!CreateFills)
  BY DEF CreateChecks, Record!CreateFills
<1>4. CreateFills(Record!Client, Record!CreateFills)
  BY DEF CreateFills, Record!CreateFills
<1>5. CreateWrites(Record!Client, Record!CreateFills, Record!CreateOffers,
                   Record!CreateWrites)
  BY DEF CreateWrites, Record!CreateFills, Record!CreateOffers,
      Record!CreateWrites
<1>6. Creatable(Record!Client)
  BY <1>3, <1>4, <1>5 DEF Creatable
<1>7. WritesFit(Record!Client, Record!UpdateWrites)
  BY DEF WritesFit, Record!UpdateWrites
<1>8. FillsFit(Record!Client, Record!UpdateFills, Record!UpdateWrites)
  BY DEF FillsFit, Record!UpdateFills, Record!UpdateWrites
<1>9. OffersFit(Record!Client, Record!UpdateOffers, Record!UpdateWrites)
  BY DEF OffersFit, Record!UpdateOffers, Record!UpdateWrites
<1>10. Updatable(Record!Client)
  BY <1>7, <1>8, <1>9 DEF Updatable, Updates, Record!UpdateOneOffers,
      Record!UpdateOneFills, Record!UpdateOneWrites
<1>11. Readable(Record!Client)
  BY DEF Readable, Record!Loads
<1>12. ChildrenReadable(Record!Client)
  BY DEF ChildrenReadable, Record!Loads
<1> QED
  BY <1>1, <1>2, <1>6, <1>10, <1>11, <1>12 DEF Coherent

LEMMA StageCoherent == Coherent(Stage!Client)
<1> USE DEF Stage!Client, Stage!Fields, Stage!AddFields, Stage!ClearFields,
    Stage!SetFields, Stage!ResetFields, Stage!Edges, Stage!Slots, Stage!Table,
    Stage!Declared, Stage!Selected, Stage!Scans
<1>1. Named(Stage!Client)
  BY DEF Named, ColumnsOf
<1>2. Edged(Stage!Client)
  BY DEF Edged, ColumnsOf, Kinds, Stage!CreateOffers, Stage!CreateWrites,
      Stage!UpdateOffers, Stage!UpdateWrites, Stage!UpdateOneOffers,
      Stage!UpdateOneWrites
<1>3. CreateChecks(Stage!Client, Stage!CreateFills)
  BY DEF CreateChecks, Stage!CreateFills
<1>4. CreateFills(Stage!Client, Stage!CreateFills)
  BY DEF CreateFills, Stage!CreateFills
<1>5. CreateWrites(Stage!Client, Stage!CreateFills, Stage!CreateOffers,
                   Stage!CreateWrites)
  BY DEF CreateWrites, Stage!CreateFills, Stage!CreateOffers,
      Stage!CreateWrites
<1>6. Creatable(Stage!Client)
  BY <1>3, <1>4, <1>5 DEF Creatable
<1>7. WritesFit(Stage!Client, Stage!UpdateWrites)
  BY DEF WritesFit, Stage!UpdateWrites
<1>8. FillsFit(Stage!Client, Stage!UpdateFills, Stage!UpdateWrites)
  BY DEF FillsFit, Stage!UpdateFills, Stage!UpdateWrites
<1>9. OffersFit(Stage!Client, Stage!UpdateOffers, Stage!UpdateWrites)
  BY DEF OffersFit, Stage!UpdateOffers, Stage!UpdateWrites
<1>10. Updatable(Stage!Client)
  BY <1>7, <1>8, <1>9 DEF Updatable, Updates, Stage!UpdateOneOffers,
      Stage!UpdateOneFills, Stage!UpdateOneWrites
<1>11. Readable(Stage!Client)
  BY DEF Readable, Stage!Loads
<1>12. ChildrenReadable(Stage!Client)
  BY DEF ChildrenReadable, Client, Stage!Loads, Record!Client, Record!Selected,
      Record!Fields
<1> QED
  BY <1>1, <1>2, <1>6, <1>10, <1>11, <1>12 DEF Coherent

LEMMA TLevelCoherent == Coherent(TLevel!Client)
<1> USE DEF TLevel!Client, TLevel!Fields, TLevel!AddFields, TLevel!ClearFields,
    TLevel!SetFields, TLevel!ResetFields, TLevel!Edges, TLevel!Slots,
    TLevel!Table, TLevel!Declared, TLevel!Selected, TLevel!Scans
<1>1. Named(TLevel!Client)
  BY DEF Named, ColumnsOf
<1>2. Edged(TLevel!Client)
  BY DEF Edged, ColumnsOf, Kinds, TLevel!CreateOffers, TLevel!CreateWrites,
      TLevel!UpdateOffers, TLevel!UpdateWrites, TLevel!UpdateOneOffers,
      TLevel!UpdateOneWrites
<1>3. CreateChecks(TLevel!Client, TLevel!CreateFills)
  BY DEF CreateChecks, TLevel!CreateFills
<1>4. CreateFills(TLevel!Client, TLevel!CreateFills)
  BY DEF CreateFills, TLevel!CreateFills
<1>5. CreateWrites(TLevel!Client, TLevel!CreateFills, TLevel!CreateOffers,
                   TLevel!CreateWrites)
  BY DEF CreateWrites, TLevel!CreateFills, TLevel!CreateOffers,
      TLevel!CreateWrites
<1>6. Creatable(TLevel!Client)
  BY <1>3, <1>4, <1>5 DEF Creatable
<1>7. WritesFit(TLevel!Client, TLevel!UpdateWrites)
  BY DEF WritesFit, TLevel!UpdateWrites
<1>8. FillsFit(TLevel!Client, TLevel!UpdateFills, TLevel!UpdateWrites)
  BY DEF FillsFit, TLevel!UpdateFills, TLevel!UpdateWrites
<1>9. OffersFit(TLevel!Client, TLevel!UpdateOffers, TLevel!UpdateWrites)
  BY DEF OffersFit, TLevel!UpdateOffers, TLevel!UpdateWrites
<1>10. Updatable(TLevel!Client)
  BY <1>7, <1>8, <1>9 DEF Updatable, Updates, TLevel!UpdateOneOffers,
      TLevel!UpdateOneFills, TLevel!UpdateOneWrites
<1>11. Readable(TLevel!Client)
  BY DEF Readable, TLevel!Loads
<1>12. ChildrenReadable(TLevel!Client)
  BY DEF ChildrenReadable, TLevel!Loads
<1> QED
  BY <1>1, <1>2, <1>6, <1>10, <1>11, <1>12 DEF Coherent

LEMMA TRankCoherent == Coherent(TRank!Client)
<1> USE DEF TRank!Client, TRank!Fields, TRank!AddFields, TRank!ClearFields,
    TRank!SetFields, TRank!ResetFields, TRank!Edges, TRank!Slots, TRank!Table,
    TRank!Declared, TRank!Selected, TRank!Scans
<1>1. Named(TRank!Client)
  BY DEF Named, ColumnsOf
<1>2. Edged(TRank!Client)
  BY DEF Edged, ColumnsOf, Kinds, TRank!CreateOffers, TRank!CreateWrites,
      TRank!UpdateOffers, TRank!UpdateWrites, TRank!UpdateOneOffers,
      TRank!UpdateOneWrites
<1>3. CreateChecks(TRank!Client, TRank!CreateFills)
  BY DEF CreateChecks, TRank!CreateFills
<1>4. CreateFills(TRank!Client, TRank!CreateFills)
  BY DEF CreateFills, TRank!CreateFills
<1>5. CreateWrites(TRank!Client, TRank!CreateFills, TRank!CreateOffers,
                   TRank!CreateWrites)
  BY DEF CreateWrites, TRank!CreateFills, TRank!CreateOffers,
      TRank!CreateWrites
<1>6. Creatable(TRank!Client)
  BY <1>3, <1>4, <1>5 DEF Creatable
<1>7. WritesFit(TRank!Client, TRank!UpdateWrites)
  BY DEF WritesFit, TRank!UpdateWrites
<1>8. FillsFit(TRank!Client, TRank!UpdateFills, TRank!UpdateWrites)
  BY DEF FillsFit, TRank!UpdateFills, TRank!UpdateWrites
<1>9. OffersFit(TRank!Client, TRank!UpdateOffers, TRank!UpdateWrites)
  BY DEF OffersFit, TRank!UpdateOffers, TRank!UpdateWrites
<1>10. Updatable(TRank!Client)
  BY <1>7, <1>8, <1>9 DEF Updatable, Updates, TRank!UpdateOneOffers,
      TRank!UpdateOneFills, TRank!UpdateOneWrites
<1>11. Readable(TRank!Client)
  BY DEF Readable, TRank!Loads
<1>12. ChildrenReadable(TRank!Client)
  BY DEF ChildrenReadable, TRank!Loads
<1> QED
  BY <1>1, <1>2, <1>6, <1>10, <1>11, <1>12 DEF Coherent

LEMMA UserCoherent == Coherent(User!Client)
<1> USE DEF User!Client, User!Fields, User!AddFields, User!ClearFields,
    User!SetFields, User!ResetFields, User!Edges, User!Slots, User!Table,
    User!Declared, User!Selected, User!Scans
<1>1. Named(User!Client)
  BY DEF Named, ColumnsOf
<1>2. Edged(User!Client)
  BY DEF Edged, ColumnsOf, Kinds, User!CreateOffers, User!CreateWrites,
      User!UpdateOffers, User!UpdateWrites, User!UpdateOneOffers,
      User!UpdateOneWrites
<1>3. CreateChecks(User!Client, User!CreateFills)
  BY DEF CreateChecks, User!CreateFills
<1>4. CreateFills(User!Client, User!CreateFills)
  BY DEF CreateFills, User!CreateFills
<1>5. CreateWrites(User!Client, User!CreateFills, User!CreateOffers,
                   User!CreateWrites)
  BY DEF CreateWrites, User!CreateFills, User!CreateOffers, User!CreateWrites
<1>6. Creatable(User!Client)
  BY <1>3, <1>4, <1>5 DEF Creatable
<1>7. WritesFit(User!Client, User!UpdateWrites)
  BY DEF WritesFit, User!UpdateWrites
<1>8. FillsFit(User!Client, User!UpdateFills, User!UpdateWrites)
  BY DEF FillsFit, User!UpdateFills, User!UpdateWrites
<1>9. OffersFit(User!Client, User!UpdateOffers, User!UpdateWrites)
  BY DEF OffersFit, User!UpdateOffers, User!UpdateWrites
<1>10. Updatable(User!Client)
  BY <1>7, <1>8, <1>9 DEF Updatable, Updates, User!UpdateOneOffers,
      User!UpdateOneFills, User!UpdateOneWrites
<1>11. Readable(User!Client)
  BY DEF Readable, User!Loads
<1>12. ChildrenReadable(User!Client)
  BY DEF ChildrenReadable, Client, User!Loads, EventLog!Client,
      EventLog!Selected, EventLog!Fields, Record!Client, Record!Selected,
      Record!Fields, UserAchievement!Client, UserAchievement!Selected,
      UserAchievement!Fields, UserPurchase!Client, UserPurchase!Selected,
      UserPurchase!Fields
<1> QED
  BY <1>1, <1>2, <1>6, <1>10, <1>11, <1>12 DEF Coherent

LEMMA UserAchievementCoherent == Coherent(UserAchievement!Client)
<1> USE DEF UserAchievement!Client, UserAchievement!Fields,
    UserAchievement!AddFields, UserAchievement!ClearFields,
    UserAchievement!SetFields, UserAchievement!ResetFields,
    UserAchievement!Edges, UserAchievement!Slots, UserAchievement!Table,
    UserAchievement!Declared, UserAchievement!Selected, UserAchievement!Scans
<1>1. Named(UserAchievement!Client)
  BY DEF Named, ColumnsOf
<1>2. Edged(UserAchievement!Client)
  BY DEF Edged, ColumnsOf, Kinds, UserAchievement!CreateOffers,
      UserAchievement!CreateWrites, UserAchievement!UpdateOffers,
      UserAchievement!UpdateWrites, UserAchievement!UpdateOneOffers,
      UserAchievement!UpdateOneWrites
<1>3. CreateChecks(UserAchievement!Client, UserAchievement!CreateFills)
  BY DEF CreateChecks, UserAchievement!CreateFills
<1>4. CreateFills(UserAchievement!Client, UserAchievement!CreateFills)
  BY DEF CreateFills, UserAchievement!CreateFills
<1>5. CreateWrites(UserAchievement!Client, UserAchievement!CreateFills,
     UserAchievement!CreateOffers,
                   UserAchievement!CreateWrites)
  BY DEF CreateWrites, UserAchievement!CreateFills,
      UserAchievement!CreateOffers, UserAchievement!CreateWrites
<1>6. Creatable(UserAchievement!Client)
  BY <1>3, <1>4, <1>5 DEF Creatable
<1>7. WritesFit(UserAchievement!Client, UserAchievement!UpdateWrites)
  BY DEF WritesFit, UserAchievement!UpdateWrites
<1>8. FillsFit(UserAchievement!Client, UserAchievement!UpdateFills,
     UserAchievement!UpdateWrites)
  BY DEF FillsFit, UserAchievement!UpdateFills, UserAchievement!UpdateWrites
<1>9. OffersFit(UserAchievement!Client, UserAchievement!UpdateOffers,
     UserAchievement!UpdateWrites)
  BY DEF OffersFit, UserAchievement!UpdateOffers, UserAchievement!UpdateWrites
<1>10. Updatable(UserAchievement!Client)
  BY <1>7, <1>8, <1>9 DEF Updatable, Updates, UserAchievement!UpdateOneOffers,
      UserAchievement!UpdateOneFills, UserAchievement!UpdateOneWrites
<1>11. Readable(UserAchievement!Client)
  BY DEF Readable, UserAchievement!Loads
<1>12. ChildrenReadable(UserAchievement!Client)
  BY DEF ChildrenReadable, UserAchievement!Loads
<1> QED
  BY <1>1, <1>2, <1>6, <1>10, <1>11, <1>12 DEF Coherent

LEMMA UserPurchaseCoherent == Coherent(UserPurchase!Client)
<1> USE DEF UserPurchase!Client, UserPurchase!Fields, UserPurchase!AddFields,
    UserPurchase!ClearFields, UserPurchase!SetFields, UserPurchase!ResetFields,
    UserPurchase!Edges, UserPurchase!Slots, UserPurchase!Table,
    UserPurchase!Declared, UserPurchase!Selected, UserPurchase!Scans
<1>1. Named(UserPurchase!Client)
  BY DEF Named, ColumnsOf
<1>2. Edged(UserPurchase!Client)
  BY DEF Edged, ColumnsOf, Kinds, UserPurchase!CreateOffers,
      UserPurchase!CreateWrites, UserPurchase!UpdateOffers,
      UserPurchase!UpdateWrites, UserPurchase!UpdateOneOffers,
      UserPurchase!UpdateOneWrites
<1>3. CreateChecks(UserPurchase!Client, UserPurchase!CreateFills)
  BY DEF CreateChecks, UserPurchase!CreateFills
<1>4. CreateFills(UserPurchase!Client, UserPurchase!CreateFills)
  BY DEF CreateFills, UserPurchase!CreateFills
<1>5. CreateWrites(UserPurchase!Client, UserPurchase!CreateFills,
     UserPurchase!CreateOffers,
                   UserPurchase!CreateWrites)
  BY DEF CreateWrites, UserPurchase!CreateFills, UserPurchase!CreateOffers,
      UserPurchase!CreateWrites
<1>6. Creatable(UserPurchase!Client)
  BY <1>3, <1>4, <1>5 DEF Creatable
<1>7. WritesFit(UserPurchase!Client, UserPurchase!UpdateWrites)
  BY DEF WritesFit, UserPurchase!UpdateWrites
<1>8. FillsFit(UserPurchase!Client, UserPurchase!UpdateFills,
     UserPurchase!UpdateWrites)
  BY DEF FillsFit, UserPurchase!UpdateFills, UserPurchase!UpdateWrites
<1>9. OffersFit(UserPurchase!Client, UserPurchase!UpdateOffers,
     UserPurchase!UpdateWrites)
  BY DEF OffersFit, UserPurchase!UpdateOffers, UserPurchase!UpdateWrites
<1>10. Updatable(UserPurchase!Client)
  BY <1>7, <1>8, <1>9 DEF Updatable, Updates, UserPurchase!UpdateOneOffers,
      UserPurchase!UpdateOneFills, UserPurchase!UpdateOneWrites
<1>11. Readable(UserPurchase!Client)
  BY DEF Readable, UserPurchase!Loads
<1>12. ChildrenReadable(UserPurchase!Client)
  BY DEF ChildrenReadable, UserPurchase!Loads
<1> QED
  BY <1>1, <1>2, <1>6, <1>10, <1>11, <1>12 DEF Coherent

\* The generated files of every entity of the client agree: with the schema,
\* with the table, and with each other.
THEOREM ClientCoherent == \A e \in DOMAIN Client : Coherent(Client[e])
  BY AchievementCoherent, CharacterCoherent, ConsentLogCoherent,
     EventLogCoherent, ItemCoherent, MusicCoherent, ProductCoherent,
     RecordCoherent, StageCoherent, TLevelCoherent, TRankCoherent,
     UserCoherent, UserAchievementCoherent, UserPurchaseCoherent
  DEF Client

-------------------------------------------------------------------------------
(*****************************************************************************)
(* The invariant.                                                            *)
(*****************************************************************************)

\* The entity of a behaviour is one of the client.
LEMMA CoherentHere == EntTypeOK => Coherent(C)
  BY ClientCoherent, EntAssumption DEF EntTypeOK, C

\* What depends on the entity and the focus alone.
LEMMA SameEntity ==
  ASSUME entity' = entity, focus' = focus
  PROVE  /\ C' = C /\ Columns' = Columns /\ Many' = Many
         /\ IsEdge' = IsEdge /\ IsParent' = IsParent
  BY DEF C, Columns, Many, IsEdge, IsParent

Wishes == [is : {"keep", "null", "good", "bad", "ours", "not ours"},
           plus : 0..MaxCalls]

\* What is asked of a mutation is a wish.
LEMMA AskedType == ASSUME NEW m \in Mutations PROVE Asked(m) \in Wishes
<1>1. /\ m.plus \in 0..MaxCalls /\ 0 \in 0..MaxCalls
      /\ m.value \in {"good", "bad", "unset"}
  BY EntAssumption DEF Mutations, Given
<1>2. CASE IsEdge
  <2>1. Asked(m).is \in {"keep", "ours", "not ours"}
    BY <1>2 DEF Asked
  <2>2. Asked(m).plus \in 0..MaxCalls
    BY <1>1, <1>2 DEF Asked
  <2>3. Asked(m) = [is |-> Asked(m).is, plus |-> Asked(m).plus]
    BY <1>2 DEF Asked
  <2> QED
    BY <2>1, <2>2, <2>3 DEF Wishes
<1>3. CASE ~IsEdge
  <2>1. Asked(m).is \in {"keep", "null", "good", "bad"}
    BY <1>1, <1>3 DEF Asked
  <2>2. Asked(m).plus \in 0..MaxCalls
    BY <1>1, <1>3 DEF Asked
  <2>3. Asked(m) = [is |-> Asked(m).is, plus |-> Asked(m).plus]
    BY <1>3 DEF Asked
  <2> QED
    BY <2>1, <2>2, <2>3 DEF Wishes
<1> QED
  BY <1>2, <1>3

\* A new mutation asks for nothing.
LEMMA FreshFits ==
  ASSUME NEW kind \in Kinds
  PROVE  /\ NewMutation(kind) \in Mutations
         /\ Fits(NewMutation(kind))
         /\ Asked(NewMutation(kind)) = NoWish
  BY EntAssumption DEF NewMutation, Mutations, Fits, Asked, NoWish

LEMMA InitInv == Init => EntInv
<1>1. Idle \in Mutations
  BY EntAssumption DEF Idle, NewMutation, Mutations
<1> QED
  BY <1>1, EntAssumption
  DEF Init, EntInv, EntTypeOK, BuilderFits, WishIsAsked, ChildOnEdge,
      InvalidNeverStored, Idle, NewMutation, NoWish

LEMMA NewBuilderKeeps ==
  ASSUME EntInv, NEW kind \in Kinds, NewBuilder(kind)
  PROVE  EntInv'
<1>1. /\ C' = C /\ Columns' = Columns /\ Many' = Many
      /\ IsEdge' = IsEdge /\ IsParent' = IsParent
  BY SameEntity DEF NewBuilder
<1>2. /\ builder' = NewMutation(kind) /\ wish' = NoWish
      /\ wish' \in Wishes
      /\ kind # "create" => row # NoRow
      /\ saves < MaxSaves /\ row' = row /\ saves' = saves
      /\ focus' = focus
  BY EntAssumption DEF NewBuilder, NoWish, Wishes
<1>3. Fits(builder)' /\ Asked(builder)' = NoWish /\ builder' \in Mutations
  BY <1>1, <1>2, FreshFits DEF Fits, Asked
<1>4. EntTypeOK'
  BY <1>1, <1>2, <1>3 DEF EntInv, EntTypeOK, NewBuilder, Wishes
<1>5. BuilderFits'
  BY <1>1, <1>2, <1>3
  DEF NewMutation, BuilderFits, Updating
<1>6. WishIsAsked'
  BY <1>2, <1>3 DEF WishIsAsked
<1>7. ChildOnEdge' /\ InvalidNeverStored'
  BY <1>1 DEF EntInv, NewBuilder, ChildOnEdge, InvalidNeverStored
<1> QED
  BY <1>4, <1>5, <1>6, <1>7 DEF EntInv

\* A call keeps the invariant if its mutation fits the entity and its wish is
\* what that mutation asks for.
LEMMA CallKeeps ==
  ASSUME EntInv, builder.kind # "none", builder.calls < MaxCalls,
         NEW m \in Mutations, NEW w, Call(m, w),
         m.kind = builder.kind, m.plus <= builder.calls + 1,
         Fits(m), w = Asked(m)
  PROVE  EntInv'
<1>1. /\ C' = C /\ Columns' = Columns /\ Many' = Many
      /\ IsEdge' = IsEdge /\ IsParent' = IsParent /\ focus' = focus
  BY SameEntity DEF Call
<1>2. /\ builder' = [m EXCEPT !.calls = builder.calls + 1] /\ wish' = w
      /\ row' = row /\ saves' = saves /\ child' = child
  BY DEF Call
<1>type. builder \in Mutations
  BY DEF EntInv, EntTypeOK
<1>3. builder.calls \in Nat
  BY <1>type, EntAssumption DEF Mutations
<1>4. builder' \in Mutations
  BY <1>2, <1>type, EntAssumption DEF Mutations
<1>5. /\ builder'.kind = m.kind /\ builder'.value = m.value
      /\ builder'.plus = m.plus /\ builder'.cleared = m.cleared
      /\ builder'.added = m.added /\ builder'.removed = m.removed
      /\ builder'.calls = builder.calls + 1
  BY <1>2 DEF Mutations
<1>6. Fits(builder)' /\ wish' = Asked(builder)'
  BY <1>1, <1>2, <1>5 DEF Fits, Asked
<1>7. w \in Wishes
  BY AskedType
<1>8. EntTypeOK'
  BY <1>1, <1>2, <1>4, <1>7 DEF EntInv, EntTypeOK, Wishes, Call
<1>9. BuilderFits'
  BY <1>2, <1>5, <1>6 DEF EntInv, BuilderFits, Updating
<1>10. WishIsAsked'
  BY <1>6 DEF WishIsAsked
<1>11. ChildOnEdge' /\ InvalidNeverStored'
  BY <1>1, <1>2 DEF EntInv, ChildOnEdge, InvalidNeverStored
<1> QED
  BY <1>8, <1>9, <1>10, <1>11 DEF EntInv

\* The focus is an edge or a column, never both.
LEMMA HereFacts ==
  ASSUME EntTypeOK
  PROVE  /\ \A k \in Kinds : IsEdge => focus \notin C.offers[k].set
         /\ IsEdge => /\ focus \notin C.setFields \cup C.resetFields
                      /\ focus \notin C.slots.counters \cup C.slots.nullables
                      /\ focus \notin C.slots.parents
                      /\ focus \notin Columns
         /\ \A k \in Kinds : IsEdge => focus \in C.writes[k].many
         /\ ~IsEdge => focus \in Columns
  BY CoherentHere
  DEF Coherent, Named, Edged, IsEdge, Many, Columns, ColumnsOf, EntTypeOK

LEMMA Regiven ==
  ASSUME NEW x, NEW y
  PROVE  [[is |-> x, plus |-> 0] EXCEPT !.is = y] = [is |-> y, plus |-> 0]
  OBVIOUS

LEMMA CallsKeep ==
  ASSUME EntInv, Calls
  PROVE  EntInv'
<1>1. /\ builder.kind # "none" /\ builder.calls < MaxCalls
      /\ wish = Asked(builder) /\ Fits(builder)
      /\ builder.plus <= builder.calls
      /\ builder \in Mutations /\ EntTypeOK
  BY DEF EntInv, EntTypeOK, Calls, WishIsAsked, BuilderFits
<1>2. /\ builder.kind \in Kinds
      /\ builder.calls \in Nat /\ builder.plus \in Nat
      /\ builder.plus + 1 \in 0..MaxCalls /\ 0 \in 0..MaxCalls
  BY <1>1, EntAssumption DEF Mutations
<1>3. Updating <=> builder.kind # "create"
  BY <1>2 DEF Updating, Kinds
<1>edge. IsEdge => \A w \in {"ours", "not ours"} :
                   [wish EXCEPT !.is = w] = [is |-> w, plus |-> 0]
  <2>1. SUFFICES ASSUME IsEdge, NEW w \in {"ours", "not ours"}
                 PROVE  [wish EXCEPT !.is = w] = [is |-> w, plus |-> 0]
    OBVIOUS
  <2>2. PICK x : wish = [is |-> x, plus |-> 0]
    BY <1>1, <2>1 DEF Asked
  <2> QED
    BY <2>2, Regiven
<1>4. ASSUME NEW v \in Given, Set(v) PROVE EntInv'
  <2> DEFINE m == [builder EXCEPT !.value = v, !.plus = 0]
  <2>type. m \in Mutations
    BY <1>1, <1>2 DEF Mutations
  <2>given. v # "unset"
    BY DEF Given
  <2>1. /\ m \in Mutations /\ m.kind = builder.kind /\ m.plus = 0
        /\ m.value = v /\ m.value # "unset"
    BY <1>1, <2>type, <2>given DEF Mutations
  <2>2. focus \in C.offers[builder.kind].set \cup C.setFields /\ ~IsEdge
    BY <1>1, <1>2, <1>4, HereFacts DEF Set, Offers
  <2>3. Fits(m)
    BY <1>1, <2>1, <2>2 DEF Fits, Mutations
  <2>4. Asked(m) = [is |-> v, plus |-> 0]
    BY <2>1, <2>2 DEF Asked
  <2>5. Call(m, Asked(m))
    BY <1>4, <2>4 DEF Set
  <2> HIDE DEF m
  <2> QED
    BY <1>1, <1>2, <2>1, <2>3, <2>5, CallKeeps
<1>5. CASE Add
  <2> DEFINE m == [builder EXCEPT !.plus = @ + 1]
  <2>1. /\ m \in Mutations /\ m.kind = builder.kind
        /\ m.plus = builder.plus + 1 /\ m.plus <= builder.calls + 1
    BY <1>1, <1>2 DEF Mutations
  <2>2. focus \in C.slots.counters /\ ~IsEdge
    BY <1>1, <1>5, HereFacts DEF Add
  <2>3. Fits(m)
    BY <1>1, <2>1, <2>2 DEF Fits, Mutations
  <2>4. Asked(m) = IF Updating THEN [wish EXCEPT !.plus = @ + 1] ELSE wish
    BY <1>1, <1>3, <2>1, <2>2 DEF Asked, Mutations
  <2>5. Call(m, Asked(m))
    BY <1>5, <2>4 DEF Add
  <2> HIDE DEF m
  <2> QED
    BY <1>1, <1>2, <2>1, <2>3, <2>5, CallKeeps
<1>6. CASE Clear
  <2> DEFINE m == [builder EXCEPT !.value = "unset", !.plus = 0,
                                  !.cleared = TRUE]
  <2>type. m \in Mutations
    BY <1>1, <1>2 DEF Mutations
  <2>1. /\ m \in Mutations /\ m.kind = builder.kind /\ m.plus = 0
        /\ m.value = "unset" /\ m.cleared
    BY <1>1, <2>type DEF Mutations
  <2>2. focus \in C.slots.nullables /\ ~IsEdge
    BY <1>1, <1>6, HereFacts DEF Clear
  <2>3. Fits(m)
    BY <1>1, <2>1, <2>2 DEF Fits, Mutations
  <2>4. Asked(m) = [is |-> "null", plus |-> 0]
    BY <2>1, <2>2 DEF Asked
  <2>5. Call(m, Asked(m))
    BY <1>6, <2>4 DEF Clear
  <2> HIDE DEF m
  <2> QED
    BY <1>1, <1>2, <2>1, <2>3, <2>5, CallKeeps
<1>7. CASE Unlink
  <2> DEFINE m == [builder EXCEPT !.cleared = TRUE]
  <2>1. /\ m \in Mutations /\ m.kind = builder.kind
        /\ m.plus = builder.plus /\ m.value = builder.value /\ m.cleared
    BY <1>1 DEF Mutations
  <2>2. IsParent /\ ~IsEdge
    BY <1>1, <1>7, HereFacts DEF Unlink, IsParent
  <2>3. Fits(m)
    BY <1>1, <2>1, <2>2 DEF Fits, Mutations
  <2>4. Asked(m) =
          [wish EXCEPT !.is = IF builder.value = "unset" THEN "null" ELSE @]
    BY <1>1, <2>1, <2>2 DEF Asked, Mutations
  <2>5. Call(m, Asked(m))
    BY <1>7, <2>4 DEF Unlink
  <2> HIDE DEF m
  <2> QED
    BY <1>1, <1>2, <2>1, <2>3, <2>5, CallKeeps
<1>8. CASE Reset
  <2> DEFINE m == [builder EXCEPT !.value = "unset", !.plus = 0,
                                  !.cleared = IsParent /\ @]
  <2>type. m \in Mutations
    BY <1>1, <1>2 DEF Mutations, IsParent
  <2>1. /\ m \in Mutations /\ m.kind = builder.kind /\ m.plus = 0
        /\ m.value = "unset" /\ m.cleared = (IsParent /\ builder.cleared)
    BY <1>1, <2>type DEF Mutations
  <2>2. ~IsEdge
    BY <1>1, <1>8, HereFacts DEF Reset
  <2>3. Fits(m)
    BY <1>1, <2>1, <2>2 DEF Fits, Mutations
  <2>4. Asked(m) =
          [is |-> IF IsParent /\ builder.cleared THEN "null" ELSE "keep",
           plus |-> 0]
    BY <2>1, <2>2 DEF Asked
  <2>5. Call(m, Asked(m))
    BY <1>8, <2>4 DEF Reset
  <2> HIDE DEF m
  <2> QED
    BY <1>1, <1>2, <2>1, <2>3, <2>5, CallKeeps
<1>9. CASE ResetEdge
  <2>1. Call(NewMutation(builder.kind), NoWish)
    BY <1>9 DEF ResetEdge
  <2> QED
    BY <1>1, <1>2, <2>1, FreshFits, CallKeeps DEF NewMutation
<1>10. CASE LinkChild
  <2> DEFINE m == [builder EXCEPT !.added = TRUE]
  <2>1. /\ m \in Mutations /\ m.kind = builder.kind /\ m.plus = builder.plus
        /\ m.added /\ IsEdge
    BY <1>1, <1>10 DEF Mutations, LinkChild
  <2>2. Fits(m)
    BY <1>1, <2>1 DEF Fits, Mutations
  <2>3. Call(m, [wish EXCEPT !.is = "ours"])
    BY <1>10 DEF LinkChild
  <2> HIDE DEF m
  <2>4. Call(m, Asked(m))
    BY <1>edge, <2>1, <2>3 DEF Asked
  <2> QED
    BY <1>1, <1>2, <2>1, <2>2, <2>4, CallKeeps
<1>11. CASE RemoveChild
  <2> DEFINE m == [builder EXCEPT !.added = FALSE, !.removed = TRUE]
  <2>1. /\ m \in Mutations /\ m.kind = builder.kind /\ m.plus = builder.plus
        /\ ~m.added /\ m.removed /\ IsEdge
    BY <1>1, <1>11 DEF Mutations, RemoveChild
  <2>2. Fits(m)
    BY <1>1, <2>1 DEF Fits, Mutations
  <2>3. Call(m, [wish EXCEPT !.is = "not ours"])
    BY <1>11 DEF RemoveChild
  <2> HIDE DEF m
  <2>4. Call(m, Asked(m))
    BY <1>edge, <2>1, <2>3 DEF Asked
  <2> QED
    BY <1>1, <1>2, <2>1, <2>2, <2>4, CallKeeps
<1>12. CASE ClearChildren
  <2> DEFINE m == [builder EXCEPT !.cleared = TRUE]
  <2>1. /\ m \in Mutations /\ m.kind = builder.kind /\ m.plus = builder.plus
        /\ m.added = builder.added /\ m.cleared /\ IsEdge
    BY <1>1, <1>12 DEF Mutations, ClearChildren
  <2>2. Fits(m)
    BY <1>1, <2>1 DEF Fits, Mutations
  <2>3. Call(m, [wish EXCEPT !.is =
                   IF builder.added THEN "ours" ELSE "not ours"])
    BY <1>12 DEF ClearChildren
  <2> HIDE DEF m
  <2>4. Call(m, Asked(m))
    BY <1>edge, <2>1, <2>3 DEF Asked
  <2> QED
    BY <1>1, <1>2, <2>1, <2>2, <2>4, CallKeeps
<1> QED
  BY <1>4, <1>5, <1>6, <1>7, <1>8, <1>9, <1>10, <1>11, <1>12 DEF Calls

\* So does the end of a save or a delete, if what it leaves is valid.
LEMMA Idling ==
  ASSUME EntInv, entity' = entity, focus' = focus, NEW result, Done(result),
         result \in {"refused", "saved", "invalid"}, saves < MaxSaves,
         row' = NoRow \/ row' \in [Columns -> Cells],
         child' \in {"free", "ours", "theirs"}, child' = "ours" => IsEdge,
         InvalidNeverStored'
  PROVE  EntInv'
<1>1. /\ C' = C /\ Columns' = Columns /\ Many' = Many
      /\ IsEdge' = IsEdge /\ IsParent' = IsParent
  BY SameEntity
<1>count. saves \in 0..MaxSaves
  BY DEF EntInv, EntTypeOK
<1>type. saves' \in 0..MaxSaves
  BY <1>count, EntAssumption DEF Done
<1>2. /\ builder' = Idle /\ builder'.kind = "none"
      /\ builder' \in Mutations
  BY EntAssumption DEF Done, Idle, NewMutation, Mutations
<1>3. EntTypeOK'
  BY <1>1, <1>2, <1>type DEF EntInv, EntTypeOK, Done
<1> QED
  BY <1>1, <1>2, <1>3
  DEF EntInv, BuilderFits, WishIsAsked, ChildOnEdge

LEMMA ChildAfterType ==
  ASSUME EntInv
  PROVE  /\ ChildAfter \in {"free", "ours", "theirs"}
         /\ ChildAfter = "ours" => IsEdge
  BY DEF EntInv, EntTypeOK, ChildOnEdge, ChildAfter, Detached, Writing

LEMMA GivenValue == EntInv => builder.value \in {"good", "bad", "unset"}
  BY DEF EntInv, EntTypeOK, Mutations, Given

\* What a create has for a column: what was given, else a default.
LEMMA FilledValue ==
  ASSUME EntInv, NEW c
  PROVE  /\ c = focus /\ builder.value # "unset" => Filled(c) = builder.value
         /\ c = focus /\ builder.value = "unset"
              => Filled(c) =
                   IF c \in Fills.defaults THEN "default" ELSE "unset"
         /\ c # focus
              => Filled(c) = IF c \in Needed THEN "good"
                             ELSE IF c \in Fills.defaults THEN "default"
                             ELSE "unset"
<1>1. CASE c = focus
  BY <1>1 DEF Filled
<1>2. CASE c # focus /\ c \in Needed
  BY <1>2 DEF Filled
<1>3. CASE c # focus /\ c \notin Needed
  BY <1>3 DEF Filled
<1> QED
  BY <1>1, <1>2, <1>3

\* A row that a create stores is valid.
LEMMA CreateSaved ==
  ASSUME EntInv, builder.kind = "create", ~CreateInvalid, ~CreateRefused,
         row' = [c \in Columns |-> [is |-> Inserted(c), plus |-> 0]],
         entity' = entity, focus' = focus
  PROVE  /\ row' \in [Columns -> Cells]
         /\ InvalidNeverStored'
<1>1. /\ C' = C /\ Columns' = Columns
  BY SameEntity
<1>2. \A c : Inserted(c) \in {"null", "default", "good", "bad"}
  BY GivenValue, FilledValue DEF Inserted
<1>3. Named(C) /\ C.declared.valid \subseteq Fills.valid
  BY CoherentHere DEF EntInv, Coherent, Creatable, CreateChecks, Fills
<1>4. ASSUME NEW c \in C.declared.valid \cup C.slots.parents
      PROVE  c \in Columns /\ Inserted(c) # "bad"
  BY <1>3, <1>4
  DEF Inserted, CreateInvalid, CreateRefused, Columns, ColumnsOf, Named
<1>5. ASSUME NEW c \in C.table.notNull
      PROVE  c \in Columns /\ Inserted(c) # "null"
  BY DEF CreateRefused, Columns
<1>6. ASSUME NEW c \in Columns, Inserted(c) = "null"
      PROVE  c \in C.declared.optional \cup C.slots.parents \cup C.selected.fks
  BY <1>3, <1>5, <1>6 DEF Columns, Named
<1>7. \A c \in Columns : row'[c] = [is |-> Inserted(c), plus |-> 0]
  OBVIOUS
<1>8. row' \in [Columns -> Cells]
  BY <1>2 DEF Cells
<1> QED
  BY <1>1, <1>4, <1>5, <1>6, <1>7, <1>8 DEF InvalidNeverStored

LEMMA RowHere ==
  ASSUME EntInv, Updating
  PROVE  /\ row # NoRow /\ row \in [Columns -> Cells]
         /\ builder.plus \in Nat
<1>1. row # NoRow
  BY DEF EntInv, BuilderFits, Updating
<1>2. builder \in Mutations /\ (row = NoRow \/ row \in [Columns -> Cells])
  BY DEF EntInv, EntTypeOK
<1> QED
  BY <1>1, <1>2 DEF Mutations

\* What an update makes of a column.
LEMMA UpdatedValue ==
  ASSUME EntInv, Updating, NEW c \in Columns, NEW sum \in Given
  PROVE  /\ Updated(c, sum) \in Cells
         /\ \/ c # focus /\ Stamped(c)
               /\ Updated(c, sum) = [is |-> "stamp", plus |-> 0]
            \/ c # focus /\ ~Stamped(c) /\ Updated(c, sum) = row[c]
            \/ c = focus /\ (Sets \/ Links)
               /\ Updated(c, sum).is = (IF builder.value = "unset"
                                        THEN "stamp" ELSE builder.value)
               /\ Updated(c, sum).plus = 0
            \/ c = focus /\ ~(Sets \/ Links) /\ (Nulls \/ Unlinks)
               /\ Updated(c, sum) = [is |-> "null", plus |-> 0]
            \/ c = focus /\ ~(Sets \/ Links) /\ ~(Nulls \/ Unlinks) /\ Adds
               /\ Updated(c, sum).is = sum
               /\ Updated(c, sum).plus = row[c].plus + builder.plus
            \/ c = focus /\ ~(Sets \/ Links) /\ ~(Nulls \/ Unlinks) /\ ~Adds
               /\ Updated(c, sum) = row[c]
<1>1. row[c] \in Cells /\ builder.plus \in Nat
  BY RowHere
<1>2. CASE c # focus /\ Stamped(c)
  BY <1>2 DEF Updated, Plain, Increased, Cells
<1>3. CASE c # focus /\ ~Stamped(c)
  BY <1>1, <1>3 DEF Updated, Plain, Increased
<1>4. CASE c = focus /\ (Sets \/ Links)
  <2>1. Updated(c, sum) = [is |-> IF builder.value = "unset" THEN "stamp"
                                  ELSE builder.value, plus |-> 0]
    BY <1>4 DEF Updated, Plain, Increased
  <2> QED
    BY <1>4, <2>1, GivenValue DEF Cells
<1>5. CASE c = focus /\ ~(Sets \/ Links) /\ (Nulls \/ Unlinks)
  BY <1>5 DEF Updated, Plain, Increased, Cells
<1>6. CASE c = focus /\ ~(Sets \/ Links) /\ ~(Nulls \/ Unlinks) /\ Adds
  <2>1. Updated(c, sum)
          = [is |-> sum, plus |-> row[c].plus + builder.plus]
    BY <1>6 DEF Updated, Plain, Increased
  <2>2. row[c].plus + builder.plus \in Nat
    BY <1>1 DEF Cells
  <2> QED
    BY <1>1, <1>6, <2>1, <2>2 DEF Cells, Given
<1>7. CASE c = focus /\ ~(Sets \/ Links) /\ ~(Nulls \/ Unlinks) /\ ~Adds
  BY <1>1, <1>7 DEF Updated, Plain, Increased
<1> QED
  BY <1>2, <1>3, <1>4, <1>5, <1>6, <1>7

\* The sum that an increment leaves decides neither what is NULL nor what is
\* a bad parent.
LEMMA SumIsAside ==
  ASSUME EntInv, Updating, NEW c \in Columns, NEW sum \in Given
  PROVE  /\ Updated(c, sum).is = "null" => Updated(c, "good").is = "null"
         /\ c \in C.slots.parents => Updated(c, sum) = Updated(c, "good")
<1>1. "good" \in Given
  BY DEF Given
<1>2. Writes.add \cap C.slots.parents = {}
  BY CoherentHere
  DEF EntInv, Coherent, Updatable, WritesFit, Named, Writes, Updating, Updates
<1>3. CASE c = focus /\ ~(Sets \/ Links) /\ ~(Nulls \/ Unlinks) /\ Adds
  <2>1. c \in Writes.add
    BY <1>3 DEF Adds
  <2>2. Updated(c, sum).is # "null"
    BY <1>3, UpdatedValue DEF Given
  <2> QED
    BY <1>2, <2>1, <2>2
<1>4. CASE ~(c = focus /\ ~(Sets \/ Links) /\ ~(Nulls \/ Unlinks) /\ Adds)
  <2>1. Updated(c, sum) = Updated(c, "good")
    BY <1>4 DEF Updated, Increased
  <2> QED
    BY <2>1
<1> QED
  BY <1>3, <1>4

\* A valid row stays valid under an update, but for what increments do.
LEMMA UpdateSaved ==
  ASSUME EntInv, Updating, ~UpdateInvalid, ~UpdateRefused, NEW sum \in Given,
         row' = [c \in Columns |-> Updated(c, sum)],
         entity' = entity, focus' = focus
  PROVE  /\ row' \in [Columns -> Cells]
         /\ InvalidNeverStored'
<1>1. /\ C' = C /\ Columns' = Columns
  BY SameEntity
<1>2. /\ Coherent(C) /\ builder.kind \in Updates
      /\ Fills = C.fills[builder.kind] /\ Writes = C.writes[builder.kind]
  BY CoherentHere DEF EntInv, Fills, Writes, Updating, Updates
<1>3. /\ row # NoRow /\ InvalidNeverStored
  BY RowHere DEF EntInv
<1>4. ASSUME NEW c \in C.declared.valid \cup C.slots.parents
      PROVE  /\ c \in Columns
             /\ Updated(c, sum).is = "bad"
                  => c \in C.slots.counters /\ Updated(c, sum).plus > 0
  <2>1. /\ c \in Columns
        /\ row[c].is = "bad" => c \in C.slots.counters /\ row[c].plus > 0
    BY <1>2, <1>3, <1>4
    DEF InvalidNeverStored, Coherent, Named, Columns, ColumnsOf
  <2>2. CASE c \in C.slots.parents
    BY <2>1, <2>2, SumIsAside DEF UpdateRefused
  <2>3. CASE c \in C.declared.valid
    <3>1. CASE c # focus
      BY <2>1, <3>1, UpdatedValue
    <3>2. CASE c = focus /\ (Sets \/ Links)
      <4>1. c \in Writes.set \cup Writes.parents
        BY <3>2 DEF Sets, Links
      <4>2. c \in Fills.valid
        BY <1>2, <2>3, <4>1 DEF Coherent, Updatable, FillsFit
      <4>3. builder.value # "bad"
        BY <3>2, <4>2 DEF UpdateInvalid
      <4> QED
        BY <2>1, <3>2, <4>3, UpdatedValue
    <3>3. CASE c = focus /\ ~(Sets \/ Links) /\ (Nulls \/ Unlinks)
      BY <2>1, <3>3, UpdatedValue
    <3>4. CASE c = focus /\ ~(Sets \/ Links) /\ ~(Nulls \/ Unlinks) /\ Adds
      <4>1. c \in C.slots.counters
        BY <1>2, <3>4 DEF Adds, Coherent, Updatable, WritesFit
      <4>2. builder.plus > 0 /\ builder.plus \in Nat /\ row[c].plus \in Nat
        BY <2>1, <3>4, RowHere DEF Adds, Cells
      <4>3. Updated(c, sum).plus = row[c].plus + builder.plus
        BY <2>1, <3>4, UpdatedValue
      <4> QED
        BY <2>1, <4>1, <4>2, <4>3
    <3>5. CASE c = focus /\ ~(Sets \/ Links) /\ ~(Nulls \/ Unlinks) /\ ~Adds
      BY <2>1, <3>5, UpdatedValue
    <3> QED
      BY <3>1, <3>2, <3>3, <3>4, <3>5
  <2> QED
    BY <1>4, <2>1, <2>2, <2>3
<1>5. ASSUME NEW c \in C.table.notNull
      PROVE  c \in Columns /\ Updated(c, sum).is # "null"
  BY SumIsAside DEF UpdateRefused, Columns
<1>6. ASSUME NEW c \in Columns, Updated(c, sum).is = "null"
      PROVE  c \in C.declared.optional \cup C.slots.parents \cup C.selected.fks
  BY <1>2, <1>5, <1>6 DEF Columns, Named, Coherent
<1>7. \A c \in Columns : row'[c] = Updated(c, sum)
  OBVIOUS
<1>8. row' \in [Columns -> Cells]
  BY UpdatedValue
<1> QED
  BY <1>1, <1>4, <1>5, <1>6, <1>7, <1>8 DEF InvalidNeverStored

LEMMA InvKept == EntInv /\ [Next]_vars => EntInv'
<1> SUFFICES ASSUME EntInv, [Next]_vars PROVE EntInv'
  OBVIOUS
<1>1. builder.kind # "none" => saves < MaxSaves
  BY DEF EntInv, BuilderFits
<1>2. ASSUME NEW kind \in Kinds, NewBuilder(kind) PROVE EntInv'
  BY <1>2, NewBuilderKeeps
<1>3. CASE Calls
  BY <1>3, CallsKeep
<1>4. ASSUME NEW result \in {"refused", "saved", "invalid"}, Done(result),
             saves < MaxSaves, row' = row, child' = child
      PROVE  EntInv'
  <2>1. entity' = entity /\ focus' = focus
    BY <1>4 DEF Done
  <2>2. C' = C /\ Columns' = Columns
    BY <2>1, SameEntity
  <2>3. InvalidNeverStored'
    BY <1>4, <2>2 DEF EntInv, InvalidNeverStored
  <2>4. /\ row = NoRow \/ row \in [Columns -> Cells]
        /\ child \in {"free", "ours", "theirs"}
        /\ child = "ours" => IsEdge
    BY DEF EntInv, EntTypeOK, ChildOnEdge
  <2> QED
    BY <1>4, <2>1, <2>3, <2>4, Idling
<1>5. CASE SaveCreate
  <2>1. builder.kind = "create" /\ saves < MaxSaves
    BY <1>1, <1>5 DEF SaveCreate
  <2>2. CASE /\ ~CreateInvalid /\ ~CreateRefused /\ Done("saved")
             /\ row' = [c \in Columns |-> [is |-> Inserted(c), plus |-> 0]]
             /\ child' = ChildAfter
    <3>1. entity' = entity /\ focus' = focus
      BY <2>2 DEF Done
    <3>2. row' \in [Columns -> Cells] /\ InvalidNeverStored'
      BY <2>1, <2>2, <3>1, CreateSaved
    <3> QED
      BY <2>1, <2>2, <3>1, <3>2, ChildAfterType, Idling
  <2> QED
    BY <1>4, <1>5, <2>1, <2>2 DEF SaveCreate
<1>6. CASE SaveUpdate
  <2>1. Updating /\ saves < MaxSaves
    BY <1>1, <1>6 DEF SaveUpdate, Updating
  <2>2. ASSUME ~UpdateInvalid, ~UpdateRefused, Done("saved"),
               NEW sum \in Sums, row' = [c \in Columns |-> Updated(c, sum)],
               child' = ChildAfter
        PROVE  EntInv'
    <3>1. entity' = entity /\ focus' = focus
      BY <2>2 DEF Done
    <3>2. row' \in [Columns -> Cells] /\ InvalidNeverStored'
      BY <2>1, <2>2, <3>1, UpdateSaved DEF Sums, Given
    <3> QED
      BY <2>1, <2>2, <3>1, <3>2, ChildAfterType, Idling
  <2> QED
    BY <1>4, <1>6, <2>1, <2>2 DEF SaveUpdate
<1>7. CASE Delete
  <2>1. saves < MaxSaves
    BY <1>7 DEF Delete
  <2>2. CASE /\ Done("saved") /\ row' = NoRow
             /\ child' = IF child = "ours" THEN "free" ELSE child
    <3>1. entity' = entity /\ focus' = focus
      BY <2>2 DEF Done
    <3>2. /\ child' \in {"free", "ours", "theirs"}
          /\ child' = "ours" => IsEdge
          /\ InvalidNeverStored'
      BY <2>2 DEF EntInv, EntTypeOK, InvalidNeverStored
    <3> QED
      BY <2>1, <2>2, <3>1, <3>2, Idling
  <2> QED
    BY <1>4, <1>7, <2>1, <2>2 DEF Delete
<1>8. CASE ChildMoves
  <2>1. /\ UNCHANGED <<entity, focus, row, builder, wish, saves, outcome>>
        /\ child' \in {"free", "ours", "theirs"} /\ IsEdge
    BY <1>8 DEF ChildMoves
  <2>2. /\ C' = C /\ Columns' = Columns /\ Many' = Many
        /\ IsEdge' = IsEdge /\ IsParent' = IsParent
    BY <2>1, SameEntity
  <2>3. EntTypeOK'
    BY <2>1, <2>2 DEF EntInv, EntTypeOK
  <2>4. BuilderFits' /\ WishIsAsked'
    BY <2>1, <2>2 DEF EntInv, BuilderFits, WishIsAsked, Fits, Asked, Updating
  <2>5. ChildOnEdge' /\ InvalidNeverStored'
    BY <2>1, <2>2 DEF EntInv, ChildOnEdge, InvalidNeverStored
  <2> QED
    BY <2>3, <2>4, <2>5 DEF EntInv
<1>9. CASE UNCHANGED vars
  <2>1. UNCHANGED <<entity, focus, row, child, builder, wish, saves, outcome>>
    BY <1>9 DEF vars
  <2>2. /\ C' = C /\ Columns' = Columns /\ Many' = Many
        /\ IsEdge' = IsEdge /\ IsParent' = IsParent
    BY <2>1, SameEntity
  <2>3. EntTypeOK'
    BY <2>1, <2>2 DEF EntInv, EntTypeOK
  <2>4. BuilderFits' /\ WishIsAsked'
    BY <2>1, <2>2 DEF EntInv, BuilderFits, WishIsAsked, Fits, Asked, Updating
  <2>5. ChildOnEdge' /\ InvalidNeverStored'
    BY <2>1, <2>2 DEF EntInv, ChildOnEdge, InvalidNeverStored
  <2> QED
    BY <2>3, <2>4, <2>5 DEF EntInv
<1> QED
  BY <1>2, <1>3, <1>5, <1>6, <1>7, <1>8, <1>9 DEF Next

\* EntInv is an invariant: the builders never lose track of what was called,
\* and what they have stored is valid.
THEOREM EntInvariant == Spec => []EntInv
  BY InitInv, InvKept, PTL DEF Spec

\* The type invariant; a stored cell is one of those a builder can write.
THEOREM EntTypeCorrect == Spec => []EntTypeOK
  BY EntInvariant, PTL DEF EntInv

\* No builder sets a column to an invalid value, to NULL where the table has
\* none, or to a parent that is not there (check of Create, Update and
\* UpdateOne): a stored value that is invalid came of increments (AddPrice).
THEOREM InvalidStaysOut == Spec => []InvalidNeverStored
  BY EntInvariant, PTL DEF EntInv

\* What was saved is read back by a query, and a child through the edge that
\* linked it (Columns, assignValues, sqlAll).
THEOREM SavedComesBack == Spec => []SavedIsReadBack
<1>1. EntInv => SavedIsReadBack
  <2> SUFFICES ASSUME EntInv, row # NoRow PROVE SavedIsReadBack
    BY DEF SavedIsReadBack
  <2>1. Readable(C) /\ ChildrenReadable(C)
    BY CoherentHere DEF EntInv, Coherent
  <2>2. ASSUME NEW c \in C.fields \cup C.slots.parents
        PROVE  ReadBack(c) = row[c]
    BY <2>1, <2>2 DEF Readable, ReadBack
  <2>3. DOMAIN C.edges.single \subseteq C.loads.single
    BY <2>1 DEF Readable
  <2>4. child = "ours" => focus \in DOMAIN C.edges.many
    BY DEF EntInv, ChildOnEdge, IsEdge, Many
  <2>5. child = "ours" =>
          /\ focus \in C.loads.many
          /\ \/ focus \in C.loads.childFKs
             \/ ChildColumn
                  \in Client[C.edges.many[focus][1]].selected.columns
    BY <2>1, <2>4 DEF ChildrenReadable, ChildColumn
  <2> QED
    BY <2>2, <2>3, <2>5 DEF SavedIsReadBack
<1> QED
  BY <1>1, EntInvariant, PTL

-------------------------------------------------------------------------------
(*****************************************************************************)
(* The steps.                                                                *)
(*****************************************************************************)

\* Of the steps, only the two saves save.
LEMMA WhoSaves ==
  ASSUME EntInv, Next, Saving
  PROVE  SaveCreate \/ SaveUpdate
<1>1. saves \in 0..MaxSaves
  BY DEF EntInv, EntTypeOK
<1>2. \A kind \in Kinds : ~NewBuilder(kind)
  BY <1>1, EntAssumption DEF Saving, NewBuilder
<1>3. ASSUME NEW m, NEW w, Call(m, w) PROVE FALSE
  BY <1>1, <1>3, EntAssumption DEF Saving, Call
<1>4. ~Calls
  BY <1>3
  DEF Calls, Set, Add, Clear, Unlink, Reset, ResetEdge, LinkChild, RemoveChild,
      ClearChildren
<1>5. ~Delete
  BY DEF Saving, Delete
<1>6. ~ChildMoves
  BY <1>1, EntAssumption DEF Saving, ChildMoves
<1> QED
  BY <1>2, <1>4, <1>5, <1>6 DEF Next

\* A save does with the child what was asked.
LEMMA ChildDone ==
  ASSUME EntInv, builder.kind \in Kinds, IsEdge, child' = ChildAfter
  PROVE  ChildGranted
<1>1. Writing
  BY HereFacts DEF EntInv, Writing, Writes
<1>type. wish = Asked(builder)
  BY DEF EntInv, WishIsAsked, Kinds
<1>2. wish.is = IF builder.added THEN "ours"
                ELSE IF builder.removed \/ builder.cleared THEN "not ours"
                ELSE "keep"
  BY <1>type DEF Asked
<1> QED
  BY <1>1, <1>2 DEF ChildGranted, ChildAfter, Detached

LEMMA ColumnAsked ==
  ASSUME EntInv, builder.kind \in Kinds, ~IsEdge
  PROVE  /\ wish.is = IF builder.value # "unset" THEN builder.value
                      ELSE IF builder.cleared THEN "null" ELSE "keep"
         /\ wish.plus = IF builder.kind = "create" THEN 0 ELSE builder.plus
         /\ Fits(builder) /\ focus \in Columns /\ Coherent(C)
  BY HereFacts, CoherentHere
  DEF EntInv, WishIsAsked, BuilderFits, Asked, Kinds

\* A create stores in the column what was asked.
LEMMA CreateDone ==
  ASSUME EntInv, builder.kind = "create", ~IsEdge,
         row' = [c \in Columns |-> [is |-> Inserted(c), plus |-> 0]]
  PROVE  ColumnGranted
<1>1. /\ wish.is = IF builder.value # "unset" THEN builder.value
                   ELSE IF builder.cleared THEN "null" ELSE "keep"
      /\ wish.plus = 0
      /\ Fits(builder) /\ focus \in Columns /\ Creatable(C)
  BY ColumnAsked DEF Kinds, Coherent
<1>2. row'[focus] = [is |-> Inserted(focus), plus |-> 0]
  BY <1>1
<1>3. ~Updating /\ Fills = C.fills["create"] /\ Writes = C.writes["create"]
  BY DEF Updating, Fills, Writes
<1>4. CASE builder.value # "unset"
  <2>1. focus \in Writes.set \cup Writes.parents
    BY <1>1, <1>3, <1>4 DEF Fits, Creatable, CreateWrites
  <2>2. Inserted(focus) = builder.value
    BY <1>4, <2>1, FilledValue DEF Inserted
  <2> QED
    BY <1>1, <1>2, <1>3, <1>4, <2>2, GivenValue DEF ColumnGranted
<1>5. CASE builder.value = "unset" /\ builder.cleared
  <2>1. focus \in C.slots.nullables \cup C.slots.parents
    BY <1>1, <1>5 DEF Fits, IsParent
  <2>2. focus \notin Fills.defaults /\ focus \notin C.table.filled
    BY <1>1, <1>3, <2>1 DEF Creatable, CreateChecks, CreateFills, CreateWrites
  <2>3. Inserted(focus) = "null"
    BY <1>5, <2>2, FilledValue DEF Inserted
  <2> QED
    BY <1>1, <1>2, <1>3, <1>5, <2>3 DEF ColumnGranted
<1>6. CASE builder.value = "unset" /\ ~builder.cleared
  <2>1. Inserted(focus) \in {"default", "null"}
    BY <1>6, FilledValue DEF Inserted
  <2> QED
    BY <1>1, <1>2, <1>3, <1>6, <2>1 DEF ColumnGranted
<1> QED
  BY <1>4, <1>5, <1>6

\* So does an update.
LEMMA UpdateDone ==
  ASSUME EntInv, Updating, ~IsEdge, ~UpdateRefused, NEW sum \in Given,
         row' = [c \in Columns |-> Updated(c, sum)]
  PROVE  ColumnGranted
<1>1. /\ builder.kind \in Updates /\ builder.kind # "create"
      /\ builder.kind \in Kinds
      /\ Fills = C.fills[builder.kind] /\ Writes = C.writes[builder.kind]
  BY DEF Fills, Writes, Updating, Updates, Kinds
<1>2. /\ wish.is = IF builder.value # "unset" THEN builder.value
                   ELSE IF builder.cleared THEN "null" ELSE "keep"
      /\ wish.plus = builder.plus
      /\ Fits(builder) /\ focus \in Columns
  BY <1>1, ColumnAsked
<1>3. /\ C.declared.stamped = Fills.defaults
      /\ Fills.defaults \subseteq Writes.set
      /\ C.declared.immutable \cap (Writes.set \cup Writes.parents
            \cup Writes.add \cup Writes.clear) = {}
      /\ (C.setFields \cup C.offers[builder.kind].set) \ C.declared.immutable
           \subseteq Writes.set \cup Writes.parents
      /\ C.slots.counters \ C.declared.immutable \subseteq Writes.add
      /\ C.slots.counters \cap C.slots.parents = {}
      /\ C.slots.nullables \ C.declared.immutable
           \subseteq Writes.clear \cup Writes.parents
      /\ C.slots.parents \ C.declared.immutable \subseteq Writes.parents
      /\ Writes.parents \subseteq C.slots.parents
      /\ C.slots.parents \cap Writes.set = {}
  BY <1>1, ColumnAsked DEF Coherent, Updatable, WritesFit, FillsFit,
      OffersFit, Named
<1>4. /\ row'[focus] = Updated(focus, sum) /\ row[focus] \in Cells
      /\ builder.plus \in Nat
  BY <1>2, RowHere
<1>5. ~AssignedTwice
  BY DEF UpdateRefused
<1>6. CASE focus \in C.declared.immutable
  <2>1. ~Sets /\ ~Links /\ ~Nulls /\ ~Unlinks /\ ~Adds
    BY <1>3, <1>6 DEF Sets, Links, Nulls, Unlinks, Adds
  <2>2. Updated(focus, sum) = row[focus]
    BY <1>2, <2>1, UpdatedValue
  <2> QED
    BY <1>4, <1>6, <2>2 DEF ColumnGranted
<1>7. CASE focus \notin C.declared.immutable /\ builder.value # "unset"
  <2>1. focus \in Writes.set \cup Writes.parents
    BY <1>2, <1>3, <1>7 DEF Fits
  <2>2. Sets \/ Links
    BY <1>7, <2>1 DEF Sets, Links
  <2>3. builder.plus = 0
    <3>1. SUFFICES ASSUME builder.plus > 0 PROVE FALSE
      BY <1>4
    <3>2. focus \in C.slots.counters
      BY <1>2, <3>1 DEF Fits
    <3>3. Adds /\ Sets
      BY <1>3, <1>7, <2>1, <3>1, <3>2 DEF Adds, Sets
    <3> QED
      BY <1>5, <3>3 DEF AssignedTwice
  <2>4. Updated(focus, sum) = [is |-> builder.value, plus |-> 0]
    BY <1>7, <2>2 DEF Updated, Plain
  <2> QED
    BY <1>2, <1>4, <1>7, <2>3, <2>4, GivenValue DEF ColumnGranted
<1>8. CASE /\ focus \notin C.declared.immutable
           /\ builder.value = "unset" /\ builder.cleared
  <2>1. focus \in Writes.clear \cup Writes.parents
    BY <1>2, <1>3, <1>8 DEF Fits, IsParent
  <2>2. ~Links
    BY <1>8 DEF Links
  <2>3. Nulls \/ Unlinks
    BY <1>8, <2>1, <2>2 DEF Nulls, Unlinks
  <2>4. ~Sets
    BY <1>3, <1>5, <2>3 DEF AssignedTwice, Unlinks, Sets
  <2>5. builder.plus = 0
    <3>1. SUFFICES ASSUME builder.plus > 0 PROVE FALSE
      BY <1>4
    <3>2. focus \in C.slots.counters
      BY <1>2, <3>1 DEF Fits
    <3>3. Adds /\ Nulls
      BY <1>3, <1>8, <2>3, <3>1, <3>2 DEF Adds, Unlinks
    <3> QED
      BY <1>5, <3>3 DEF AssignedTwice
  <2>6. Updated(focus, sum) = [is |-> "null", plus |-> 0]
    BY <2>2, <2>3, <2>4 DEF Updated, Plain
  <2> QED
    BY <1>2, <1>4, <1>8, <2>5, <2>6 DEF ColumnGranted
<1>9. CASE /\ focus \notin C.declared.immutable
           /\ builder.value = "unset" /\ ~builder.cleared
  <2>1. wish.is = "keep" /\ ~Links /\ ~Nulls /\ ~Unlinks
    BY <1>2, <1>9 DEF Links, Nulls, Unlinks
  <2>2. CASE focus \in C.declared.stamped
    <3>1. Sets
      BY <1>3, <1>9, <2>2 DEF Sets, Stamps
    <3>2. Updated(focus, sum) = [is |-> "stamp", plus |-> 0]
      BY <1>9, <3>1 DEF Updated, Plain
    <3> QED
      BY <1>1, <1>4, <1>9, <2>1, <2>2, <3>2 DEF ColumnGranted
  <2>3. CASE focus \notin C.declared.stamped
    <3>1. ~Sets
      BY <1>3, <1>9, <2>3 DEF Sets, Stamps
    <3>2. Updated(focus, sum) = IF builder.plus > 0
                                THEN [is |-> sum,
                                      plus |-> row[focus].plus + builder.plus]
                                ELSE row[focus]
      <4>1. Adds <=> builder.plus > 0
        BY <1>2, <1>3, <1>9 DEF Adds, Fits
      <4> QED
        BY <2>1, <3>1, <4>1 DEF Updated, Increased
    <3>3. CASE builder.plus = 0
      BY <1>1, <1>2, <1>4, <1>9, <2>1, <2>3, <3>2, <3>3 DEF ColumnGranted
    <3>4. CASE builder.plus > 0
      <4>1. row'[focus].plus = row[focus].plus + wish.plus
        BY <1>2, <1>4, <3>2, <3>4
      <4> QED
        BY <1>1, <1>2, <1>9, <2>1, <2>3, <3>4, <4>1 DEF ColumnGranted
    <3> QED
      BY <1>4, <3>3, <3>4
  <2> QED
    BY <2>2, <2>3
<1> QED
  BY <1>6, <1>7, <1>8, <1>9

LEMMA SavedHow ==
  ASSUME EntInv, Next, Saved
  PROVE  \/ /\ builder.kind = "create" /\ ~CreateInvalid /\ ~CreateRefused
            /\ row' = [c \in Columns |-> [is |-> Inserted(c), plus |-> 0]]
            /\ child' = ChildAfter
         \/ /\ Updating /\ ~UpdateInvalid /\ ~UpdateRefused
            /\ \E sum \in Given : row' = [c \in Columns |-> Updated(c, sum)]
            /\ child' = ChildAfter
  BY WhoSaves DEF Saved, SaveCreate, SaveUpdate, Done, Sums, Given

\* A save that succeeds does what the calls on its builder asked for, none of
\* them being lost on the way to the statement (setters, defaults, sqlSave).
THEOREM CallsKept == Spec => CallsAreKept
<1>1. EntInv /\ [Next]_vars => [Saved => Granted]_vars
  <2> SUFFICES ASSUME EntInv, Next, Saved PROVE Granted
    OBVIOUS
  <2>1. builder.kind \in Kinds
    BY DEF EntInv, EntTypeOK, Mutations, Saved, Saving
  <2>2. CASE IsEdge
    BY <2>1, <2>2, SavedHow, ChildDone DEF Granted
  <2>3. CASE ~IsEdge
    BY <2>3, SavedHow, CreateDone, UpdateDone DEF Granted
  <2> QED
    BY <2>2, <2>3
<1> QED
  BY <1>1, EntInvariant, PTL DEF Spec, CallsAreKept

\* An update changes no column but its focus and the stamps (defaults,
\* sqlSave).
THEOREM OthersKept == Spec => OtherColumnsKept
<1>1. EntInv /\ [Next]_vars
        => [Saved /\ Updating
              => \A c \in Columns \ ({focus} \cup C.declared.stamped) :
                   row'[c] = row[c]]_vars
  <2> SUFFICES ASSUME EntInv, Next, Saved, Updating,
                      NEW c \in Columns \ ({focus} \cup C.declared.stamped)
               PROVE  row'[c] = row[c]
    OBVIOUS
  <2>1. PICK sum \in Given : row' = [d \in Columns |-> Updated(d, sum)]
    BY SavedHow DEF Updating
  <2>2. C.declared.stamped = Fills.defaults
    BY CoherentHere
    DEF EntInv, Coherent, Updatable, FillsFit, Updates, Updating,
        Fills
  <2>3. c # focus /\ ~Stamped(c)
    BY <2>2 DEF Stamped, Stamps
  <2> QED
    BY <2>1, <2>3 DEF Updated
<1> QED
  BY <1>1, EntInvariant, PTL DEF Spec, OtherColumnsKept

\* Why a save is refused.
LEMMA ChildRefusedHow ==
  ChildRefused => IsEdge /\ (builder.added \/ child = "ours")
  BY DEF ChildRefused, Detached, Writing

LEMMA CreateRefusedHow ==
  ASSUME EntInv, builder.kind = "create", ~CreateInvalid, CreateRefused
  PROVE  \/ /\ focus \notin C.fields /\ focus \in C.table.notNull
            /\ builder.value = "unset"
         \/ IsParent /\ builder.value = "bad"
         \/ IsEdge /\ (builder.added \/ child = "ours")
<1>1. /\ Fills = C.fills["create"] /\ Writes = C.writes["create"]
      /\ Creatable(C)
  BY CoherentHere DEF EntInv, Coherent, Fills, Writes
<1>2. ASSUME NEW c \in C.table.notNull, Inserted(c) = "null"
      PROVE  c = focus /\ focus \notin C.fields /\ builder.value = "unset"
  <2>1. c \in Writes.set \cup Writes.parents
    BY <1>1 DEF Creatable, CreateChecks, CreateFills, CreateWrites
  <2>2. Filled(c) = "unset" /\ c \notin C.table.filled
    <3>1. Filled(c) # "null"
      BY FilledValue, GivenValue
    <3> QED
      BY <1>2, <2>1, <3>1 DEF Inserted
  <2>3. c = focus /\ builder.value = "unset"
    BY <2>2, FilledValue DEF Needed
  <2>4. focus \notin C.fields
    BY <1>1, <2>2, <2>3 DEF Creatable, CreateChecks, CreateInvalid
  <2> QED
    BY <2>3, <2>4
<1>3. ASSUME NEW c \in C.slots.parents, Inserted(c) = "bad"
      PROVE  IsParent /\ builder.value = "bad"
  BY <1>3, FilledValue DEF Inserted, IsParent
<1> QED
  BY <1>2, <1>3, ChildRefusedHow DEF CreateRefused

LEMMA CreateInvalidHow ==
  ASSUME EntInv, builder.kind = "create", CreateInvalid
  PROVE  \/ builder.value = "bad"
         \/ builder.value = "unset" /\ focus \in C.table.notNull
<1>1. Fills = C.fills["create"] /\ Creatable(C)
  BY CoherentHere DEF EntInv, Coherent, Fills
<1>2. ASSUME NEW c \in Fills.required \cup Fills.parents, Filled(c) = "unset"
      PROVE  builder.value = "unset" /\ focus \in C.table.notNull
  <2>1. /\ c \in C.table.notNull
        /\ c \in C.table.filled => c \in Fills.defaults
    BY <1>1 DEF Creatable, CreateChecks, CreateFills, CreateWrites
  <2>2. c = focus
    BY <1>2, <2>1, FilledValue DEF Needed
  <2> QED
    BY <1>2, <2>1, <2>2, FilledValue
<1>3. ASSUME NEW c, Filled(c) = "bad" PROVE builder.value = "bad"
  BY <1>3, FilledValue
<1> QED
  BY <1>2, <1>3 DEF CreateInvalid

LEMMA UpdateRefusedHow ==
  ASSUME EntInv, Updating, UpdateRefused
  PROVE  \/ IsParent /\ (builder.value = "bad" \/ builder.cleared)
         \/ /\ focus \in C.fields
            /\ builder.value # "unset" \/ builder.cleared
            /\ builder.plus > 0 \/ builder.cleared
         \/ IsEdge /\ (builder.added \/ child = "ours")
<1>1. /\ Fills = C.fills[builder.kind] /\ Writes = C.writes[builder.kind]
      /\ builder.kind \in Updates /\ Coherent(C)
  BY CoherentHere DEF EntInv, Fills, Writes, Updating, Updates
<1>2. /\ Writes.add \subseteq C.fields /\ Writes.clear \subseteq C.fields
      /\ Fills.defaults \cap Writes.add = {}
      /\ Writes.parents \subseteq C.slots.parents
      /\ C.table.notNull \subseteq Columns
      /\ C.slots.parents \subseteq Columns
      /\ C.slots.counters \cap C.slots.parents = {}
  BY <1>1
  DEF Coherent, Updatable, WritesFit, FillsFit, Named, Columns, ColumnsOf
<1>3. InvalidNeverStored /\ row # NoRow
  BY RowHere DEF EntInv
<1>4. CASE AssignedTwice
  BY <1>2, <1>4 DEF AssignedTwice, Sets, Adds, Nulls, Stamps
<1>5. ASSUME NEW c \in C.table.notNull, Updated(c, "good").is = "null"
      PROVE  c = focus /\ (Nulls \/ Unlinks)
  <2>1. /\ row[c].is # "null" /\ c \in Columns /\ row[c] \in Cells
        /\ "good" \in Given
    BY <1>2, <1>3, RowHere DEF InvalidNeverStored, Given
  <2>2. CASE c # focus
    BY <1>5, <2>1, <2>2, UpdatedValue
  <2>3. CASE c = focus /\ (Sets \/ Links)
    BY <1>5, <2>1, <2>3, UpdatedValue, GivenValue
  <2>4. CASE c = focus /\ ~(Sets \/ Links) /\ ~(Nulls \/ Unlinks)
    BY <1>5, <2>1, <2>4, UpdatedValue DEF Cells
  <2> QED
    BY <2>2, <2>3, <2>4
<1>6. Nulls => focus \in C.fields /\ builder.cleared
  BY <1>2 DEF Nulls
<1>7. Unlinks => IsParent /\ builder.cleared
  BY <1>2 DEF Unlinks, IsParent
<1>8. ASSUME NEW c \in C.slots.parents, Updated(c, "good").is = "bad"
      PROVE  IsParent /\ builder.value = "bad"
  <2>1. /\ row[c].is # "bad" /\ c \in Columns /\ row[c] \in Cells
        /\ "good" \in Given
    BY <1>2, <1>3, RowHere DEF InvalidNeverStored, Given
  <2>2. CASE c # focus
    BY <1>8, <2>1, <2>2, UpdatedValue
  <2>3. CASE c = focus /\ (Sets \/ Links)
    BY <1>8, <2>1, <2>3, UpdatedValue, GivenValue DEF IsParent
  <2>4. CASE c = focus /\ ~(Sets \/ Links)
    BY <1>8, <2>1, <2>4, UpdatedValue DEF Cells
  <2> QED
    BY <2>2, <2>3, <2>4
<1> QED
  BY <1>4, <1>5, <1>6, <1>7, <1>8, ChildRefusedHow DEF UpdateRefused

LEMMA UpdateInvalidHow ==
  ASSUME EntInv, Updating, UpdateInvalid
  PROVE  builder.value = "bad" \/ (IsParent /\ builder.cleared)
<1>1. Fills.parents \subseteq C.slots.parents
  BY CoherentHere
  DEF EntInv, Fills, Updating, Updates, Coherent, Updatable, FillsFit
<1> QED
  BY <1>1 DEF UpdateInvalid, IsParent

\* check and the constraints behind it refuse nothing but what they are for.
THEOREM RefusalsExpected == Spec => RefusalsAreExpected
<1> DEFINE Refusals ==
  /\ Saving /\ outcome' = "refused" =>
       \/ builder.kind = "create" /\ focus \notin C.fields
          /\ focus \in C.table.notNull /\ builder.value = "unset"
       \/ IsParent /\ (builder.value = "bad" \/ builder.cleared)
       \/ Updating /\ focus \in C.fields
          /\ (builder.value # "unset" \/ builder.cleared)
          /\ (builder.plus > 0 \/ builder.cleared)
       \/ IsEdge /\ (builder.added \/ child = "ours")
  /\ Saving /\ outcome' = "invalid" =>
       \/ builder.value = "bad"
       \/ builder.kind = "create" /\ builder.value = "unset"
          /\ focus \in C.table.notNull
       \/ IsParent /\ builder.cleared
<1>1. EntInv /\ [Next]_vars => [Refusals]_vars
  <2> SUFFICES ASSUME EntInv, Next, Saving PROVE Refusals
    OBVIOUS
  <2>1. CASE SaveCreate
    <3>1. outcome' = "refused" => ~CreateInvalid /\ CreateRefused
      BY <2>1 DEF SaveCreate, Done
    <3>2. outcome' = "invalid" => CreateInvalid
      BY <2>1 DEF SaveCreate, Done
    <3>3. builder.kind = "create"
      BY <2>1 DEF SaveCreate
    <3> QED
      BY <3>1, <3>2, <3>3, CreateRefusedHow, CreateInvalidHow
  <2>2. CASE SaveUpdate
    <3>1. outcome' = "refused" => UpdateRefused
      BY <2>2 DEF SaveUpdate, Done
    <3>2. outcome' = "invalid" => UpdateInvalid
      BY <2>2 DEF SaveUpdate, Done
    <3>3. Updating
      BY <2>2 DEF SaveUpdate
    <3> QED
      BY <3>1, <3>2, <3>3, UpdateRefusedHow, UpdateInvalidHow
  <2> QED
    BY <2>1, <2>2, WhoSaves
<1>2. Spec => [][Refusals]_vars
  BY <1>1, EntInvariant, PTL DEF Spec
<1> QED
  BY <1>2 DEF RefusalsAreExpected

===============================================================================

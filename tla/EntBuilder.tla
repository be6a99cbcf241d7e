------------------------------ MODULE EntBuilder ------------------------------
(*****************************************************************************)
(* One row, one child row and the builders that write them, for any entity   *)
(* of EntSchema.  A behaviour looks at one column or one-to-many edge, the   *)
(* focus: every call of a builder is about it, and a create gives each other *)
(* column that has to be given a good value.  The database under sqlgraph    *)
(* (NOT NULL, foreign keys, a column assigned twice in one UPDATE) is        *)
(* modelled from how the builders use it.                                    *)
(*****************************************************************************)
EXTENDS Naturals, EntSchema

CONSTANTS
  Entities,      \* the entities looked at, names of the fields of Client
  MaxCalls,      \* bound: calls on one builder
  MaxSaves       \* bound: saves and deletes

ASSUME EntAssumption ==
  /\ Entities \subseteq DOMAIN Client
  /\ MaxCalls \in Nat
  /\ MaxSaves \in Nat

VARIABLES
  entity,
  focus,     \* a column of the entity, or the name of a one-to-many edge
  row,       \* the stored row, or NoRow
  child,     \* the child's foreign key: NULL ("free"), "ours", or "theirs"
  builder,   \* the mutation under construction
  wish,      \* what the calls so far ask for
  saves,
  outcome    \* of the last save

vars == <<entity, focus, row, child, builder, wish, saves, outcome>>

C == Client[entity]
Columns == C.table.notNull \cup C.table.null
Many == DOMAIN C.edges.many
ChildTable == Client[C.edges.many[focus][1]].table
ChildColumn == C.edges.many[focus][2]
IsEdge == focus \in Many
IsParent == focus \in C.slots.parents

Kinds == {"create", "update", "updateOne"}
Given == {"good", "bad"}      \* bad: a validator refuses it, or no such parent
Cells == [is : {"null", "default", "good", "bad", "stamp"}, plus : Nat]

NoRow == << >>
Mutations ==
  [kind : Kinds \cup {"none"}, calls : 0..MaxCalls, value : Given \cup {"unset"},
   plus : 0..MaxCalls, cleared : BOOLEAN, added : BOOLEAN, removed : BOOLEAN]
NoWish == [is |-> "keep", plus |-> 0]
NewMutation(kind) ==
  [kind |-> kind, calls |-> 0, value |-> "unset", plus |-> 0,
   cleared |-> FALSE, added |-> FALSE, removed |-> FALSE]
Idle == NewMutation("none")

Init ==
  /\ entity \in Entities
  /\ focus \in Columns \cup Many
  /\ row = NoRow
  /\ child \in IF IsEdge /\ ChildColumn \in ChildTable.null
               THEN {"free", "theirs"} ELSE {"theirs"}
  /\ builder = Idle
  /\ wish = NoWish
  /\ saves = 0
  /\ outcome = "none"

-------------------------------------------------------------------------------
(*************************** Calls on the builder ****************************)

NewBuilder(kind) ==
  /\ builder.kind = "none" /\ saves < MaxSaves
  /\ (kind = "create") <=> (row = NoRow)
  /\ builder' = NewMutation(kind)
  /\ wish' = NoWish
  /\ outcome' = "none"
  /\ UNCHANGED <<entity, focus, row, child, saves>>

Offers == C.offers[builder.kind]
Updating == builder.kind \in {"update", "updateOne"}

Call(mutation, wanted) ==
  /\ builder' = [mutation EXCEPT !.calls = builder.calls + 1]
  /\ wish' = wanted
  /\ UNCHANGED <<entity, focus, row, child, saves, outcome>>

(* SetY and SetField; of a parent SetYID.  Only a column with a validator    *)
(* and a parent have bad values.  Setting a counter forgets its increment.   *)
Set(v) ==
  /\ focus \in Offers.set \cup C.setFields
  /\ v = "bad" => IsParent \/ focus \in C.declared.valid
  /\ Call([builder EXCEPT !.value = v, !.plus = 0],
          [is |-> v, plus |-> 0])

(* AddY and AddField: increments add up.                                     *)
Add ==
  /\ focus \in C.slots.counters
  /\ focus \in C.addFields \cup (IF Updating THEN Offers.add ELSE {})
  /\ Call([builder EXCEPT !.plus = @ + 1],
          IF Updating THEN [wish EXCEPT !.plus = @ + 1] ELSE wish)

(* ClearY and ClearField: the value is forgotten.                            *)
Clear ==
  /\ focus \in C.slots.nullables
  /\ focus \in C.clearFields \cup (IF Updating THEN Offers.clear ELSE {})
  /\ Call([builder EXCEPT !.value = "unset", !.plus = 0, !.cleared = TRUE],
          [is |-> "null", plus |-> 0])

(* ClearY of a parent: a link made by the same builder stays, and wins.      *)
Unlink ==
  /\ IsParent
  /\ Updating => focus \in Offers.unlink
  /\ Call([builder EXCEPT !.cleared = TRUE],
          [wish EXCEPT !.is = IF builder.value = "unset" THEN "null" ELSE @])

(* ResetY and ResetField.  For a parent ResetYID undoes the link, not the    *)
(* unlink.                                                                   *)
Reset ==
  /\ focus \in C.resetFields
  /\ Call([builder EXCEPT !.value = "unset", !.plus = 0,
                          !.cleared = IsParent /\ @],
          [is |-> IF IsParent /\ builder.cleared THEN "null" ELSE "keep",
           plus |-> 0])

(* ResetEdge, of a parent or of a one-to-many edge.                          *)
ResetEdge ==
  /\ IsParent \/ IsEdge
  /\ Call(NewMutation(builder.kind), NoWish)

(* AddYIDs, RemoveYIDs and ClearY of a one-to-many edge.  Removing a child   *)
(* takes it off the added ones; adding does not take it off the removed.     *)
LinkChild ==
  /\ IsEdge /\ focus \in Offers.many
  /\ Call([builder EXCEPT !.added = TRUE], [wish EXCEPT !.is = "ours"])

RemoveChild ==
  /\ IsEdge /\ Updating /\ focus \in Offers.many
  /\ Call([builder EXCEPT !.added = FALSE, !.removed = TRUE],
          [wish EXCEPT !.is = "not ours"])

ClearChildren ==
  /\ IsEdge /\ Updating /\ focus \in Offers.many
  /\ Call([builder EXCEPT !.cleared = TRUE],
          [wish EXCEPT !.is = IF builder.added THEN "ours" ELSE "not ours"])

-------------------------------------------------------------------------------
(********************************** Saving ***********************************)

Fills == C.fills[builder.kind]
Writes == C.writes[builder.kind]

(* A one-to-many edge, under both kinds: the child is taken off this row     *)
(* before it is linked to it, and only a child without a parent is linked.   *)
Writing == IsEdge /\ focus \in Writes.many
Detached ==
  IF Writing /\ child = "ours" /\ (builder.cleared \/ builder.removed)
  THEN "free" ELSE child
ChildRefused ==
  \/ Detached # child /\ ChildColumn \in ChildTable.notNull
  \/ Writing /\ builder.added /\ Detached # "free"
ChildAfter == IF Writing /\ builder.added THEN "ours" ELSE Detached

(* Create.  The caller gives the columns that nothing fills.                 *)
Needed == C.table.notNull \ (C.table.filled \cup Fills.defaults \cup {focus})
Filled(c) ==
  LET given == IF c = focus THEN builder.value
               ELSE IF c \in Needed THEN "good" ELSE "unset"
  IN IF given = "unset" /\ c \in Fills.defaults THEN "default" ELSE given
Inserted(c) ==
  IF c \in Writes.set \cup Writes.parents /\ Filled(c) # "unset"
  THEN Filled(c)
  ELSE IF c \in C.table.filled THEN "default" ELSE "null"

CreateInvalid ==
  \/ \E c \in Fills.required \cup Fills.parents : Filled(c) = "unset"
  \/ \E c \in Fills.valid : Filled(c) = "bad"
CreateRefused ==
  \/ \E c \in C.table.notNull : Inserted(c) = "null"
  \/ \E c \in C.slots.parents : Inserted(c) = "bad"
  \/ ChildRefused

(* Update and UpdateOne.                                                     *)
Stamps(c) == c \in Fills.defaults /\ (c = focus => builder.value = "unset")
Sets == focus \in Writes.set /\ (builder.value # "unset" \/ Stamps(focus))
Adds == focus \in Writes.add /\ builder.plus > 0
Nulls == focus \in Writes.clear /\ builder.cleared
Links == focus \in Writes.parents /\ builder.value # "unset"
Unlinks == focus \in Writes.parents /\ builder.cleared /\ ~Links
AssignedTwice == (Sets /\ Adds) \/ (Sets /\ Nulls) \/ (Adds /\ Nulls)

Stamped(c) == c # focus /\ Stamps(c) /\ c \in Writes.set
Plain(v) == [is |-> v, plus |-> 0]
(* An increment passes no validator, not that of AddPrice either: the sum may *)
(* be one that the validator of a Set would refuse.                          *)
Sums == IF focus \in C.declared.valid THEN Given ELSE {"good"}
Increased(cell, sum) ==
  IF Adds THEN [is |-> sum, plus |-> cell.plus + builder.plus] ELSE cell
(* A bug: the time of the update is left out when it is the focus.           *)
UpdatedUnstamped(c, sum) ==
  IF c # focus THEN IF Stamped(c) THEN Plain("stamp") ELSE row[c]
  ELSE IF Sets \/ Links THEN Plain(builder.value)
  ELSE IF Nulls \/ Unlinks THEN Plain("null") ELSE Increased(row[c], sum)
Updated(c, sum) ==
  IF c # focus THEN IF Stamped(c) THEN Plain("stamp") ELSE row[c]
  ELSE IF Sets \/ Links
  THEN Plain(IF builder.value = "unset" THEN "stamp" ELSE builder.value)
  ELSE IF Nulls \/ Unlinks THEN Plain("null") ELSE Increased(row[c], sum)

UpdateInvalid ==
  \/ focus \in Fills.valid /\ builder.value = "bad"
  \/ focus \in Fills.parents /\ builder.cleared /\ builder.value # "unset"
UpdateRefused ==
  \/ AssignedTwice
  \/ \E c \in C.table.notNull : Updated(c, "good").is = "null"
  \/ \E c \in C.slots.parents : Updated(c, "good").is = "bad"
  \/ ChildRefused

Done(result) ==
  /\ builder' = Idle
  /\ saves' = saves + 1
  /\ outcome' = result
  /\ UNCHANGED <<entity, focus, wish>>

(* Save of a create: defaults, check, then INSERT.                           *)
SaveCreate ==
  /\ builder.kind = "create"
  /\ \/ CreateInvalid /\ Done("invalid") /\ UNCHANGED <<row, child>>
     \/ ~CreateInvalid /\ CreateRefused /\ Done("refused")
        /\ UNCHANGED <<row, child>>
     \/ /\ ~CreateInvalid /\ ~CreateRefused /\ Done("saved")
        /\ row' = [c \in Columns |-> [is |-> Inserted(c), plus |-> 0]]
        /\ child' = ChildAfter

(* Save of an update: defaults, check, then UPDATE.                          *)
SaveUpdate ==
  /\ Updating
  /\ \/ UpdateInvalid /\ Done("invalid") /\ UNCHANGED <<row, child>>
     \/ ~UpdateInvalid /\ UpdateRefused /\ Done("refused")
        /\ UNCHANGED <<row, child>>
     \/ /\ ~UpdateInvalid /\ ~UpdateRefused /\ Done("saved")
        /\ \E sum \in Sums : row' = [c \in Columns |-> Updated(c, sum)]
        /\ child' = ChildAfter

(* Exec of a delete: the foreign key of the child decides.                   *)
Delete ==
  /\ builder.kind = "none" /\ row # NoRow /\ saves < MaxSaves
  /\ IF child = "ours" /\ ChildColumn \notin ChildTable.unlinked
     THEN Done("refused") /\ UNCHANGED <<row, child>>
     ELSE /\ Done("saved")
          /\ row' = NoRow
          /\ child' = IF child = "ours" THEN "free" ELSE child

(* A builder of the child's own entity moves the child.                      *)
ChildMoves ==
  /\ IsEdge
  /\ child' \in {"theirs", "ours", "free"} \ {child}
  /\ child' = "ours" => row # NoRow
  /\ child' = "free" => ChildColumn \in ChildTable.null
  /\ UNCHANGED <<entity, focus, row, builder, wish, saves, outcome>>

Calls ==
  /\ builder.kind # "none" /\ builder.calls < MaxCalls
  /\ \/ \E v \in Given : Set(v)
     \/ Add \/ Clear \/ Unlink \/ Reset \/ ResetEdge
     \/ LinkChild \/ RemoveChild \/ ClearChildren

Next ==
  \/ \E kind \in Kinds : NewBuilder(kind)
  \/ Calls
  \/ SaveCreate \/ SaveUpdate \/ Delete
  \/ ChildMoves

Spec == Init /\ [][Next]_vars

-------------------------------------------------------------------------------
(******************************** Properties *********************************)

(* Every variable has its type; a stored cell is NULL, a default, a value   *)
(* that was given or came of increments, or the time of an update.           *)
EntTypeOK ==
  /\ entity \in Entities
  /\ focus \in Columns \cup Many
  /\ row = NoRow \/ row \in [Columns -> Cells]
  /\ child \in {"free", "ours", "theirs"}
  /\ builder \in Mutations
  /\ wish \in [is : {"keep", "null", "good", "bad", "ours", "not ours"},
               plus : 0..MaxCalls]
  /\ saves \in 0..MaxSaves
  /\ outcome \in {"none", "saved", "invalid", "refused"}

Saving == builder.kind # "none" /\ saves' = saves + 1
Saved == Saving /\ outcome' = "saved"

(* A save that succeeds leaves in the column, or does with the child, what   *)
(* the calls asked for, no call being lost between the mutation and the      *)
(* statement: the last value, every increment, NULL, or, without a call, the *)
(* default of a create, the stamp of an update, or the old value.  An        *)
(* immutable column ignores an update.  (Setters, defaults, sqlSave.)        *)
ChildGranted ==
  /\ wish.is = "ours" => child' = "ours"
  /\ wish.is = "not ours" => child' # "ours"
  /\ wish.is = "keep" => child' = child
ColumnGranted ==
  IF Updating /\ focus \in C.declared.immutable
  THEN row'[focus] = row[focus]
  ELSE IF wish.is # "keep"
  THEN row'[focus] = [is |-> wish.is, plus |-> wish.plus]
  ELSE IF builder.kind = "create"
  THEN row'[focus].is \in {"default", "null"}
  ELSE IF focus \in C.declared.stamped
  THEN row'[focus].is = "stamp"
  ELSE IF wish.plus = 0
  THEN row'[focus] = row[focus]
  ELSE row'[focus].plus = row[focus].plus + wish.plus
Granted == IF IsEdge THEN ChildGranted ELSE ColumnGranted
CallsAreKept == [][Saved => Granted]_vars

(* An update changes no column but the one it was called for and the stamp   *)
(* of the time, even when the column it was called for is an edge: the       *)
(* defaults of a create do not come back.  (defaults, sqlSave.)              *)
OtherColumnsKept ==
  [][Saved /\ Updating
       => \A c \in Columns \ ({focus} \cup C.declared.stamped) :
            row'[c] = row[c]]_vars

(* No builder sets a column to a value that the schema declares invalid, to  *)
(* NULL where the table requires a value, or to a parent that is not there:  *)
(* what is invalid in a stored row was brought there by increments, which no *)
(* validator sees (AddPrice).  (check, and the constraints behind it.)       *)
InvalidNeverStored ==
  row # NoRow =>
    /\ \A c \in C.declared.valid \cup C.slots.parents : row[c].is = "bad" =>
         c \in C.slots.counters /\ row[c].plus > 0
    /\ \A c \in C.table.notNull : row[c].is # "null"
    /\ \A c \in Columns : row[c].is = "null" =>
         c \in C.declared.optional \cup C.slots.parents \cup C.selected.fks

(* check refuses what it can see; the database is left to refuse only these: *)
(* an id that no default fills, a parent that does not exist, the unlinking  *)
(* of a required parent, a column named twice in one update, and a child     *)
(* that another row holds or that cannot be without a parent.                *)
RefusalsAreExpected ==
  [][/\ Saving /\ outcome' = "refused" =>
          \/ builder.kind = "create" /\ focus \notin C.fields
             /\ focus \in C.table.notNull /\ builder.value = "unset"
          \/ IsParent /\ (builder.value = "bad" \/ builder.cleared)
          \/ Updating /\ focus \in C.fields
             /\ (builder.value # "unset" \/ builder.cleared)
             /\ (builder.plus > 0 \/ builder.cleared)
          \/ IsEdge /\ (builder.added \/ child = "ours")
     /\ Saving /\ outcome' = "invalid" =>
          \/ builder.value = "bad"
          \/ builder.kind = "create" /\ builder.value = "unset"
             /\ focus \in C.table.notNull
          \/ IsParent /\ builder.cleared]_vars

(* What was saved is what a query returns: each column that a builder can    *)
(* set is selected and scanned, a foreign key that only an edge knows is     *)
(* selected because the edge is loaded, and a child is found again through   *)
(* the edge that linked it.  (Columns, assignValues, sqlAll.)                *)
ReadBack(c) ==
  IF /\ c \in C.scans
     /\ \/ c \in C.selected.columns
        \/ c \in C.selected.fks /\ C.loads.withFKs # {}
  THEN row[c] ELSE [is |-> "not read", plus |-> 0]
SavedIsReadBack ==
  row # NoRow =>
    /\ \A c \in C.fields \cup C.slots.parents : ReadBack(c) = row[c]
    /\ DOMAIN C.edges.single \subseteq C.loads.single
    /\ child = "ours" =>
         /\ focus \in C.loads.many
         /\ \/ focus \in C.loads.childFKs
            \/ ChildColumn \in Client[C.edges.many[focus][1]].selected.columns

(*****************************************************************************)
(* The inductive invariant behind them.                                      *)
(*****************************************************************************)
(* What was called is what the entity offers.                                *)
Fits(m) ==
  /\ m.value # "unset" => focus \in C.offers[m.kind].set \cup C.setFields
  /\ m.plus > 0 => focus \in C.slots.counters
  /\ m.cleared => IsEdge \/ IsParent \/ focus \in C.slots.nullables
  /\ m.added \/ m.removed => IsEdge

(* A builder is under construction only if its save fits the bound; an       *)
(* update has a row to change.                                               *)
BuilderFits ==
  builder.kind # "none" =>
    /\ saves < MaxSaves
    /\ Updating => row # NoRow
    /\ builder.plus <= builder.calls
    /\ Fits(builder)

(* The mutation says what the calls asked for: of a column the last value,   *)
(* else that it was cleared, and the increments since; of an edge whether    *)
(* the child is to be linked, else whether it is to be taken off.            *)
Asked(m) ==
  IF IsEdge
  THEN [is |-> IF m.added THEN "ours"
               ELSE IF m.removed \/ m.cleared THEN "not ours" ELSE "keep",
        plus |-> 0]
  ELSE [is |-> IF m.value # "unset" THEN m.value
               ELSE IF m.cleared THEN "null" ELSE "keep",
        plus |-> IF m.kind = "create" THEN 0 ELSE m.plus]
WishIsAsked == builder.kind # "none" => wish = Asked(builder)

ChildOnEdge == child = "ours" => IsEdge

EntInv ==
  /\ EntTypeOK
  /\ BuilderFits
  /\ WishIsAsked
  /\ ChildOnEdge
  /\ InvalidNeverStored
===============================================================================

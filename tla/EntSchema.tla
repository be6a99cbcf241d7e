------------------------------- MODULE EntSchema ------------------------------
(*****************************************************************************)
(* The generated database client of src/ent, entity by entity.  A module     *)
(* EntX lists, for the entity X, what each generated file names:             *)
(*                                                                           *)
(*   Fields, SetFields, AddFields, ClearFields, ResetFields, Edges           *)
(*                     the generic methods of the mutation                   *)
(*   Slots             the typed ones: counters have AddY, nullables ClearY, *)
(*                     parents SetYID and ClearY, many AddYIDs, RemoveYIDs   *)
(*                     and ClearY                                            *)
(*   Table             the columns that are NOT NULL, that may be NULL, that *)
(*                     PostgreSQL fills, and the foreign keys set to NULL    *)
(*                     when their parent is deleted                          *)
(*   Declared          what the schema says: optional, immutable, validated, *)
(*                     stamped with the time of an update                    *)
(*   Selected, Scans   the columns a query selects (fks only on demand) and  *)
(*                     those a row is scanned into                           *)
(*   Loads             the edges a query loads, the edges of this entity     *)
(*                     that need its own fks, and those that ask their       *)
(*                     children for theirs                                   *)
(*   Offers, Fills, Writes of Create, Update and UpdateOne                   *)
(*                     the methods of a builder, what Save fills and checks, *)
(*                     and what it hands to sqlgraph                         *)
(*                                                                           *)
(* A parent is named by its column.  The many-to-many edges purchasers and   *)
(* purchased_products, two views of user_purchases, are left out.            *)
(*****************************************************************************)
Achievement == INSTANCE EntAchievement
Character == INSTANCE EntCharacter
ConsentLog == INSTANCE EntConsentLog
EventLog == INSTANCE EntEventLog
Item == INSTANCE EntItem
Music == INSTANCE EntMusic
Product == INSTANCE EntProduct
Record == INSTANCE EntRecord
Stage == INSTANCE EntStage
TLevel == INSTANCE EntTLevel
TRank == INSTANCE EntTRank
User == INSTANCE EntUser
UserAchievement == INSTANCE EntUserAchievement
UserPurchase == INSTANCE EntUserPurchase

Client ==
  [achievement |-> Achievement!Client,
   character |-> Character!Client,
   consentlog |-> ConsentLog!Client,
   eventlog |-> EventLog!Client,
   item |-> Item!Client,
   music |-> Music!Client,
   product |-> Product!Client,
   record |-> Record!Client,
   stage |-> Stage!Client,
   tlevel |-> TLevel!Client,
   trank |-> TRank!Client,
   user |-> User!Client,
   userachievement |-> UserAchievement!Client,
   userpurchase |-> UserPurchase!Client]
===============================================================================

---------------------------- MODULE CatalogSeeds ----------------------------
(***************************************************************************)
(* The admin writes of the gamification service: seeding and upserting the *)
(* mascot manifest, and seeding the outfit and achievement catalogs        *)
(* (src/app/gamification/service.py and the four routes over them).  Each  *)
(* is one transaction that reads the rows it names, compares them column   *)
(* by column and flushes once at the end: sessions have autoflush off, so  *)
(* a batch does not see its own inserts.  Deploys overlap and uploads run  *)
(* while a seed does, so the transactions interleave.                      *)
(*                                                                         *)
(* The tables have disjoint keys and are kept in one function.  XpLedger   *)
(* has the first seeding of the catalogs and what users get out of it.     *)
(***************************************************************************)
EXTENDS Database, Naturals, FiniteSets, SequencesExt

CONSTANTS
  Combos,        \* (species, stage, mood, outfit_code) of the manifest
  SeededCombos,  \* those of the placeholders: outfit_code "none"
  Batches,       \* what the asset pipeline may post: sequences of items
  Codes,         \* of the two catalogs
  CatalogOf,     \* by release of the service: its catalog, a row for each code
  Seeders        \* concurrent transactions

\* MascotManifestUpsertItem.
UpsertItem == [combo : Combos, sprite_url : STRING, animation_url : STRING]

ASSUME SeedsAssumption ==
  /\ SeededCombos \subseteq Combos /\ Combos \intersect Codes = {}
  /\ \A batch \in Batches : batch \in Seq(UpsertItem)
  /\ \A r \in DOMAIN CatalogOf :
       /\ DOMAIN CatalogOf[r] = Codes
       /\ \A code \in Codes : CatalogOf[r][code] =
            [column \in DOMAIN CatalogOf[r][code] |-> CatalogOf[r][code][column]]

VARIABLES
  rows,      \* by combo or code: the committed row, or NoRow
  seeding    \* by seeder: NoSeeding or the open transaction

seedVars == <<rows, seeding>>

NoSeeding == [kind |-> "none"]

Keys == Combos \union Codes

-----------------------------------------------------------------------------
(* What a transaction makes of the rows it has read.                       *)

\* "Asset not yet uploaded".
Placeholder == [sprite_url |-> "", animation_url |-> ""]

AssetOf(item) == [sprite_url |-> item.sprite_url, animation_url |-> item.animation_url]

\* Mutant of Seeded: a row without a sprite counts as missing.
SeededUnlessDrawn(read) ==
  [k \in Keys |-> IF k \in SeededCombos /\ (read[k] = NoRow \/ read[k].sprite_url = "")
                    THEN Placeholder ELSE read[k]]

\* seed_mascot_manifest_placeholders: inserts only.
Seeded(read) ==
  [k \in Keys |-> IF k \in SeededCombos /\ read[k] = NoRow THEN Placeholder ELSE read[k]]

Names(batch, c) == {i \in DOMAIN batch : batch[i].combo = c}

\* Mutant of Upserted: an empty URL leaves the column as it is.
UpsertedWhereGiven(read, batch) ==
  FoldLeft(LAMBDA t, item : [t EXCEPT ![item.combo] =
             IF @ = NoRow THEN AssetOf(item)
             ELSE [u \in DOMAIN @ |-> IF item[u] = "" THEN @[u] ELSE item[u]]],
           read, batch)

\* upsert_mascot_manifest_entries: the items in order, each over what the items
\* before it made of the row.
Upserted(read, batch) ==
  FoldLeft(LAMBDA t, item : [t EXCEPT ![item.combo] = AssetOf(item)], read, batch)

\* A combo that is not in the table and is named twice is added twice.
AddedTwice(read, batch) ==
  \E c \in Combos : read[c] = NoRow /\ Cardinality(Names(batch, c)) > 1

\* seed_outfit_catalog, seed_achievement_catalog: every code is brought to what
\* the release says.
Reseeded(read, release) ==
  [k \in Keys |-> IF k \in Codes THEN CatalogOf[release][k] ELSE read[k]]

-----------------------------------------------------------------------------
(* The transactions.                                                       *)

Open(s, kind, edited, batch) ==
  /\ seeding[s] = NoSeeding
  /\ seeding' = [seeding EXCEPT ![s] =
       [kind |-> kind, read |-> rows, edited |-> edited, batch |-> batch]]
  /\ UNCHANGED rows

SeedPlaceholders(s) == Open(s, "seed", Seeded(rows), <<>>)

UpsertEntries(s) ==
  \E batch \in Batches : Open(s, "upsert", Upserted(rows, batch), batch)

SeedRelease(s) ==
  \E release \in DOMAIN CatalogOf : Open(s, "reseed", Reseeded(rows, release), <<>>)

\* The flush gets through.  An untouched row is not written.
Storable(t) ==
  /\ \A k \in Keys : t.edited[k] # t.read[k] => CanStore(rows[k], t.read[k], t.edited[k])
  /\ ~AddedTwice(t.read, t.batch)

CommitSeeding(s) ==
  /\ seeding[s] # NoSeeding
  /\ Storable(seeding[s])
  /\ rows' = [k \in Keys |->
       IF seeding[s].edited[k] = seeding[s].read[k]
         THEN rows[k]
         ELSE Stored(rows[k], seeding[s].read[k], seeding[s].edited[k])]
  /\ seeding' = [seeding EXCEPT ![s] = NoSeeding]

\* The flush is refused, or something else ends the request.
AbandonSeeding(s) ==
  /\ seeding[s] # NoSeeding
  /\ seeding' = [seeding EXCEPT ![s] = NoSeeding]
  /\ UNCHANGED rows

SeedsInit ==
  /\ rows = [k \in Keys |-> NoRow]
  /\ seeding = [s \in Seeders |-> NoSeeding]

SeedsNext ==
  \E s \in Seeders :
    SeedPlaceholders(s) \/ UpsertEntries(s) \/ SeedRelease(s) \/ CommitSeeding(s) \/ AbandonSeeding(s)

SeedsSpec == SeedsInit /\ [][SeedsNext]_seedVars

-----------------------------------------------------------------------------

\* Every row is one that somebody wrote: the URLs of one item of a batch, or the
\* columns of one release.  Uploads that overlap, or a deploy in which two
\* releases seed at once, do not leave a row that mixes the two
\* (service.py:703-710, 743-755, 784-799 assign column by column).
RowsAreWhole ==
  /\ \A c \in Combos : rows[c] \in
       {NoRow, Placeholder}
         \union UNION {{AssetOf(batch[i]) : i \in Names(batch, c)} : batch \in Batches}
  /\ \A code \in Codes : rows[code] \in {NoRow} \union {CatalogOf[r][code] : r \in DOMAIN CatalogOf}

\* Seeding placeholders never touches an asset that is there (service.py:641-652),
\* even one that was uploaded while the seed was under way: a row of the manifest
\* changes only to what a batch says of its combo.
SeedsKeepUploads ==
  [][\A c \in Combos :
       rows[c] # NoRow /\ rows'[c] # rows[c] =>
         \E batch \in Batches : \E i \in Names(batch, c) : rows'[c] = AssetOf(batch[i])]_seedVars

=============================================================================

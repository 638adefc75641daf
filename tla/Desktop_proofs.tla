------------------------------ MODULE Desktop_proofs -----------------------------
(***************************************************************************)
(* Proofs about parts of the desktop application: Migrations, ArticleAi,   *)
(* SearchIndex with ArticleLists, FeedPipeline.                            *)
(***************************************************************************)
EXTENDS Migrations, ArticleAi, ArticleLists, FeedPipeline,
        FiniteSetTheorems, SequenceTheorems, WellFoundedInduction, TLAPS

-------------------------------------------------------------------------------
(* Migrations.                                                             *)

(* The first n migrations of a history, as rows of schema_migrations.      *)
FirstRows(s, n) == {[version |-> v, name |-> s[v]] : v \in 1 .. n}

(* What CurrentVersion, a CHOOSE, is for rows without a gap.               *)
LEMMA CurrentOfFirst ==
  ASSUME NEW s, NEW n \in Nat
  PROVE  /\ CurrentVersion(FirstRows(s, n)) = n
         /\ {m.version : m \in FirstRows(s, n)} = 1 .. n
<1> DEFINE rows == FirstRows(s, n)
           versions == {m.version : m \in rows}
<1>1. versions = 1 .. n
  <2>1. \A m \in rows : m.version \in 1 .. n
    BY DEF FirstRows
  <2>2. ASSUME NEW v \in 1 .. n
        PROVE  v \in versions
    <3>1. [version |-> v, name |-> s[v]] \in rows
      BY DEF FirstRows
    <3> QED
      BY <3>1
  <2> QED
    BY <2>1, <2>2
<1>2. CASE n = 0
  <2>1. rows = {}
    BY <1>2 DEF FirstRows
  <2> QED
    BY <2>1, <1>1, <1>2 DEF CurrentVersion
<1>3. CASE n > 0
  <2>1. rows # {}
    <3>1. [version |-> 1, name |-> s[1]] \in rows
      BY <1>3 DEF FirstRows
    <3> QED
      BY <3>1
  <2>2. \A m \in rows : m.version \in 1 .. n
    BY DEF FirstRows
  <2>3. n \in versions /\ \A m \in rows : m.version <= n
    BY <1>1, <1>3, <2>2
  <2>4. \A v \in versions : (\A m \in rows : m.version <= v) => v = n
    <3> SUFFICES ASSUME NEW v \in versions, \A m \in rows : m.version <= v
                 PROVE  v = n
      OBVIOUS
    <3>1. PICK m \in rows : m.version = n
      BY <2>3
    <3>2. v \in 1 .. n
      BY <1>1
    <3> QED
      BY <3>1, <3>2
  <2>5. CurrentVersion(rows) = CHOOSE v \in versions : \A m \in rows : m.version <= v
    BY <2>1 DEF CurrentVersion
  <2> HIDE DEF rows, versions
  <2>6. CurrentVersion(rows) = n
    BY <2>3, <2>4, <2>5
  <2> QED
    BY <2>6, <1>1 DEF rows, versions
<1> QED
  BY <1>2, <1>3

(* IsPrefix, element by element.                                           *)
LEMMA PrefixByElement ==
  ASSUME NEW S, NEW s \in Seq(S), NEW t \in Seq(S)
  PROVE  IsPrefix(s, t) <=>
           Len(s) <= Len(t) /\ \A i \in 1 .. Len(s) : s[i] = t[i]
<1>1. ASSUME Len(s) <= Len(t)
      PROVE  /\ SubSeq(s, 1, Len(s)) = s
             /\ SubSeq(t, 1, Len(s)) \in Seq(S)
             /\ Len(SubSeq(t, 1, Len(s))) = Len(s)
             /\ \A i \in 1 .. Len(s) : SubSeq(t, 1, Len(s))[i] = t[i]
  BY <1>1
<1>2. ASSUME IsPrefix(s, t)
      PROVE  Len(s) <= Len(t) /\ \A i \in 1 .. Len(s) : s[i] = t[i]
  <2>1. Len(s) <= Len(t) /\ SubSeq(s, 1, Len(s)) = SubSeq(t, 1, Len(s))
    BY <1>2 DEF IsPrefix
  <2> QED
    BY <1>1, <2>1
<1>3. ASSUME Len(s) <= Len(t), \A i \in 1 .. Len(s) : s[i] = t[i]
      PROVE  IsPrefix(s, t)
  <2> DEFINE p == SubSeq(t, 1, Len(s))
  <2>1. p \in Seq(S) /\ Len(p) = Len(s) /\ \A i \in 1 .. Len(s) : p[i] = s[i]
    BY <1>1, <1>3
  <2>2. SubSeq(s, 1, Len(s)) = s
    BY <1>1, <1>3
  <2>3. p = s
    <3> HIDE DEF p
    <3> QED
      BY <2>1
  <2> QED
    BY <1>3, <2>2, <2>3 DEF IsPrefix
<1> QED
  BY <1>2, <1>3

(* A database file, or a backup: its rows list what its schema has been    *)
(* through, which is the beginning of one build.                           *)
FileOK(f) ==
  /\ f \in [schema : Seq(MigrationNames), rows : SUBSET [version : Nat, name : MigrationNames]]
  /\ f.rows = FirstRows(f.schema, Len(f.schema))
  /\ IsFiniteSet(f.rows) /\ Cardinality(f.rows) = Len(f.schema)
  /\ f.schema = <<>> \/ \E b \in Builds : IsPrefix(f.schema, b)

Found(o) == CurrentVersion(o.applied)

(* The program has found the first migrations of its build, and all it has *)
(* applied are in the file with them.                                      *)
OpenerOK(p) ==
  LET o == opener[p]
      n == Found(o)
  IN  /\ o.build \in Builds
      /\ n \in Nat /\ n + o.done <= Len(o.build) /\ n + o.done <= Len(file.schema)
      /\ o.applied = FirstRows(o.build, n)
      /\ \A v \in 1 .. n + o.done : file.schema[v] = o.build[v]
      /\ o.step = "loaded" => o.done = 0
      /\ o.step = "open" => n + o.done = Len(o.build)

(* The backup the program made has what the program found, or another one  *)
(* has migrated the file in between: then its own first insert fails.      *)
BackedUp(p) ==
  LET o == opener[p]
  IN  o.step \in {"migrating", "open"} /\ NeedsBackup(o) =>
        \E b \in backups : /\ b.name.from = Found(o) /\ b.name.to = Len(o.build)
                           /\ \/ b.content.rows = o.applied
                              \/ o.done = 0 /\ Len(file.schema) > Found(o)

OpenersType ==
  opener \in [Openers -> [step : {"closed", "loaded", "migrating", "open"},
                          build : Builds \cup {<<>>},
                          applied : SUBSET [version : Nat, name : MigrationNames], done : Nat]]

MigrationsInv ==
  /\ FileOK(file)
  /\ OpenersType
  /\ \A b \in backups : FileOK(b.content)
  /\ \A p \in Openers : opener[p].step # "closed" => OpenerOK(p) /\ BackedUp(p)
  /\ \A p \in Openers : opener[p].step = "closed" => opener[p] = Closed

LEMMA NoFile == FileOK(EmptyFile)
<1>1. EmptyFile.rows = FirstRows(EmptyFile.schema, Len(EmptyFile.schema))
  BY DEF EmptyFile, FirstRows
<1>2. IsFiniteSet({}) /\ Cardinality({}) = 0
  BY FS_EmptySet
<1> QED
  BY <1>1, <1>2 DEF FileOK, EmptyFile

LEMMA FileFacts ==
  ASSUME NEW f, FileOK(f)
  PROVE  /\ f.schema \in Seq(MigrationNames) /\ Len(f.schema) \in Nat
         /\ CurrentVersion(f.rows) = Len(f.schema)
         /\ {m.version : m \in f.rows} = 1 .. Len(f.schema)
<1>1. f.schema \in Seq(MigrationNames) /\ Len(f.schema) \in Nat
  BY DEF FileOK
<1> QED
  BY <1>1, CurrentOfFirst DEF FileOK

(* LoadApplied, BackUp, ... of p change the record of p alone.             *)
LEMMA OthersOpen ==
  ASSUME MigrationsInv, NEW p \in Openers, NEW r,
         opener' = [opener EXCEPT ![p] = r]
  PROVE  /\ opener'[p] = r
         /\ \A q \in Openers : q # p => opener'[q] = opener[q]
  BY DEF MigrationsInv, OpenersType

(* What holds of an opener holds while the file goes on in its history and *)
(* the backups are kept.                                                   *)
LEMMA OpenerKept ==
  ASSUME MigrationsInv, NEW q \in Openers, opener[q].step # "closed",
         opener'[q] = opener[q], backups \subseteq backups',
         Len(file'.schema) \in Nat, Len(file.schema) <= Len(file'.schema),
         \A v \in 1 .. Len(file.schema) : file'.schema[v] = file.schema[v]
  PROVE  OpenerOK(q)' /\ BackedUp(q)'
<1> DEFINE o == opener[q]
           n == Found(o)
<1>1. OpenerOK(q) /\ BackedUp(q) /\ o.done \in Nat /\ Len(file.schema) \in Nat
  BY DEF MigrationsInv, OpenersType, FileOK
<1>2. Found(opener'[q]) = n /\ NeedsBackup(opener'[q]) = NeedsBackup(o)
  OBVIOUS
<1>3. n \in Nat
  BY <1>1 DEF OpenerOK
<1>4. OpenerOK(q)'
  BY <1>1, <1>2, <1>3 DEF OpenerOK
<1>5. BackedUp(q)'
  <2> SUFFICES ASSUME o.step \in {"migrating", "open"}, NeedsBackup(o)
               PROVE  \E b \in backups' :
                        /\ b.name.from = n /\ b.name.to = Len(o.build)
                        /\ \/ b.content.rows = o.applied
                           \/ o.done = 0 /\ Len(file'.schema) > n
    BY <1>2 DEF BackedUp
  <2>1. PICK b \in backups : /\ b.name.from = n /\ b.name.to = Len(o.build)
                             /\ \/ b.content.rows = o.applied
                                \/ o.done = 0 /\ Len(file.schema) > n
    BY <1>1 DEF BackedUp
  <2>2. Len(file.schema) > n => Len(file'.schema) > n
    BY <1>1, <1>3
  <2> QED
    BY <2>1, <2>2
<1> QED
  BY <1>4, <1>5

LEMMA LoadKeeps ==
  ASSUME MigrationsInv, NEW p \in Openers, NEW build \in Builds, LoadApplied(p, build)
  PROVE  MigrationsInv'
<1> DEFINE s == file.schema
           o == [step |-> "loaded", build |-> build, applied |-> file.rows, done |-> 0]
<1>1. /\ UNCHANGED <<file, backups>> /\ opener' = [opener EXCEPT ![p] = o]
      /\ ValidApplied(file.rows, build)
  BY DEF LoadApplied
<1>2. FileOK(file) /\ FileOK(file') /\ \A b \in backups' : FileOK(b.content)
  BY <1>1 DEF MigrationsInv, FileOK
<1>3. /\ s \in Seq(MigrationNames) /\ Len(s) \in Nat /\ CurrentVersion(file.rows) = Len(s)
      /\ file.rows = FirstRows(s, Len(s))
  BY <1>2, FileFacts DEF FileOK
<1>4. build \in Seq(MigrationNames) /\ Len(build) \in Nat
  BY BuildAssumption
<1>5. ASSUME NEW v \in 1 .. Len(s)
      PROVE  v <= Len(build) /\ build[v] = s[v]
  <2>1. [version |-> v, name |-> s[v]] \in file.rows
    BY <1>3 DEF FirstRows
  <2> QED
    BY <1>1, <2>1 DEF ValidApplied
<1>6. Len(s) <= Len(build)
  BY <1>3, <1>4, <1>5
<1>7. file.rows = FirstRows(build, Len(s))
  BY <1>3, <1>5 DEF FirstRows
<1>8. OpenersType'
  <2>1. file.rows \in SUBSET [version : Nat, name : MigrationNames]
    BY <1>2 DEF FileOK
  <2> QED
    BY <1>1, <2>1 DEF MigrationsInv, OpenersType
<1>9. /\ opener'[p] = o /\ \A q \in Openers : q # p => opener'[q] = opener[q]
  BY <1>1, OthersOpen
<1>10. OpenerOK(p)'
  <2>1. Found(o) = Len(s)
    BY <1>3 DEF Found
  <2> HIDE DEF s
  <2> QED
    BY <1>1, <1>3, <1>4, <1>5, <1>6, <1>7, <1>9, <2>1 DEF OpenerOK, s
<1>11. BackedUp(p)'
  BY <1>9 DEF BackedUp
<1>12. \A q \in Openers : q # p /\ opener[q].step # "closed" => OpenerOK(q)' /\ BackedUp(q)'
  BY <1>1, <1>3, <1>9, OpenerKept
<1>13. \A q \in Openers : opener'[q].step = "closed" => opener'[q] = Closed
  BY <1>9 DEF MigrationsInv
<1> QED
  BY <1>2, <1>8, <1>9, <1>10, <1>11, <1>12, <1>13 DEF MigrationsInv

LEMMA BackUpKeeps ==
  ASSUME MigrationsInv, NEW p \in Openers, BackUp(p)
  PROVE  MigrationsInv'
<1> DEFINE o == opener[p]
           n == Found(o)
           copy == [name |-> BackupName(o), content |-> file]
<1>1. /\ o.step = "loaded" /\ UNCHANGED file /\ opener' = [opener EXCEPT ![p].step = "migrating"]
      /\ backups' = IF NeedsBackup(o) THEN backups \cup {copy} ELSE backups
  BY DEF BackUp
<1>2. FileOK(file) /\ FileOK(file') /\ \A b \in backups' : FileOK(b.content)
  BY <1>1 DEF MigrationsInv, FileOK
<1>3. /\ o.build \in Builds \cup {<<>>} /\ o.applied \in SUBSET [version : Nat, name : MigrationNames]
      /\ o.done \in Nat /\ Len(file.schema) \in Nat /\ OpenerOK(p)
      /\ o = [step |-> o.step, build |-> o.build, applied |-> o.applied, done |-> o.done]
  BY <1>1, <1>2, FileFacts DEF MigrationsInv, OpenersType
<1>4. OpenersType'
  BY <1>1 DEF MigrationsInv, OpenersType
<1>5. /\ opener'[p] = [o EXCEPT !.step = "migrating"]
      /\ \A q \in Openers : q # p => opener'[q] = opener[q]
  BY <1>1 DEF MigrationsInv, OpenersType
<1>6. /\ opener'[p].step = "migrating" /\ opener'[p].build = o.build
      /\ opener'[p].applied = o.applied /\ opener'[p].done = o.done
  BY <1>3, <1>5
<1>7. OpenerOK(p)'
  <2>1. Found(opener'[p]) = n /\ file' = file /\ o.done = 0
    BY <1>1, <1>3, <1>6 DEF Found, OpenerOK
  <2> HIDE DEF n
  <2> QED
    BY <1>3, <1>6, <2>1 DEF OpenerOK, n
<1>8. BackedUp(p)'
  <2> SUFFICES ASSUME NeedsBackup(o)
               PROVE  \E b \in backups' :
                        /\ b.name.from = n /\ b.name.to = Len(o.build)
                        /\ \/ b.content.rows = o.applied
                           \/ o.done = 0 /\ Len(file'.schema) > n
    BY <1>6 DEF BackedUp, NeedsBackup, Found
  <2>1. copy \in backups' /\ copy.name.from = n /\ copy.name.to = Len(o.build)
    BY <1>1 DEF BackupName, Found
  <2>2. /\ n \in Nat /\ n <= Len(file.schema) /\ o.done = 0
        /\ o.applied = FirstRows(o.build, n)
        /\ \A v \in 1 .. n : file.schema[v] = o.build[v]
    BY <1>1, <1>3 DEF OpenerOK
  <2>3. CASE n = Len(file.schema)
    <3>1. file.rows = FirstRows(file.schema, n)
      BY <2>3, <1>2 DEF FileOK
    <3>2. file.rows = o.applied
      BY <3>1, <2>2 DEF FirstRows
    <3> QED
      BY <3>2, <2>1
  <2>4. CASE n < Len(file.schema)
    <3>1. o.done = 0 /\ Len(file'.schema) > n
      BY <2>2, <2>4, <1>1, <1>3
    <3> QED
      BY <3>1, <2>1
  <2> QED
    BY <2>2, <2>3, <2>4, <1>3
<1>9. backups \subseteq backups'
  BY <1>1
<1>10. \A q \in Openers : q # p /\ opener[q].step # "closed" => OpenerOK(q)' /\ BackedUp(q)'
  BY <1>1, <1>3, <1>5, <1>9, OpenerKept
<1>11. \A q \in Openers : opener'[q].step = "closed" => opener'[q] = Closed
  BY <1>5, <1>6 DEF MigrationsInv
<1> QED
  BY <1>2, <1>4, <1>7, <1>8, <1>5, <1>10, <1>11 DEF MigrationsInv

(* The row is inserted, or the insert fails: where it does not, the        *)
(* program's next migration is the file's.                                 *)
LEMMA ApplyKeeps ==
  ASSUME MigrationsInv, NEW p \in Openers, ApplyMigration(p)
  PROVE  MigrationsInv'
<1> DEFINE o == opener[p]
           n == Found(o)
           s == file.schema
           v == n + o.done + 1
           m == [version |-> v, name |-> o.build[v]]
<1>1. /\ o.step = "migrating" /\ v <= Len(o.build) /\ UNCHANGED backups
      /\ opener' = [opener EXCEPT ![p].done = @ + 1]
  BY DEF ApplyMigration, NextPending, Found
<1>2. PICK rows \in RecordMigration(file.rows, m) :
        file' = [file EXCEPT !.schema = Append(@, m.name), !.rows = rows]
  BY DEF ApplyMigration, NextPending, Found
<1>3. /\ FileOK(file) /\ s \in Seq(MigrationNames) /\ Len(s) \in Nat
      /\ {x.version : x \in file.rows} = 1 .. Len(s)
      /\ file = [schema |-> s, rows |-> file.rows]
  BY FileFacts DEF MigrationsInv, FileOK
<1>4. /\ o.done \in Nat /\ OpenerOK(p) /\ BackedUp(p)
      /\ o = [step |-> o.step, build |-> o.build, applied |-> o.applied, done |-> o.done]
  BY <1>1 DEF MigrationsInv, OpenersType
<1>5. /\ o.build \in Builds /\ n \in Nat /\ n + o.done <= Len(s)
      /\ \A i \in 1 .. n + o.done : s[i] = o.build[i]
  BY <1>4 DEF OpenerOK
<1>6. o.build \in Seq(MigrationNames) /\ Len(o.build) \in Nat
  BY <1>5, BuildAssumption
<1>7. ~(\E x \in file.rows : x.version = v) /\ rows = file.rows \cup {m}
  BY <1>2 DEF RecordMigration
<1>8. v = Len(s) + 1
  <2>1. v \notin 1 .. Len(s)
    <3> HIDE DEF v
    <3> QED
      BY <1>3, <1>7
  <2> QED
    BY <2>1, <1>3, <1>4, <1>5
<1>9. v \in 1 .. Len(o.build) /\ m.name \in MigrationNames /\ m \in [version : Nat, name : MigrationNames]
  BY <1>1, <1>4, <1>5, <1>6
<1> DEFINE t == Append(s, m.name)
<1>10. file' = [schema |-> t, rows |-> file.rows \cup {m}]
  BY <1>2, <1>3, <1>7
<1>11. /\ t \in Seq(MigrationNames) /\ Len(t) = v /\ t[v] = o.build[v]
       /\ \A i \in 1 .. Len(s) : t[i] = s[i]
  BY <1>3, <1>8, <1>9
<1>12. FirstRows(t, v) = FirstRows(s, Len(s)) \cup {m}
  <2>1. \A i \in 1 .. v : i \in 1 .. Len(s) \/ i = v
    BY <1>3, <1>8
  <2>2. 1 .. Len(s) \subseteq 1 .. v /\ v \in 1 .. v
    BY <1>3, <1>8
  <2> HIDE DEF t, v
  <2> QED
    BY <2>1, <2>2, <1>11 DEF FirstRows
<1>13. FileOK(file')
  <2>1. file' \in [schema : Seq(MigrationNames), rows : SUBSET [version : Nat, name : MigrationNames]]
    BY <1>3, <1>9, <1>10, <1>11 DEF FileOK
  <2>2. file'.rows = FirstRows(file'.schema, Len(file'.schema))
    BY <1>3, <1>10, <1>11, <1>12 DEF FileOK
  <2>3. IsFiniteSet(file.rows) /\ m \notin file.rows /\ Cardinality(file.rows) = Len(s)
    BY <1>3, <1>7 DEF FileOK
  <2>4. IsFiniteSet(file'.rows) /\ Cardinality(file'.rows) = Len(file'.schema)
    <3>1. IsFiniteSet(file.rows \cup {m}) /\ Cardinality(file.rows \cup {m}) = Len(s) + 1
      BY <2>3, FS_AddElement
    <3> QED
      BY <3>1, <1>8, <1>10, <1>11
  <2>5. IsPrefix(t, o.build)
    <3>1. \A i \in 1 .. Len(t) : t[i] = o.build[i]
      BY <1>3, <1>4, <1>5, <1>8, <1>11
    <3> QED
      BY <3>1, <1>1, <1>6, <1>11, PrefixByElement
  <2> QED
    BY <2>1, <2>2, <2>4, <2>5, <1>5, <1>10 DEF FileOK
<1>14. OpenersType'
  <2>1. o.done + 1 \in Nat
    BY <1>4
  <2> QED
    BY <1>1, <2>1 DEF MigrationsInv, OpenersType
<1>15. /\ opener'[p] = [o EXCEPT !.done = @ + 1]
       /\ \A q \in Openers : q # p => opener'[q] = opener[q]
  BY <1>1 DEF MigrationsInv, OpenersType
<1>16. /\ opener'[p].step = "migrating" /\ opener'[p].build = o.build
       /\ opener'[p].applied = o.applied /\ opener'[p].done = o.done + 1
  BY <1>1, <1>4, <1>15
<1>17. Found(opener'[p]) = n /\ file'.schema = t
  BY <1>10, <1>16 DEF Found
<1>18. OpenerOK(p)'
  <2>1. /\ n + (o.done + 1) <= Len(o.build) /\ n + (o.done + 1) <= Len(t)
        /\ \A i \in 1 .. n + (o.done + 1) : t[i] = o.build[i]
    BY <1>1, <1>3, <1>4, <1>5, <1>8, <1>11
  <2>2. o.applied = FirstRows(o.build, n)
    BY <1>4 DEF OpenerOK
  <2> HIDE DEF t, n
  <2> QED
    BY <2>1, <2>2, <1>5, <1>16, <1>17 DEF OpenerOK
<1>19. BackedUp(p)'
  <2> SUFFICES ASSUME NeedsBackup(o)
               PROVE  \E b \in backups' :
                        /\ b.name.from = n /\ b.name.to = Len(o.build)
                        /\ b.content.rows = o.applied
    BY <1>16 DEF BackedUp, NeedsBackup, Found
  <2>1. PICK b \in backups : /\ b.name.from = n /\ b.name.to = Len(o.build)
                             /\ \/ b.content.rows = o.applied
                                \/ o.done = 0 /\ Len(s) > n
    BY <1>1, <1>4 DEF BackedUp
  <2>2. ~(o.done = 0 /\ Len(s) > n)
    BY <1>3, <1>5, <1>8
  <2> QED
    BY <2>1, <2>2, <1>1
<1>20. /\ Len(file'.schema) \in Nat /\ Len(s) <= Len(file'.schema)
       /\ \A i \in 1 .. Len(s) : file'.schema[i] = s[i]
  BY <1>3, <1>8, <1>11, <1>17
<1>21. \A q \in Openers : q # p /\ opener[q].step # "closed" => OpenerOK(q)' /\ BackedUp(q)'
  BY <1>1, <1>15, <1>20, OpenerKept
<1>22. \A q \in Openers : opener'[q].step = "closed" => opener'[q] = Closed
  BY <1>15, <1>16 DEF MigrationsInv
<1>23. \A b \in backups' : FileOK(b.content)
  BY <1>1 DEF MigrationsInv
<1> QED
  BY <1>13, <1>14, <1>18, <1>19, <1>15, <1>21, <1>22, <1>23 DEF MigrationsInv

LEMMA ReportKeeps ==
  ASSUME MigrationsInv, NEW p \in Openers, Report(p)
  PROVE  MigrationsInv'
<1> DEFINE o == opener[p]
           n == Found(o)
<1>1. /\ o.step = "migrating" /\ n + o.done + 1 > Len(o.build)
      /\ UNCHANGED <<file, backups>> /\ opener' = [opener EXCEPT ![p].step = "open"]
  BY DEF Report, NextPending, Found
<1>2. /\ FileOK(file) /\ Len(file.schema) \in Nat
      /\ o.done \in Nat /\ OpenerOK(p) /\ BackedUp(p)
      /\ o = [step |-> o.step, build |-> o.build, applied |-> o.applied, done |-> o.done]
  BY <1>1, FileFacts DEF MigrationsInv, OpenersType
<1>3. OpenersType'
  BY <1>1 DEF MigrationsInv, OpenersType
<1>4. /\ opener'[p] = [o EXCEPT !.step = "open"]
      /\ \A q \in Openers : q # p => opener'[q] = opener[q]
  BY <1>1 DEF MigrationsInv, OpenersType
<1>5. /\ opener'[p].step = "open" /\ opener'[p].build = o.build
      /\ opener'[p].applied = o.applied /\ opener'[p].done = o.done
  BY <1>2, <1>4
<1>6. Found(opener'[p]) = n /\ NeedsBackup(opener'[p]) = NeedsBackup(o)
  BY <1>5 DEF Found, NeedsBackup
<1>7. n + o.done = Len(o.build)
  <2>1. n \in Nat /\ Len(o.build) \in Nat /\ n + o.done <= Len(o.build)
    BY <1>2, BuildAssumption DEF OpenerOK
  <2> HIDE DEF n
  <2> QED
    BY <1>1, <1>2, <2>1
<1>8. OpenerOK(p)'
  <2> HIDE DEF n
  <2> QED
    BY <1>1, <1>2, <1>5, <1>6, <1>7 DEF OpenerOK, n
<1>9. BackedUp(p)'
  BY <1>1, <1>2, <1>5, <1>6 DEF BackedUp
<1>10. \A q \in Openers : q # p /\ opener[q].step # "closed" => OpenerOK(q)' /\ BackedUp(q)'
  BY <1>1, <1>2, <1>4, OpenerKept
<1>11. \A q \in Openers : opener'[q].step = "closed" => opener'[q] = Closed
  BY <1>4, <1>5 DEF MigrationsInv
<1>12. FileOK(file') /\ \A b \in backups' : FileOK(b.content)
  BY <1>1, <1>2 DEF MigrationsInv
<1> QED
  BY <1>12, <1>3, <1>4, <1>8, <1>9, <1>10, <1>11 DEF MigrationsInv

LEMMA CloseKeeps ==
  ASSUME MigrationsInv, NEW p \in Openers, Close(p)
  PROVE  MigrationsInv'
<1>1. UNCHANGED <<file, backups>> /\ opener' = [opener EXCEPT ![p] = Closed]
  BY DEF Close
<1>2. /\ opener'[p] = Closed /\ \A q \in Openers : q # p => opener'[q] = opener[q]
  BY <1>1, OthersOpen
<1>3. OpenersType'
  <2>1. Closed \in [step : {"closed", "loaded", "migrating", "open"}, build : Builds \cup {<<>>},
                    applied : SUBSET [version : Nat, name : MigrationNames], done : Nat]
    BY DEF Closed
  <2> QED
    BY <1>1, <2>1 DEF MigrationsInv, OpenersType
<1>4. FileOK(file) /\ FileOK(file') /\ Len(file.schema) \in Nat /\ \A b \in backups' : FileOK(b.content)
  BY <1>1, FileFacts DEF MigrationsInv
<1>5. \A q \in Openers : q # p /\ opener[q].step # "closed" => OpenerOK(q)' /\ BackedUp(q)'
  BY <1>1, <1>2, <1>4, OpenerKept
<1>6. Closed.step = "closed"
  BY DEF Closed
<1>7. \A q \in Openers : opener'[q].step = "closed" => opener'[q] = Closed
  BY <1>2 DEF MigrationsInv
<1>8. \A q \in Openers : opener'[q].step # "closed" => OpenerOK(q)' /\ BackedUp(q)'
  BY <1>2, <1>5, <1>6
<1> QED
  BY <1>3, <1>4, <1>7, <1>8 DEF MigrationsInv

(* The file is another one only while no program has it open.              *)
LEMMA RestoreKeeps ==
  ASSUME MigrationsInv, RemoveForRestore \/ \E b \in backups : CopyBackup(b)
  PROVE  MigrationsInv'
<1>1. /\ \A p \in Openers : opener[p].step = "closed"
      /\ UNCHANGED <<opener, backups>>
  BY DEF RemoveForRestore, CopyBackup
<1>2. FileOK(file')
  BY NoFile DEF RemoveForRestore, CopyBackup, MigrationsInv
<1> QED
  BY <1>1, <1>2 DEF MigrationsInv, OpenersType

LEMMA MigrationsInitial == MigrationsInit => MigrationsInv
<1> SUFFICES ASSUME MigrationsInit PROVE MigrationsInv
  OBVIOUS
<1>1. Closed.step = "closed"
  BY DEF Closed
<1>2. OpenersType
  BY DEF MigrationsInit, OpenersType, Closed
<1>3. \A p \in Openers : opener[p] = Closed
  BY DEF MigrationsInit
<1> QED
  BY <1>1, <1>2, <1>3, NoFile DEF MigrationsInit, MigrationsInv

LEMMA MigrationsStep == MigrationsInv /\ [MigrationsNext]_migrationVars => MigrationsInv'
<1> SUFFICES ASSUME MigrationsInv, [MigrationsNext]_migrationVars
             PROVE  MigrationsInv'
  OBVIOUS
<1>1. ASSUME NEW p \in Openers,
             \/ \E build \in Builds : LoadApplied(p, build)
             \/ BackUp(p) \/ ApplyMigration(p) \/ Report(p) \/ Close(p)
      PROVE  MigrationsInv'
  BY <1>1, LoadKeeps, BackUpKeeps, ApplyKeeps, ReportKeeps, CloseKeeps
<1>2. ASSUME UNCHANGED <<file, opener, backups>>
      PROVE  MigrationsInv'
  BY <1>2 DEF MigrationsInv, OpenersType, OpenerOK, BackedUp
<1>3. CASE Tick \/ UNCHANGED migrationVars
  BY <1>2, <1>3 DEF Tick, migrationVars
<1> QED
  BY <1>1, <1>3, RestoreKeeps DEF MigrationsNext

(* MigrationsInv is what the properties follow from.                       *)
LEMMA SafeUpgrades == MigrationsInv => UpgradesAreSafe
<1> SUFFICES ASSUME MigrationsInv PROVE UpgradesAreSafe
  OBVIOUS
<1>1. FileOK(file) /\ file.schema \in Seq(MigrationNames) /\ Len(file.schema) \in Nat
  BY FileFacts DEF MigrationsInv, FileOK
<1>2. file.rows = {[version |-> v, name |-> file.schema[v]] : v \in DOMAIN file.schema}
  BY <1>1 DEF FileOK, FirstRows
<1>3. ASSUME NEW p \in Openers, opener[p].step = "open"
      PROVE  IsPrefix(opener[p].build, file.schema)
  <2> DEFINE o == opener[p]
  <2>1. OpenerOK(p)
    BY <1>3 DEF MigrationsInv
  <2>2. o.build \in Seq(MigrationNames)
    BY <2>1, BuildAssumption DEF OpenerOK
  <2>3. Len(o.build) <= Len(file.schema) /\ \A v \in 1 .. Len(o.build) : file.schema[v] = o.build[v]
    BY <1>3, <2>1 DEF OpenerOK
  <2> QED
    BY <1>1, <2>2, <2>3, PrefixByElement
<1>4. SchemaIsHistory
  BY <1>1, <1>2, <1>3 DEF SchemaIsHistory, FileOK
<1>5. UpgradesAreBackedUp
  <2> SUFFICES ASSUME NEW p \in Openers, opener[p].done > 0, opener[p].applied # {}
               PROVE  \E b \in backups : /\ b.name.from = CurrentVersion(opener[p].applied)
                                         /\ b.name.to = Len(opener[p].build)
                                         /\ b.content.rows = opener[p].applied
    BY DEF UpgradesAreBackedUp
  <2> DEFINE o == opener[p]
  <2>1. o.step # "closed" /\ o.done \in Nat
    BY DEF MigrationsInv, OpenersType, Closed
  <2>2. OpenerOK(p) /\ BackedUp(p)
    BY <2>1 DEF MigrationsInv
  <2>3. o.step \in {"migrating", "open"}
    BY <2>1, <2>2 DEF OpenerOK, MigrationsInv, OpenersType
  <2>4. NeedsBackup(o)
    <3>1. Len(o.build) \in Nat /\ Found(o) \in Nat /\ Found(o) + o.done <= Len(o.build)
      BY <2>2, BuildAssumption DEF OpenerOK
    <3>2. Found(o) < Len(o.build)
      BY <2>1, <3>1
    <3> QED
      BY <3>2 DEF NeedsBackup, Found
  <2> QED
    BY <2>2, <2>3, <2>4 DEF BackedUp, Found
<1> QED
  BY <1>4, <1>5 DEF UpgradesAreSafe

(* Any number of programs, with any builds, open the database at once and  *)
(* end anywhere: its schema stays the history of one build, listed in      *)
(* schema_migrations, and who has migrated a used database has the backup  *)
(* of what it found (initialize_database, create_backup).                  *)
THEOREM UpgradesKeepHistory == MigrationsSpec => []UpgradesAreSafe
<1>1. MigrationsSpec => []MigrationsInv
  BY MigrationsInitial, MigrationsStep, PTL DEF MigrationsSpec
<1> QED
  BY <1>1, SafeUpgrades, PTL

(* The rows of a history that is the beginning of a build are of types.    *)
LEMMA RowsAreApplied ==
  ASSUME NEW b \in Builds, NEW n \in Nat, n <= Len(b), NEW s, \A v \in 1 .. n : s[v] = b[v]
  PROVE  FirstRows(s, n) \in SUBSET AppliedMigration
<1>1. DOMAIN b = 1 .. Len(b) /\ Len(b) \in Nat
  BY BuildAssumption
<1> SUFFICES ASSUME NEW v \in 1 .. n
             PROVE  [version |-> v, name |-> s[v]] \in AppliedMigration
  BY DEF FirstRows
<1>2. v \in DOMAIN b /\ s[v] = b[v]
  BY <1>1
<1> QED
  BY <1>2 DEF AppliedMigration

LEMMA FileIsTyped ==
  ASSUME NEW f, FileOK(f)
  PROVE  f \in File
<1>1. f = [schema |-> f.schema, rows |-> f.rows] /\ f.schema \in Seq(MigrationNames)
  BY DEF FileOK
<1>2. f.rows = FirstRows(f.schema, Len(f.schema)) /\ Len(f.schema) \in Nat
  BY <1>1 DEF FileOK
<1>3. CASE f.schema = <<>>
  <2>1. f.rows = {}
    BY <1>2, <1>3 DEF FirstRows
  <2> QED
    BY <1>1, <2>1 DEF File
<1>4. ASSUME NEW b \in Builds, IsPrefix(f.schema, b)
      PROVE  f \in File
  <2>1. Len(f.schema) <= Len(b) /\ \A v \in 1 .. Len(f.schema) : f.schema[v] = b[v]
    BY <1>1, <1>4, BuildAssumption, PrefixByElement
  <2>2. f.rows \in SUBSET AppliedMigration
    BY <1>2, <1>4, <2>1, RowsAreApplied
  <2> QED
    BY <1>1, <2>2 DEF File
<1> QED
  BY <1>3, <1>4 DEF FileOK

LEMMA MigrationsTypes ==
  ASSUME MigrationsInv, second \in 0 .. LastSecond
  PROVE  MigrationsTypeOK
<1>1. file \in File /\ \A b \in backups : b.content \in File
  BY FileIsTyped DEF MigrationsInv
<1>2. ASSUME NEW p \in Openers
      PROVE  opener[p].applied \in SUBSET AppliedMigration
  <2>1. CASE opener[p].step = "closed"
    BY <2>1 DEF MigrationsInv, Closed
  <2>2. CASE opener[p].step # "closed"
    <3>1. /\ opener[p].build \in Builds /\ Found(opener[p]) \in Nat
          /\ opener[p].applied = FirstRows(opener[p].build, Found(opener[p]))
          /\ Found(opener[p]) + opener[p].done <= Len(opener[p].build) /\ opener[p].done \in Nat
      BY <2>2 DEF MigrationsInv, OpenerOK, OpenersType
    <3>2. Len(opener[p].build) \in Nat
      BY <3>1, BuildAssumption
    <3>3. Found(opener[p]) <= Len(opener[p].build)
      BY <3>1, <3>2
    <3> QED
      BY <3>1, <3>3, RowsAreApplied
  <2> QED
    BY <2>1, <2>2
<1>3. opener \in [Openers -> [step : {"closed", "loaded", "migrating", "open"},
                             build : Builds \cup {<<>>}, applied : SUBSET AppliedMigration,
                             done : Nat]]
  BY <1>2 DEF MigrationsInv, OpenersType
<1> QED
  BY <1>1, <1>3 DEF MigrationsTypeOK

(* Files, backups and what a program has found are of their types: every   *)
(* row names a migration of a build by its version.                        *)
THEOREM UpgradesKeepTypes == MigrationsSpec => []MigrationsTypeOK
<1>1. MigrationsInit => MigrationsInv /\ second \in 0 .. LastSecond
  BY MigrationsInitial, ClockAssumption DEF MigrationsInit
<1>2. MigrationsInv /\ second \in 0 .. LastSecond /\ [MigrationsNext]_migrationVars
        => MigrationsInv' /\ (second \in 0 .. LastSecond)'
  <2>1. ASSUME [MigrationsNext]_migrationVars
        PROVE  UNCHANGED second \/ Tick
    <3>1. \A p, build : LoadApplied(p, build) => UNCHANGED second
      BY DEF LoadApplied
    <3>2. \A p \in Openers : BackUp(p) => UNCHANGED second
      BY DEF BackUp
    <3>3. \A p \in Openers : ApplyMigration(p) => UNCHANGED second
      BY DEF ApplyMigration
    <3>4. \A p \in Openers : Report(p) \/ Close(p) => UNCHANGED second
      BY DEF Report, Close
    <3>5. \A b : CopyBackup(b) \/ RemoveForRestore => UNCHANGED second
      BY DEF CopyBackup, RemoveForRestore
    <3>6. UNCHANGED migrationVars => UNCHANGED second
      BY DEF migrationVars
    <3> QED
      BY <2>1, <3>1, <3>2, <3>3, <3>4, <3>5, <3>6 DEF MigrationsNext
  <2>2. Tick => second < LastSecond /\ second' = second + 1
    BY DEF Tick
  <2>3. second \in 0 .. LastSecond /\ [MigrationsNext]_migrationVars => (second \in 0 .. LastSecond)'
    BY <2>1, <2>2, ClockAssumption
  <2> QED
    BY <2>3, MigrationsStep
<1>3. MigrationsInv /\ second \in 0 .. LastSecond => MigrationsTypeOK
  BY MigrationsTypes
<1> QED
  BY <1>1, <1>2, <1>3, PTL DEF MigrationsSpec

-------------------------------------------------------------------------------
(* ArticleAi.                                                              *)

WholeTask(t) ==
  t = [kind |-> t.kind, mode |-> t.mode, article_id |-> t.article_id, input |-> t.input]

(* An artifact is the answer to the task it is filed under.                *)
Filed(x) == WholeTask(x.input_hash) /\ x = Respond(x.input_hash)

(* A running command has answered the first of its tasks, and the others   *)
(* wait in their order.                                                    *)
Answering(r) ==
  LET tasks == Tasks(r.ask, r.input)
  IN  /\ r.made \in Seq({Respond(t) : t \in Range(tasks)})
      /\ r.queue \in Seq(Range(tasks))
      /\ Len(r.made) + Len(r.queue) = Len(tasks)
      /\ \A i \in 1 .. Len(r.made) : r.made[i] = Respond(tasks[i])
      /\ \A i \in 1 .. Len(r.queue) : r.queue[i] = tasks[Len(r.made) + i]

CommandFields == {"step", "ask", "input", "left", "cache", "queue", "made"}

CommandOK(c, r) ==
  /\ DOMAIN r = CommandFields
  /\ r.step \in {"loading", "read", "running"} => r.ask \in Asks[c]
  /\ \A x \in r.cache : Filed(x)
  /\ r.step \in {"loading", "read"} => r.made = <<>>
  /\ r.step = "running" => Answering(r)

StoredOK ==
  /\ version \in [FeedArticles -> Nat \cup {Gone}]
  /\ \A x \in artifact : Filed(x) /\ x.article_id \in FeedArticles /\ version[x.article_id] # Gone
  /\ \A x, y \in artifact : x.id = y.id => x = y

AiInv ==
  /\ StoredOK
  /\ run = [c \in Commands |-> run[c]]
  /\ \A c \in Commands : CommandOK(c, run[c])

(* The tasks of a command: of one article, no two of one kind.             *)
LEMMA TasksOfAsk ==
  ASSUME NEW c \in Commands, NEW ask \in Asks[c], NEW input
  PROVE  LET tasks == Tasks(ask, input)
         IN  /\ tasks \in Seq(Range(tasks)) /\ Len(tasks) \in Nat
             /\ \A i \in 1 .. Len(tasks) :
                  WholeTask(tasks[i]) /\ tasks[i].article_id = ask.article_id
             /\ \A i, j \in 1 .. Len(tasks) : tasks[i].kind = tasks[j].kind => i = j
<1> DEFINE tasks == Tasks(ask, input)
<1>1. ask.operation \in {"insights"} \cup Translations \cup Scopes
  BY AskAssumption
<1>2. ASSUME NEW kind, NEW text
      PROVE  /\ WholeTask(Task(kind, ask, text))
             /\ Task(kind, ask, text).article_id = ask.article_id
             /\ Task(kind, ask, text).kind = kind
  BY DEF Task, WholeTask
<1>3. ASSUME NEW t, tasks = <<t>>, WholeTask(t), t.article_id = ask.article_id
      PROVE  /\ tasks \in Seq(Range(tasks)) /\ Len(tasks) \in Nat
             /\ \A i \in 1 .. Len(tasks) :
                  WholeTask(tasks[i]) /\ tasks[i].article_id = ask.article_id
             /\ \A i, j \in 1 .. Len(tasks) : tasks[i].kind = tasks[j].kind => i = j
  <2> HIDE DEF tasks
  <2>1. Len(tasks) = 1 /\ DOMAIN tasks = 1 .. 1 /\ tasks[1] = t
    BY <1>3
  <2>2. Range(tasks) = {t}
    BY <2>1 DEF Range
  <2> QED
    BY <1>3, <2>1, <2>2
<1>4. CASE ask.operation = "insights"
  <2> DEFINE t == SummaryTask(ask, input)
             u == KeywordTask(ask, input)
  <2>1. tasks = <<t, u>>
    BY <1>4 DEF Tasks, GenerateSummaryAndKeywords, Translations, Scopes
  <2>2. WholeTask(t) /\ t.article_id = ask.article_id /\ t.kind = "summary"
    BY <1>2 DEF SummaryTask
  <2>3. WholeTask(u) /\ u.article_id = ask.article_id /\ u.kind = "keywords"
    BY <1>2, Zenon DEF KeywordTask
  <2> HIDE DEF t, u, tasks
  <2>4. Len(tasks) = 2 /\ DOMAIN tasks = 1 .. 2 /\ tasks[1] = t /\ tasks[2] = u
    BY <2>1
  <2>5. Range(tasks) = {t, u}
    BY <2>4 DEF Range
  <2>6. tasks \in Seq({t, u})
    BY <2>1
  <2>7. \A i \in 1 .. Len(tasks) : i = 1 \/ i = 2
    BY <2>4
  <2>8. \A i \in 1 .. Len(tasks) : WholeTask(tasks[i]) /\ tasks[i].article_id = ask.article_id
    BY <2>2, <2>3, <2>4, <2>7
  <2>9. \A i, j \in 1 .. Len(tasks) : tasks[i].kind = tasks[j].kind => i = j
    BY <2>2, <2>3, <2>4, <2>7
  <2>10. tasks \in Seq(Range(tasks)) /\ Len(tasks) \in Nat
    BY <2>4, <2>5, <2>6
  <2> QED
    BY <2>8, <2>9, <2>10 DEF tasks
<1>5. CASE ask.operation \in Translations
  <2> DEFINE t == TranslationTask(ask, input)
  <2>1. tasks = <<t>>
    <3>1. ask.operation # "insights" /\ ask.operation \notin Scopes
      BY <1>5 DEF Translations, Scopes
    <3> QED
      BY <1>5, <3>1 DEF Tasks, TranslateArticleText
  <2>2. WholeTask(t) /\ t.article_id = ask.article_id
    BY <1>2 DEF TranslationTask
  <2> QED
    BY <2>1, <2>2, <1>3
<1>6. CASE ask.operation \in Scopes
  <2> DEFINE t == QuestionTask(ask, input)
  <2>1. tasks = <<t>>
    <3>1. ask.operation # "insights" /\ ask.operation \notin Translations
      BY <1>6 DEF Translations, Scopes
    <3> QED
      BY <1>6, <3>1 DEF Tasks, AnswerLimitedQuestion
  <2>2. WholeTask(t) /\ t.article_id = ask.article_id
    BY <1>2 DEF QuestionTask
  <2> QED
    BY <2>1, <2>2, <1>3
<1> QED
  BY <1>1, <1>4, <1>5, <1>6

(* What an answer says of the task it was made for.                        *)
LEMMA AnswerOfTask ==
  ASSUME NEW t, WholeTask(t), NEW x, x = Respond(t)
  PROVE  /\ Filed(x) /\ x.input_hash = t /\ x.article_id = t.article_id /\ x.kind = t.kind
         /\ x.answers = t.input /\ x.id.kind = t.kind /\ x.id.mode = t.mode
<1>1. x.input_hash = t /\ x.id = ArtifactId(t)
  BY DEF Respond, StableInputHash
<1>2. x.id.kind = t.kind /\ x.id.mode = t.mode
  <2>1. \E f : ArtifactId(t) = [kind |-> t.kind, mode |-> t.mode,
                                article_id |-> t.article_id, fingerprint |-> f]
    BY Zenon DEF ArtifactId
  <2> QED
    BY <1>1, <2>1
<1> QED
  BY <1>1, <1>2 DEF Respond, Filed

LEMMA AnsweringLengths ==
  ASSUME NEW r, Answering(r)
  PROVE  /\ Len(r.made) \in Nat /\ DOMAIN r.made = 1 .. Len(r.made)
         /\ Len(r.queue) \in Nat
<1>1. ASSUME NEW S, NEW s \in Seq(S)
      PROVE  Len(s) \in Nat /\ DOMAIN s = 1 .. Len(s)
  OBVIOUS
<1> QED
  BY <1>1 DEF Answering

(* A step of one command that stores nothing.                              *)
LEMMA CommandStep ==
  ASSUME AiInv, NEW c \in Commands, NEW r, CommandOK(c, r),
         run' = [run EXCEPT ![c] = r], UNCHANGED <<version, artifact>>
  PROVE  AiInv'
<1>1. run' = [q \in Commands |-> run'[q]] /\ run'[c] = r
  BY DEF AiInv
<1>2. \A q \in Commands : q # c => run'[q] = run[q]
  BY DEF AiInv
<1>3. \A q \in Commands : CommandOK(q, run'[q])
  BY <1>1, <1>2 DEF AiInv
<1>4. StoredOK'
  BY DEF AiInv, StoredOK
<1> QED
  BY <1>1, <1>3, <1>4 DEF AiInv

LEMMA BeginKeeps ==
  ASSUME AiInv, NEW c \in Commands, NEW ask \in Askable(c),
         NEW step \in {"read", "loading"}, NEW input, NEW left, Begin(c, ask, step, input, left)
  PROVE  AiInv'
<1> DEFINE r == [Idle EXCEPT !.step = step, !.ask = ask, !.input = input, !.left = left]
<1>1. /\ DOMAIN r = CommandFields /\ r.step = step /\ r.ask = ask /\ r.cache = {} /\ r.made = <<>>
  BY DEF Idle, CommandFields
<1>2. run' = [run EXCEPT ![c] = r] /\ UNCHANGED <<version, artifact>>
  BY DEF Begin
<1> HIDE DEF r
<1>3. r.step # "running" /\ r.ask \in Asks[c]
  BY <1>1 DEF Askable
<1>4. CommandOK(c, r)
  BY <1>1, <1>3 DEF CommandOK
<1> QED
  BY <1>2, <1>4, CommandStep

(* Idle, failed and finished commands hold nothing.                        *)
LEMMA HoldsNothing ==
  ASSUME NEW c \in Commands
  PROVE  CommandOK(c, Idle) /\ CommandOK(c, Over)
<1>1. /\ DOMAIN Idle = CommandFields /\ Idle.step = "idle" /\ Idle.cache = {}
      /\ DOMAIN Over = CommandFields /\ Over.step = "over" /\ Over.cache = {}
  BY DEF Idle, Over, CommandFields
<1> QED
  BY <1>1 DEF CommandOK

(* A command that goes on reading keeps what else it holds.                *)
LEMMA LoadingKeeps ==
  ASSUME AiInv, NEW c \in Commands, LoadFeedContexts(c) \/ LoadSearchResultContext(c)
  PROVE  AiInv'
<1> DEFINE o == run[c]
<1>1. CommandOK(c, o) /\ run = [q \in Commands |-> run[q]]
  BY DEF AiInv
<1>2. o.step = "loading" /\ UNCHANGED <<version, artifact>>
  BY DEF LoadFeedContexts, LoadSearchResultContext
<1> DEFINE next == run'[c]
<1>3. run' = [run EXCEPT ![c] = next]
  <2>1. CASE LoadFeedContexts(c)
    BY <1>1, <2>1 DEF LoadFeedContexts
  <2>2. CASE LoadSearchResultContext(c)
    BY <1>1, <2>2 DEF LoadSearchResultContext
  <2> QED
    BY <2>1, <2>2
<1>4. /\ DOMAIN next = CommandFields /\ next.step \in {"loading", "read"}
      /\ next.ask = o.ask /\ next.cache = o.cache /\ next.made = o.made
  <2>1. CASE LoadFeedContexts(c)
    <3>1. PICK taken : next = [o EXCEPT !.step = "read", !.input = taken]
      BY <1>1, <2>1 DEF LoadFeedContexts
    <3> QED
      BY <1>1, <3>1 DEF CommandOK, CommandFields
  <2>2. CASE LoadSearchResultContext(c)
    <3>1. \/ next = [o EXCEPT !.step = "read"]
          \/ next = [o EXCEPT !.left = Tail(@)]
          \/ next = [o EXCEPT !.left = Tail(@), !.input = Append(@, ArticleToContext(Head(o.left)))]
      BY <1>1, <2>2 DEF LoadSearchResultContext
    <3> QED
      BY <1>1, <1>2, <3>1 DEF CommandOK, CommandFields
  <2> QED
    BY <2>1, <2>2
<1> HIDE DEF next
<1>5. CommandOK(c, next)
  BY <1>1, <1>2, <1>4 DEF CommandOK
<1> QED
  BY <1>2, <1>3, <1>5, CommandStep

(* The tasks are enqueued, and none is answered.                           *)
LEMMA SeedKeeps ==
  ASSUME AiInv, NEW c \in Commands, SeedCache(c)
  PROVE  AiInv'
<1> DEFINE o == run[c]
           tasks == Tasks(o.ask, o.input)
           kinds == {tasks[i].kind : i \in DOMAIN tasks}
           stored == ListArtifacts(o.ask.article_id, kinds)
           next == [o EXCEPT !.step = "running", !.queue = tasks, !.cache = stored]
<1>1. CommandOK(c, o) /\ run = [q \in Commands |-> run[q]]
  BY DEF AiInv
<1>2. o.step = "read" /\ UNCHANGED <<version, artifact>> /\ o.ask \in Asks[c]
  BY <1>1 DEF SeedCache, CommandOK
<1>3. run' = [run EXCEPT ![c] = next]
  <2>1. run' = [run EXCEPT ![c].step = "running", ![c].queue = tasks, ![c].cache = stored]
    BY DEF SeedCache
  <2> HIDE DEF tasks, stored
  <2> QED
    BY <1>1, <2>1
<1>4. \A x \in stored : Filed(x)
  BY DEF ListArtifacts, ArtifactsOf, AiInv, StoredOK
<1>5. /\ DOMAIN next = CommandFields /\ next.step = "running" /\ next.ask = o.ask
      /\ next.input = o.input /\ next.cache = stored /\ next.queue = tasks /\ next.made = <<>>
  <2> HIDE DEF tasks, stored
  <2> QED
    BY <1>1, <1>2 DEF CommandOK, CommandFields
<1>6. Answering(next)
  <2>1. tasks \in Seq(Range(tasks)) /\ Len(tasks) \in Nat
    BY <1>2, TasksOfAsk
  <2>2. Tasks(next.ask, next.input) = tasks
    BY <1>5
  <2> HIDE DEF tasks, next
  <2>3. /\ next.made \in Seq({Respond(t) : t \in Range(tasks)}) /\ Len(next.made) = 0
    BY <1>5
  <2> QED
    BY <1>5, <2>1, <2>2, <2>3 DEF Answering
<1> HIDE DEF next, tasks, stored
<1>7. CommandOK(c, next)
  BY <1>2, <1>4, <1>5, <1>6 DEF CommandOK
<1> QED
  BY <1>2, <1>3, <1>7, CommandStep

(* The next answer is of the next task, also when it comes from the cache: *)
(* what the cache has for the task's input answers that input.             *)
LEMMA AnswerKeeps ==
  ASSUME AiInv, NEW c \in Commands, RunNext(c)
  PROVE  AiInv'
<1> DEFINE o == run[c]
           task == Head(o.queue)
           tasks == Tasks(o.ask, o.input)
           answered == {Respond(t) : t \in Range(tasks)}
           k == Len(o.made)
           waiting == Len(o.queue)
           all == Len(tasks)
<1>1. CommandOK(c, o) /\ run = [q \in Commands |-> run[q]]
  BY DEF AiInv
<1>2. /\ o.step = "running" /\ o.queue # <<>> /\ UNCHANGED <<version, artifact>>
      /\ o.ask \in Asks[c]
  BY <1>1 DEF RunNext, CommandOK
<1>3. PICK x \in (IF Cached(c, task) # {} THEN Cached(c, task) ELSE {Respond(task)}) :
        run' = [run EXCEPT ![c].queue = Tail(@), ![c].made = Append(@, x), ![c].cache = @ \cup {x}]
  BY DEF RunNext
<1> DEFINE next == [o EXCEPT !.queue = Tail(@), !.made = Append(@, x), !.cache = @ \cup {x}]
<1>4. run' = [run EXCEPT ![c] = next]
  BY <1>1, <1>3
<1>5. /\ DOMAIN next = CommandFields /\ next.step = "running" /\ next.ask = o.ask
      /\ next.input = o.input /\ next.cache = o.cache \cup {x}
      /\ next.queue = Tail(o.queue) /\ next.made = Append(o.made, x)
  BY <1>1, <1>2 DEF CommandOK, CommandFields
<1>6. /\ o.made \in Seq(answered) /\ o.queue \in Seq(Range(tasks)) /\ k + Len(o.queue) = Len(tasks)
      /\ \A i \in 1 .. k : o.made[i] = Respond(tasks[i])
      /\ \A i \in 1 .. Len(o.queue) : o.queue[i] = tasks[k + i]
  BY <1>1, <1>2 DEF CommandOK, Answering
<1>7. /\ tasks \in Seq(Range(tasks)) /\ Len(tasks) \in Nat
      /\ \A i \in 1 .. Len(tasks) : WholeTask(tasks[i])
  BY <1>2, TasksOfAsk
<1> HIDE DEF tasks
<1>8. /\ k \in Nat /\ waiting \in Nat /\ waiting > 0 /\ k + waiting = all /\ all \in Nat
      /\ k + 1 \in 1 .. all /\ task = tasks[k + 1]
  <2>1. k \in Nat /\ waiting \in Nat
    BY <1>1, <1>2, AnsweringLengths DEF CommandOK
  <2>2. waiting > 0 /\ task = o.queue[1]
    BY <1>2, <1>6, <2>1
  <2>3. k + waiting = all /\ all \in Nat /\ \A i \in 1 .. waiting : o.queue[i] = tasks[k + i]
    BY <1>6, <1>7
  <2> HIDE DEF k, waiting, all, task
  <2> QED
    BY <2>1, <2>2, <2>3
<1>9. WholeTask(task) /\ task \in Range(tasks)
  BY <1>7, <1>8 DEF Range
<1> HIDE DEF task
<1>10. x = Respond(task)
  <2>1. ASSUME x \in Cached(c, task) PROVE x = Respond(task)
    <3>1. x \in o.cache /\ x.input_hash = task
      BY <2>1 DEF Cached, StableInputHash
    <3> QED
      BY <3>1, <1>1 DEF CommandOK, Filed
  <2> QED
    BY <2>1, <1>3
<1>11. Filed(x)
  BY <1>9, <1>10, AnswerOfTask
<1>12. Answering(next)
  <2>1. x \in answered
    BY <1>9, <1>10
  <2>2. Tasks(next.ask, next.input) = tasks
    BY <1>5 DEF tasks
  <2> HIDE DEF next, answered
  <2>3. /\ next.made \in Seq(answered) /\ Len(next.made) = k + 1 /\ next.made[k + 1] = x
        /\ \A i \in 1 .. k : next.made[i] = o.made[i]
    BY <1>5, <1>6, <2>1
  <2>4. /\ next.queue \in Seq(Range(tasks)) /\ Len(next.queue) = Len(o.queue) - 1
        /\ \A i \in 1 .. Len(next.queue) : next.queue[i] = o.queue[i + 1]
    BY <1>5, <1>6, <1>8
  <2>5. Len(next.made) + Len(next.queue) = Len(tasks)
    <3>1. Len(next.made) = k + 1 /\ Len(next.queue) = waiting - 1
      BY <2>3, <2>4
    <3>2. (k + 1) + (waiting - 1) = all
      <4> HIDE DEF k, waiting, all
      <4> QED
        BY <1>8
    <3> QED
      BY <3>1, <3>2
  <2>6. \A i \in 1 .. Len(next.made) : next.made[i] = Respond(tasks[i])
    <3>1. next.made[k + 1] = Respond(tasks[k + 1])
      BY <1>8, <1>10, <2>3
    <3>2. \A i \in 1 .. k : next.made[i] = Respond(tasks[i])
      BY <1>6, <2>3
    <3> HIDE DEF k
    <3>3. \A i \in 1 .. k + 1 : i \in 1 .. k \/ i = k + 1
      BY <1>8
    <3> QED
      BY <2>3, <3>1, <3>2, <3>3
  <2>7. \A i \in 1 .. Len(next.queue) : next.queue[i] = tasks[Len(next.made) + i]
    BY <1>6, <1>8, <2>3, <2>4
  <2> QED
    BY <2>2, <2>3, <2>4, <2>5, <2>6, <2>7 DEF Answering, answered
<1> HIDE DEF next
<1>13. \A y \in next.cache : Filed(y)
  BY <1>1, <1>5, <1>11 DEF CommandOK
<1>14. CommandOK(c, next)
  BY <1>2, <1>5, <1>12, <1>13 DEF CommandOK
<1> QED
  BY <1>2, <1>4, <1>14, CommandStep

LEMMA FailKeeps ==
  ASSUME AiInv, NEW c \in Commands, FailCommand(c)
  PROVE  AiInv'
BY HoldsNothing, CommandStep DEF FailCommand

(* What is made replaces what is stored under its ids, and no two made     *)
(* answers have one.                                                       *)
LEMMA StoreKeeps ==
  ASSUME AiInv, NEW c \in Commands, StoreArtifacts(c)
  PROVE  AiInv'
<1> DEFINE o == run[c]
           tasks == Tasks(o.ask, o.input)
           rest == {x \in artifact : IsKept(x, o.made)}
<1>1. CommandOK(c, o) /\ run = [q \in Commands |-> run[q]]
  BY DEF AiInv
<1>2. /\ o.step = "running" /\ o.queue = <<>> /\ o.ask \in Asks[c] /\ UNCHANGED version
      /\ version[o.ask.article_id] # Gone /\ run' = [run EXCEPT ![c] = Over]
      /\ artifact' = rest \cup Range(o.made)
  BY <1>1 DEF StoreArtifacts, CommandOK
<1>3. /\ Len(o.made) = Len(tasks) /\ DOMAIN o.made = 1 .. Len(o.made)
      /\ \A i \in 1 .. Len(o.made) : o.made[i] = Respond(tasks[i])
  <2>1. Answering(o)
    BY <1>1, <1>2 DEF CommandOK
  <2>2. /\ Len(o.made) \in Nat /\ DOMAIN o.made = 1 .. Len(o.made) /\ Len(o.queue) = 0
    BY <1>2, <2>1, AnsweringLengths
  <2> QED
    BY <2>1, <2>2 DEF Answering
<1>4. /\ Len(tasks) \in Nat
      /\ \A i \in 1 .. Len(tasks) : WholeTask(tasks[i]) /\ tasks[i].article_id = o.ask.article_id
      /\ \A i, j \in 1 .. Len(tasks) : tasks[i].kind = tasks[j].kind => i = j
  BY <1>2, TasksOfAsk
<1> HIDE DEF tasks
<1>5. \A i \in 1 .. Len(o.made) :
        /\ Filed(o.made[i]) /\ o.made[i].article_id = o.ask.article_id
        /\ o.made[i].id.kind = tasks[i].kind
  BY <1>3, <1>4, AnswerOfTask
<1>6. o.ask.article_id \in FeedArticles
  BY <1>2, AskAssumption
<1>7. \A x \in Range(o.made) : \E i \in 1 .. Len(o.made) : x = o.made[i]
  BY <1>3 DEF Range
<1>8. \A x \in artifact' :
        Filed(x) /\ x.article_id \in FeedArticles /\ version'[x.article_id] # Gone
  BY <1>2, <1>5, <1>6, <1>7 DEF AiInv, StoredOK
<1>9. \A x, y \in artifact' : x.id = y.id => x = y
  <2> SUFFICES ASSUME NEW x \in artifact', NEW y \in artifact', x.id = y.id
               PROVE  x = y
    OBVIOUS
  <2>1. CASE x \in rest /\ y \in rest
    BY <2>1 DEF AiInv, StoredOK
  <2>2. CASE x \in Range(o.made) /\ y \in Range(o.made)
    <3>1. PICK i, j \in 1 .. Len(o.made) : x = o.made[i] /\ y = o.made[j]
      BY <1>7, <2>2
    <3>2. tasks[i].kind = tasks[j].kind
      BY <3>1, <1>5
    <3> QED
      BY <3>1, <3>2, <1>3, <1>4
  <2>3. \A z \in rest, w \in Range(o.made) : z.id # w.id
    BY <1>3, <1>7 DEF IsKept
  <2> QED
    BY <2>1, <2>2, <2>3, <1>2
<1>10. StoredOK'
  BY <1>2, <1>8, <1>9 DEF AiInv, StoredOK
<1>11. /\ run' = [q \in Commands |-> run'[q]]
       /\ \A q \in Commands : CommandOK(q, run'[q])
  BY <1>1, <1>2, HoldsNothing DEF AiInv
<1> QED
  BY <1>10, <1>11 DEF AiInv

(* An article is refreshed, or deleted with its artifacts; or they alone   *)
(* are.                                                                    *)
LEMMA ArticleKeeps ==
  ASSUME AiInv, NEW a \in FeedArticles, RefreshText(a) \/ DropArticle(a) \/ DeleteAiCache(a)
  PROVE  AiInv'
<1>1. StoredOK /\ UNCHANGED run
  BY DEF AiInv, RefreshText, DropArticle, DeleteAiCache
<1>2. /\ version' \in [FeedArticles -> Nat \cup {Gone}]
      /\ \A x \in artifact' : x \in artifact /\ version'[x.article_id] # Gone
  <2>1. CASE RefreshText(a)
    <3>1. version[a] \in Nat /\ version[a] + 1 \in Nat
      BY <2>1, <1>1 DEF RefreshText, StoredOK
    <3>2. version[a] + 1 # Gone
      BY <3>1, GoneAssumption
    <3> QED
      BY <2>1, <1>1, <3>1, <3>2 DEF RefreshText, StoredOK
  <2>2. CASE DropArticle(a)
    BY <2>2, <1>1 DEF DropArticle, ArtifactsOf, StoredOK
  <2>3. CASE DeleteAiCache(a)
    BY <2>3, <1>1 DEF DeleteAiCache, StoredOK
  <2> QED
    BY <2>1, <2>2, <2>3
<1>3. StoredOK'
  BY <1>1, <1>2 DEF StoredOK
<1> QED
  BY <1>1, <1>3 DEF AiInv

LEMMA AiInitial == AiInit => AiInv
<1> SUFFICES ASSUME AiInit PROVE AiInv
  OBVIOUS
<1>1. StoredOK
  BY DEF AiInit, StoredOK
<1> QED
  BY <1>1, HoldsNothing DEF AiInit, AiInv

LEMMA AiStep == AiInv /\ [AiNext]_aiVars => AiInv'
<1> SUFFICES ASSUME AiInv, [AiNext]_aiVars PROVE AiInv'
  OBVIOUS
<1>1. ASSUME NEW c \in Commands, NEW ask \in Askable(c),
             \/ GenerateArticleInsights(c, ask) \/ GenerateArticleTranslation(c, ask)
             \/ AnswerArticleQuestion(c, ask)
      PROVE  AiInv'
  <2>1. \E step \in {"read", "loading"} : \E input, left : Begin(c, ask, step, input, left)
    BY <1>1 DEF GenerateArticleInsights, GenerateArticleTranslation, AnswerArticleQuestion
  <2> QED
    BY <2>1, BeginKeeps
<1>2. ASSUME NEW c \in Commands,
             \/ LoadFeedContexts(c) \/ LoadSearchResultContext(c) \/ SeedCache(c)
             \/ RunNext(c) \/ StoreArtifacts(c) \/ FailCommand(c)
      PROVE  AiInv'
  BY <1>2, LoadingKeeps, SeedKeeps, AnswerKeeps, StoreKeeps, FailKeeps
<1>3. CASE UNCHANGED aiVars
  BY <1>3 DEF aiVars, AiInv, StoredOK
<1> QED
  BY <1>1, <1>2, <1>3, ArticleKeeps DEF AiNext

LEMMA FittingAnswers == AiInv => AnswersFitInputs
<1> SUFFICES ASSUME AiInv PROVE AnswersFitInputs
  OBVIOUS
<1>1. ASSUME NEW c \in Commands, run[c].step = "running"
      PROVE  LET tasks == Tasks(run[c].ask, run[c].input)
             IN  /\ Len(run[c].made) + Len(run[c].queue) = Len(tasks)
                 /\ \A i \in DOMAIN run[c].made :
                      /\ run[c].made[i].kind = tasks[i].kind
                      /\ run[c].made[i].answers = tasks[i].input
                      /\ run[c].made[i].article_id = run[c].ask.article_id
  <2> DEFINE o == run[c]
             tasks == Tasks(o.ask, o.input)
  <2>1. o.ask \in Asks[c] /\ Answering(o)
    BY <1>1 DEF AiInv, CommandOK
  <2>2. /\ Len(tasks) \in Nat
        /\ \A i \in 1 .. Len(tasks) : WholeTask(tasks[i]) /\ tasks[i].article_id = o.ask.article_id
    BY <2>1, TasksOfAsk
  <2>3. /\ Len(o.made) \in Nat /\ Len(o.queue) \in Nat /\ DOMAIN o.made = 1 .. Len(o.made)
        /\ Len(o.made) + Len(o.queue) = Len(tasks)
        /\ \A i \in 1 .. Len(o.made) : o.made[i] = Respond(tasks[i])
    BY <2>1, AnsweringLengths DEF Answering
  <2> HIDE DEF tasks
  <2>4. \A i \in DOMAIN o.made : i \in 1 .. Len(tasks) /\ o.made[i] = Respond(tasks[i])
    <3> DEFINE k == Len(o.made)
               waiting == Len(o.queue)
               all == Len(tasks)
    <3>1. k <= all
      <4>1. k \in Nat /\ waiting \in Nat /\ all \in Nat /\ k + waiting = all
        BY <2>2, <2>3
      <4> HIDE DEF k, waiting, all
      <4> QED
        BY <4>1
    <3> QED
      BY <2>2, <2>3, <3>1
  <2>5. \A i \in DOMAIN o.made :
          /\ o.made[i].kind = tasks[i].kind /\ o.made[i].answers = tasks[i].input
          /\ o.made[i].article_id = o.ask.article_id
    BY <2>2, <2>4, AnswerOfTask
  <2> QED
    BY <2>3, <2>5 DEF tasks
<1>2. ASSUME NEW x \in artifact
      PROVE  /\ x.input_hash = StableInputHash([kind |-> x.kind, mode |-> x.id.mode,
                                                article_id |-> x.article_id, input |-> x.answers])
             /\ version[x.article_id] # Gone
  <2> DEFINE t == x.input_hash
  <2>1. WholeTask(t) /\ x = Respond(t) /\ version[x.article_id] # Gone
    BY DEF AiInv, StoredOK, Filed
  <2>2. /\ x.article_id = t.article_id /\ x.kind = t.kind
        /\ x.answers = t.input /\ x.id.mode = t.mode
    BY <2>1, AnswerOfTask
  <2> QED
    BY <2>1, <2>2 DEF WholeTask, StableInputHash
<1>3. \A x, y \in artifact : x.id = y.id => x = y
  BY DEF AiInv, StoredOK
<1> QED
  BY <1>1, <1>2, <1>3 DEF AnswersFitInputs

(* However commands overlap with each other, with refreshes and with       *)
(* deletions, what a command returns answers what it read, and what is     *)
(* stored under an id answers the input it is filed under and is of an     *)
(* article that exists (ai_insights.rs, ai_actions.rs, ai_artifact_store). *)
THEOREM AnswersAreFiled == AiSpec => []AnswersFitInputs
<1>1. AiSpec => []AiInv
  BY AiInitial, AiStep, PTL DEF AiSpec
<1> QED
  BY <1>1, FittingAnswers, PTL

(* What a command reads, asks for, has and stores is of a kind, of an      *)
(* article, and has text.                                                  *)
HasAnswer(x) ==
  x.kind \in Kinds /\ x.article_id \in FeedArticles /\ x.answers # <<>> /\ HasText(x.answers)

Ready(r) ==
  /\ r.ask.operation = "insights" => r.input = <<r.input[1], r.input[2]>>
  /\ r.ask.operation \in Translations => r.input # <<>>

CommandHasText(r) ==
  /\ r.step \in {"idle", "loading", "read", "running", "over"}
  /\ \A x \in r.cache : HasAnswer(x)
  /\ r.step = "loading" => r.ask.operation \in {"feed", "search-result"}
  /\ r.step = "read" => Ready(r)
  /\ r.step = "running" => \A x \in Range(r.made) : HasAnswer(x)
  /\ r.step = "running" => \A t \in Range(r.queue) : HasAnswer(Respond(t))

AllHaveText ==
  /\ version \in [FeedArticles -> (1 .. Len(RowVersions)) \cup {Gone}]
  /\ \A x \in artifact : HasAnswer(x)
  /\ \A c \in Commands : CommandHasText(run[c])

(* The tasks of what is valid have text.                                   *)
LEMMA TasksHaveText ==
  ASSUME NEW c \in Commands, NEW r, r.ask \in Asks[c], Ready(r), Valid(r.ask, r.input)
  PROVE  \A t \in Range(Tasks(r.ask, r.input)) : HasAnswer(Respond(t))
<1> DEFINE ask == r.ask
           input == r.input
<1>1. /\ ask.operation \in {"insights"} \cup Translations \cup Scopes
      /\ ask.article_id \in FeedArticles
  BY AskAssumption
<1>2. ASSUME NEW kind \in Kinds, NEW text, text # <<>>, HasText(text)
      PROVE  HasAnswer(Respond(Task(kind, ask, text)))
  BY <1>1, <1>2 DEF HasAnswer, Respond, Task
<1>3. ASSUME NEW t PROVE Range(<<t>>) = {t}
  BY DEF Range
<1>4. CASE ask.operation = "insights"
  <2>1. /\ Tasks(ask, input) = <<SummaryTask(ask, input), KeywordTask(ask, input)>>
        /\ Valid(ask, input) <=> input[1].text # NoText
    BY <1>4 DEF Tasks, GenerateSummaryAndKeywords, Translations, Scopes, Valid, ValidInsights
  <2>2. PICK p, q : input = <<p, q>> /\ p.text # NoText
    <3>1. input = <<input[1], input[2]>>
      BY <1>4 DEF Ready
    <3> QED
      BY <2>1, <3>1
  <2>3. HasText(<<p>>) /\ (q.text # NoText => HasText(<<p, q>>))
    BY <2>2 DEF HasText
  <2>4. SummaryTask(ask, input) = Task("summary", ask, <<p>>)
    BY <2>2 DEF SummaryTask
  <2>5. KeywordTask(ask, input) = Task("keywords", ask, IF q.text = NoText THEN <<p>> ELSE <<p, q>>)
    BY <2>2 DEF KeywordTask
  <2>6. HasAnswer(Respond(SummaryTask(ask, input)))
    BY <1>2, <2>3, <2>4 DEF Kinds
  <2>7. HasAnswer(Respond(KeywordTask(ask, input)))
    BY <1>2, <2>3, <2>5 DEF Kinds
  <2>8. \A t, u : Range(<<t, u>>) = {t, u}
    BY DEF Range
  <2> QED
    BY <2>1, <2>6, <2>7, <2>8
<1>5. CASE ask.operation \in Translations
  <2>1. ask.operation # "insights" /\ ask.operation \notin Scopes
    BY <1>5 DEF Translations, Scopes
  <2>2. Tasks(ask, input) = <<Task("translation", ask, input)>>
    BY <1>5, <2>1 DEF Tasks, TranslateArticleText, TranslationTask
  <2>3. HasText(input) /\ input # <<>>
    BY <1>5, <2>1 DEF Valid, ValidTranslation, Ready
  <2> QED
    BY <1>2, <1>3, <2>2, <2>3 DEF Kinds
<1>6. CASE ask.operation \in Scopes
  <2>1. ask.operation # "insights" /\ ask.operation \notin Translations
    BY <1>6 DEF Translations, Scopes
  <2>2. Tasks(ask, input) = <<Task("question-answer", ask, input)>>
    BY <1>6, <2>1 DEF Tasks, AnswerLimitedQuestion, QuestionTask
  <2>3. HasText(input) /\ input # <<>>
    BY <1>6, <2>1 DEF Valid, ValidQuestion
  <2> QED
    BY <1>2, <1>3, <2>2, <2>3 DEF Kinds
<1> QED
  BY <1>1, <1>4, <1>5, <1>6

(* One command goes on, and stores nothing.                                *)
LEMMA CommandKeepsText ==
  ASSUME AiInv, AllHaveText, NEW c \in Commands, NEW r, CommandHasText(r),
         run' = [run EXCEPT ![c] = r], UNCHANGED <<version, artifact>>
  PROVE  AllHaveText'
<1>1. \A d \in Commands : run'[d] = IF d = c THEN r ELSE run[d]
  BY DEF AiInv
<1> QED
  BY <1>1 DEF AllHaveText

LEMMA TextStays == AiInv /\ AllHaveText /\ [AiNext]_aiVars => AllHaveText'
<1> SUFFICES ASSUME AiInv, AllHaveText, [AiNext]_aiVars PROVE AllHaveText'
  OBVIOUS
<1>1. /\ DOMAIN Idle = CommandFields /\ CommandHasText(Idle) /\ CommandHasText(Over)
  BY DEF Idle, Over, CommandHasText, CommandFields
<1>2. ASSUME NEW c \in Commands, NEW ask \in Askable(c), NEW step \in {"read", "loading"},
             NEW input, NEW left, Begin(c, ask, step, input, left),
             step = "loading" => ask.operation \in {"feed", "search-result"},
             ask.operation = "insights" => input = <<input[1], input[2]>>,
             ask.operation \in Translations => input # <<>>
      PROVE  AllHaveText'
  <2> DEFINE r == [Idle EXCEPT !.step = step, !.ask = ask, !.input = input, !.left = left]
  <2>1. r.step = step /\ r.ask = ask /\ r.input = input /\ r.cache = {}
    BY DEF Idle
  <2>2. run' = [run EXCEPT ![c] = r] /\ UNCHANGED <<version, artifact>>
    BY <1>2 DEF Begin
  <2> HIDE DEF r
  <2>3. CommandHasText(r)
    BY <1>2, <2>1 DEF CommandHasText, Ready
  <2> QED
    BY <2>2, <2>3, CommandKeepsText
<1>3. ASSUME NEW c \in Commands, NEW ask \in Askable(c), GenerateArticleInsights(c, ask)
      PROVE  AllHaveText'
  <2>1. ask.operation = "insights" /\ ask.operation \notin Translations
    BY <1>3 DEF GenerateArticleInsights, Translations
  <2>2. PICK p, q : Begin(c, ask, "read", <<p, q>>, <<>>)
    BY <1>3 DEF GenerateArticleInsights, ArticleToSnapshot
  <2> QED
    BY <1>2, <2>1, <2>2
<1>4. ASSUME NEW c \in Commands, NEW ask \in Askable(c), GenerateArticleTranslation(c, ask)
      PROVE  AllHaveText'
  <2>1. ask.operation # "insights"
    BY <1>4 DEF GenerateArticleTranslation, Translations
  <2>2. PICK p : Begin(c, ask, "read", <<p>>, <<>>)
    BY <1>4 DEF GenerateArticleTranslation
  <2> QED
    BY <1>2, <2>1, <2>2
<1>5. ASSUME NEW c \in Commands, NEW ask \in Askable(c), AnswerArticleQuestion(c, ask)
      PROVE  AllHaveText'
  <2>1. ask.operation # "insights" /\ ask.operation \notin Translations
    BY <1>5 DEF AnswerArticleQuestion, Translations
  <2>2. \/ \E input : Begin(c, ask, "read", input, <<>>)
        \/ ask.operation \in {"feed", "search-result"} /\ Begin(c, ask, "loading", <<>>, Allowed)
    BY <1>5 DEF AnswerArticleQuestion
  <2> QED
    BY <1>2, <2>1, <2>2
<1>6. ASSUME NEW c \in Commands,
             LoadFeedContexts(c) \/ LoadSearchResultContext(c) \/ SeedCache(c) \/ RunNext(c)
               \/ FailCommand(c) \/ StoreArtifacts(c)
      PROVE  /\ CommandOK(c, run[c]) /\ CommandHasText(run[c])
             /\ run = [d \in Commands |-> run[d]]
  BY DEF AiInv, AllHaveText
<1>7. ASSUME NEW c \in Commands, LoadFeedContexts(c)
      PROVE  AllHaveText'
  <2>1. PICK taken : run' = [run EXCEPT ![c].step = "read", ![c].input = taken]
    BY <1>7 DEF LoadFeedContexts
  <2>2. run[c].step = "loading" /\ run[c].ask.operation = "feed" /\ UNCHANGED <<version, artifact>>
    BY <1>7 DEF LoadFeedContexts
  <2> DEFINE r == [run[c] EXCEPT !.step = "read", !.input = taken]
  <2>3. run' = [run EXCEPT ![c] = r]
    BY <1>6, <1>7, <2>1
  <2>4. r.step = "read" /\ r.ask = run[c].ask /\ r.cache = run[c].cache
    BY <1>6, <1>7 DEF CommandOK, CommandFields
  <2> HIDE DEF r
  <2>5. CommandHasText(r)
    BY <1>6, <1>7, <2>2, <2>4 DEF CommandHasText, Ready, Translations
  <2> QED
    BY <2>2, <2>3, <2>5, CommandKeepsText
<1>8. ASSUME NEW c \in Commands, LoadSearchResultContext(c)
      PROVE  AllHaveText'
  <2>1. /\ run[c].step = "loading" /\ run[c].ask.operation = "search-result"
        /\ UNCHANGED <<version, artifact>>
    BY <1>8 DEF LoadSearchResultContext
  <2> DEFINE r == run'[c]
  <2>2. /\ run' = [run EXCEPT ![c] = r]
        /\ \/ r = [run[c] EXCEPT !.step = "read"]
           \/ r = [run[c] EXCEPT !.left = Tail(@)]
           \/ \E p : r = [run[c] EXCEPT !.left = Tail(@), !.input = Append(@, p)]
    BY <1>6, <1>8 DEF LoadSearchResultContext
  <2> HIDE DEF r
  <2>3. r.step \in {"read", "loading"} /\ r.ask = run[c].ask /\ r.cache = run[c].cache
    BY <1>6, <1>8, <2>1, <2>2 DEF CommandOK, CommandFields
  <2>4. CommandHasText(r)
    BY <1>6, <1>8, <2>1, <2>3 DEF CommandHasText, Ready, Translations
  <2> QED
    BY <2>1, <2>2, <2>4, CommandKeepsText
<1>9. ASSUME NEW c \in Commands, SeedCache(c)
      PROVE  AllHaveText'
  <2> DEFINE o == run[c]
             tasks == Tasks(o.ask, o.input)
             stored == ListArtifacts(o.ask.article_id, {tasks[i].kind : i \in DOMAIN tasks})
             r == [o EXCEPT !.step = "running", !.queue = tasks, !.cache = stored]
  <2>1. /\ o.step = "read" /\ Valid(o.ask, o.input) /\ UNCHANGED <<version, artifact>>
        /\ run' = [run EXCEPT ![c].step = "running", ![c].queue = tasks, ![c].cache = stored]
    BY <1>9 DEF SeedCache
  <2>2. \A t \in Range(tasks) : HasAnswer(Respond(t))
    BY <1>6, <1>9, <2>1, TasksHaveText DEF CommandOK, CommandHasText
  <2>3. \A x \in stored : HasAnswer(x)
    BY DEF ListArtifacts, ArtifactsOf, AllHaveText
  <2> HIDE DEF tasks, stored
  <2>4. run' = [run EXCEPT ![c] = r]
    BY <1>6, <1>9, <2>1
  <2>5. r.step = "running" /\ r.queue = tasks /\ r.cache = stored /\ r.made = o.made
    BY <1>6, <1>9 DEF CommandOK, CommandFields
  <2>6. o.made = <<>>
    BY <1>6, <1>9, <2>1 DEF CommandOK
  <2> HIDE DEF r
  <2>7. Range(r.made) = {}
    BY <2>5, <2>6 DEF Range
  <2>8. CommandHasText(r)
    BY <2>2, <2>3, <2>5, <2>7 DEF CommandHasText
  <2> QED
    BY <2>1, <2>4, <2>8, CommandKeepsText
<1>10. ASSUME NEW c \in Commands, RunNext(c)
      PROVE  AllHaveText'
  <2> DEFINE o == run[c]
             task == Head(o.queue)
  <2>1. o.step = "running" /\ o.queue # <<>> /\ UNCHANGED <<version, artifact>>
    BY <1>10 DEF RunNext
  <2>2. PICK x \in (IF Cached(c, task) # {} THEN Cached(c, task) ELSE {Respond(task)}) :
          run' = [run EXCEPT ![c].queue = Tail(@), ![c].made = Append(@, x), ![c].cache = @ \cup {x}]
    BY <1>10 DEF RunNext
  <2>3. Answering(o)
    BY <1>6, <1>10, <2>1 DEF CommandOK
  <2> DEFINE answered == {Respond(t) : t \in Range(Tasks(o.ask, o.input))}
             all == Range(Tasks(o.ask, o.input))
  <2>4. o.made \in Seq(answered) /\ o.queue \in Seq(all)
    BY <2>3 DEF Answering
  <2> HIDE DEF answered, all
  <2>5. task \in Range(o.queue) /\ Range(Tail(o.queue)) \subseteq Range(o.queue)
    BY <2>1, <2>4 DEF Range
  <2>6. HasAnswer(x)
    <3>1. HasAnswer(Respond(task))
      BY <1>6, <1>10, <2>1, <2>5 DEF CommandHasText
    <3>2. \A y \in Cached(c, task) : HasAnswer(y)
      BY <1>6, <1>10 DEF Cached, CommandHasText
    <3> QED
      BY <2>2, <3>1, <3>2
  <2>7. Range(Append(o.made, x)) \subseteq Range(o.made) \cup {x}
    BY <2>4 DEF Range
  <2> DEFINE r == [o EXCEPT !.queue = Tail(@), !.made = Append(@, x), !.cache = @ \cup {x}]
  <2>8. run' = [run EXCEPT ![c] = r]
    BY <1>6, <1>10, <2>2
  <2>9. /\ r.step = "running" /\ r.queue = Tail(o.queue) /\ r.cache = o.cache \cup {x}
        /\ r.made = Append(o.made, x)
    BY <1>6, <1>10, <2>1 DEF CommandOK, CommandFields
  <2> HIDE DEF r
  <2>10. CommandHasText(r)
    BY <1>6, <1>10, <2>1, <2>5, <2>6, <2>7, <2>9 DEF CommandHasText
  <2> QED
    BY <2>1, <2>8, <2>10, CommandKeepsText
<1>11. ASSUME NEW c \in Commands, FailCommand(c)
      PROVE  AllHaveText'
  BY <1>1, <1>11, CommandKeepsText DEF FailCommand
<1>12. ASSUME NEW c \in Commands, StoreArtifacts(c)
      PROVE  AllHaveText'
  <2>1. /\ run[c].step = "running" /\ run' = [run EXCEPT ![c] = Over] /\ UNCHANGED version
        /\ artifact' \subseteq artifact \cup Range(run[c].made)
    BY <1>12 DEF StoreArtifacts
  <2>2. \A x \in artifact' : HasAnswer(x)
    BY <1>6, <1>12, <2>1 DEF AllHaveText, CommandHasText
  <2>3. \A d \in Commands : run'[d] = IF d = c THEN Over ELSE run[d]
    BY <2>1, <1>6, <1>12
  <2> QED
    BY <1>1, <2>1, <2>2, <2>3 DEF AllHaveText
<1>13. ASSUME NEW a \in FeedArticles, RefreshText(a) \/ DropArticle(a) \/ DeleteAiCache(a)
      PROVE  AllHaveText'
  <2>1. UNCHANGED run /\ artifact' \subseteq artifact
    BY <1>13 DEF RefreshText, DropArticle, DeleteAiCache, ArtifactsOf
  <2>2. version' \in [FeedArticles -> (1 .. Len(RowVersions)) \cup {Gone}]
    <3>1. CASE RefreshText(a)
      <4>1. version[a] \in 1 .. Len(RowVersions) /\ version[a] < Len(RowVersions)
        BY <3>1 DEF RefreshText, AllHaveText
      <4>2. version[a] + 1 \in 1 .. Len(RowVersions)
        BY <4>1, GoneAssumption
      <4> QED
        BY <3>1, <4>2 DEF RefreshText, AllHaveText
    <3>2. CASE DropArticle(a)
      BY <3>2 DEF DropArticle, AllHaveText
    <3>3. CASE DeleteAiCache(a)
      BY <3>3 DEF DeleteAiCache, AllHaveText
    <3> QED
      BY <1>13, <3>1, <3>2, <3>3
  <2> QED
    BY <2>1, <2>2 DEF AllHaveText
<1>14. CASE UNCHANGED aiVars
  BY <1>14 DEF aiVars, AllHaveText
<1> QED
  BY <1>3, <1>4, <1>5, <1>7, <1>8, <1>9, <1>10, <1>11, <1>12, <1>13, <1>14 DEF AiNext

(* Whatever is asked, refreshed and deleted in between: every stored and   *)
(* every cached artifact is of a kind and an article the program has, and  *)
(* answers an input that has text.                                         *)
THEOREM AnswersHaveText == AiSpec => []AiTypeOK
<1>1. AiInit => AiInv /\ AllHaveText
  <2>1. AiInit => AiInv
    BY AiInitial
  <2>2. CommandHasText(Idle)
    BY DEF Idle, CommandHasText
  <2>3. AiInit => AllHaveText
    BY <2>2, GoneAssumption DEF AiInit, AllHaveText
  <2> QED
    BY <2>1, <2>3
<1>2. AiInv /\ AllHaveText /\ [AiNext]_aiVars => AiInv' /\ AllHaveText'
  BY AiStep, TextStays
<1>3. AllHaveText => AiTypeOK
  <2> SUFFICES ASSUME AllHaveText PROVE AiTypeOK
    OBVIOUS
  <2>1. \A x \in artifact \cup UNION {run[c].cache : c \in Commands} : HasAnswer(x)
    BY DEF AllHaveText, CommandHasText
  <2> QED
    BY <2>1 DEF AllHaveText, CommandHasText, AiTypeOK, HasAnswer
<1> QED
  BY <1>1, <1>2, <1>3, PTL DEF AiSpec

-------------------------------------------------------------------------------
(* SearchIndex and ArticleLists.                                           *)

(* The rows of the tables, whose foreign keys hold.                        *)
TablesOK ==
  /\ article \in [Articles -> ArticleRow \cup {NoRow}]
  /\ feed \in [Feeds -> FeedRow \cup {NoRow}]
  /\ tag \in [Tags -> TagRow \cup {NoRow}]
  /\ attached \subseteq Articles \X Tags
  /\ \A a \in Articles : article[a] # NoRow => feed[article[a].feed_id] # NoRow
  /\ \A a \in Articles, g \in Tags :
       <<a, g>> \in attached => article[a] # NoRow /\ tag[g] # NoRow

SearchInv ==
  /\ TablesOK
  /\ entry = [a \in Articles |-> entry[a]]
  /\ \A a \in Articles : entry[a] = Source(a)

ListsInv ==
  /\ SearchInv
  /\ userState \in [Articles -> UserStates \cup {DefaultUserState, NoRow}]

(* Whether a search of a's tags reads the name of tag g.                   *)
Shows(a, g) == <<a, g>> \in attached /\ tag[g] # NoRow /\ tag[g].scope = "article"

NamesStay(a) ==
  \A g \in Tags : /\ Shows(a, g)' <=> Shows(a, g)
                  /\ Shows(a, g) => tag'[g].name = tag[g].name

LEMMA SourceOfRow ==
  ASSUME NEW a \in Articles
  PROVE  Source(a) = IF article[a] = NoRow \/ feed[article[a].feed_id] = NoRow THEN NoRow
                     ELSE [feed_id    |-> article[a].feed_id, text |-> article[a].text,
                           feed_title |-> DisplayTitle(feed[article[a].feed_id]),
                           tag_names  |-> {tag[g].name : g \in {h \in Tags : Shows(a, h)}}]
  BY DEF Source, Shows

(* What the view says of an article stays while its row, its feed's title  *)
(* and the names of its tags do.                                           *)
LEMMA SourceStays ==
  ASSUME TablesOK, NEW a \in Articles, article'[a] = article[a],
         article[a] # NoRow => feed'[article[a].feed_id] = feed[article[a].feed_id],
         NamesStay(a)
  PROVE  Source(a)' = Source(a)
<1> DEFINE Names == {tag[g].name : g \in {h \in Tags : Shows(a, h)}}
<1>1. Names' = Names
  <2>1. {h \in Tags : Shows(a, h)}' = {h \in Tags : Shows(a, h)}
    <3>1. \A g \in Tags : Shows(a, g)' <=> Shows(a, g)
      BY DEF NamesStay
    <3> QED
      BY <3>1
  <2> QED
    BY <2>1 DEF NamesStay
<1>2. CASE article[a] = NoRow
  BY <1>2 DEF Source
<1>3. CASE article[a] # NoRow
  <2>1. feed'[article[a].feed_id] = feed[article[a].feed_id]
    BY <1>3
  <2>2. Names' = Names => Source(a)' = Source(a)
    BY <1>3, <2>1 DEF Source, Shows, DisplayTitle
  <2> QED
    BY <1>1, <2>2
<1> QED
  BY <1>2, <1>3

LEMMA SourceIsEntry ==
  ASSUME TablesOK, NEW a \in Articles
  PROVE  /\ Source(a) \in Entry \cup {NoRow}
         /\ Source(a) = NoRow <=> article[a] = NoRow
<1> DEFINE names == {tag[g].name : g \in {h \in Tags : Shows(a, h)}}
<1>1. CASE article[a] = NoRow \/ feed[article[a].feed_id] = NoRow
  BY <1>1 DEF Source, TablesOK
<1>2. CASE article[a] # NoRow /\ feed[article[a].feed_id] # NoRow
  <2>1. article[a] \in ArticleRow /\ article[a].feed_id \in Feeds /\ article[a].text \in Words
    BY <1>2 DEF TablesOK, ArticleRow
  <2>2. feed[article[a].feed_id] \in FeedRow
    BY <1>2, <2>1 DEF TablesOK
  <2>3. DisplayTitle(feed[article[a].feed_id]) \in Words
    BY <2>2, SearchAssumption DEF DisplayTitle, FeedRow
  <2>4. names \subseteq Words
    <3>1. \A g \in Tags : Shows(a, g) => tag[g].name \in Words
      BY DEF TablesOK, TagRow, Shows
    <3> QED
      BY <3>1
  <2> HIDE DEF names
  <2>5. [feed_id |-> article[a].feed_id, text |-> article[a].text,
         feed_title |-> DisplayTitle(feed[article[a].feed_id]), tag_names |-> names] \in Entry
    BY <2>1, <2>3, <2>4 DEF Entry
  <2> QED
    BY <1>2, <2>5, SourceOfRow, SearchAssumption DEF names
<1> QED
  BY <1>1, <1>2
(* What a step has to keep: the tables, and the rows it does not write.    *)
LEMMA RowsReindexed ==
  ASSUME SearchInv, TablesOK', NEW S \in SUBSET Articles,
         entry' = [a \in Articles |-> IF a \in S THEN Source(a)' ELSE entry[a]],
         \A a \in Articles \ S : Source(a)' = Source(a)
  PROVE  SearchInv'
<1>1. \A a \in Articles : entry'[a] = Source(a)'
  BY DEF SearchInv
<1> QED
  BY <1>1 DEF SearchInv

LEMMA UpsertArticleIndexed ==
  ASSUME SearchInv, NEW a \in Articles, NEW row \in ArticleRow, UpsertArticle(a, row)
  PROVE  SearchInv'
<1>1. /\ feed[row.feed_id] # NoRow /\ article' = [article EXCEPT ![a] = Upserted(a, row)]
      /\ UNCHANGED <<feed, tag, attached>>
      /\ entry' = [b \in Articles |-> IF b \in {a} THEN Source(b)' ELSE entry[b]]
      /\ TablesOK
  BY DEF UpsertArticle, Reindex, SearchInv
<1>2. /\ Upserted(a, row) \in ArticleRow /\ Upserted(a, row) # NoRow
      /\ feed[Upserted(a, row).feed_id] # NoRow
  <2>1. CASE article[a] = NoRow
    BY <1>1, <2>1, SearchAssumption DEF Upserted
  <2>2. CASE article[a] # NoRow
    <3>1. article[a] \in ArticleRow /\ feed[article[a].feed_id] # NoRow
      BY <1>1, <2>2 DEF TablesOK
    <3>2. Upserted(a, row) = [row EXCEPT !.feed_id = article[a].feed_id]
      BY <2>2 DEF Upserted
    <3>3. /\ [row EXCEPT !.feed_id = article[a].feed_id] \in ArticleRow
          /\ [row EXCEPT !.feed_id = article[a].feed_id].feed_id = article[a].feed_id
      BY <3>1 DEF ArticleRow
    <3> QED
      BY <3>1, <3>2, <3>3, SearchAssumption
  <2> QED
    BY <2>1, <2>2
<1>3. TablesOK'
  BY <1>1, <1>2 DEF TablesOK
<1>4. \A b \in Articles \ {a} : Source(b)' = Source(b)
  <2> SUFFICES ASSUME NEW b \in Articles \ {a} PROVE Source(b)' = Source(b)
    OBVIOUS
  <2>1. article'[b] = article[b]
    BY <1>1 DEF TablesOK
  <2>2. NamesStay(b)
    BY <1>1 DEF Shows, NamesStay
  <2> QED
    BY <1>1, <2>1, <2>2, SourceStays
<1> QED
  BY <1>1, <1>3, <1>4, RowsReindexed

LEMMA DeleteArticleIndexed ==
  ASSUME SearchInv, NEW a \in Articles, DeleteArticle(a)
  PROVE  SearchInv'
<1>1. /\ article' = [article EXCEPT ![a] = NoRow]
      /\ attached' = {p \in attached : p[1] # a}
      /\ entry' = [entry EXCEPT ![a] = NoRow]
      /\ UNCHANGED <<feed, tag>> /\ TablesOK
  BY DEF DeleteArticle, SearchInv
<1>2. \A b \in Articles, g \in Tags : <<b, g>> \in attached' <=> <<b, g>> \in attached /\ b # a
  BY <1>1
<1>3. TablesOK'
  BY <1>1, <1>2 DEF TablesOK
<1>4. \A b \in Articles \ {a} : Source(b)' = Source(b)
  <2> SUFFICES ASSUME NEW b \in Articles \ {a} PROVE Source(b)' = Source(b)
    OBVIOUS
  <2>1. article'[b] = article[b]
    BY <1>1 DEF TablesOK
  <2>2. NamesStay(b)
    BY <1>1, <1>2 DEF Shows, NamesStay
  <2> QED
    BY <1>1, <2>1, <2>2, SourceStays
<1>5. Source(a)' = NoRow
  <2>1. article'[a] = NoRow
    BY <1>1 DEF TablesOK
  <2> QED
    BY <2>1 DEF Source
<1>6. entry' = [b \in Articles |-> IF b \in {a} THEN Source(b)' ELSE entry[b]]
  BY <1>1, <1>5 DEF SearchInv
<1> QED
  BY <1>3, <1>4, <1>6, RowsReindexed

(* A title changes: no article is of a feed that has had no row.           *)
LEMMA RelabelIndexed ==
  ASSUME SearchInv, NEW f \in Feeds, NEW row \in FeedRow, Relabel(f, row)
  PROVE  SearchInv'
<1>1. /\ feed' = [feed EXCEPT ![f] = row] /\ UNCHANGED <<article, tag, attached>>
      /\ TablesOK /\ row # NoRow
  BY SearchAssumption DEF Relabel, SearchInv
<1>2. TablesOK'
  BY <1>1 DEF TablesOK, ArticleRow
<1>3. \A b \in Articles \ ArticlesOf(f) : Source(b)' = Source(b)
  <2> SUFFICES ASSUME NEW b \in Articles \ ArticlesOf(f) PROVE Source(b)' = Source(b)
    OBVIOUS
  <2>1. article[b] # NoRow => feed'[article[b].feed_id] = feed[article[b].feed_id]
    BY <1>1 DEF ArticlesOf, TablesOK, ArticleRow
  <2>2. NamesStay(b)
    BY <1>1 DEF Shows, NamesStay
  <2> QED
    BY <1>1, <2>1, <2>2, SourceStays
<1>4. CASE feed[f] = NoRow
  <2>1. ArticlesOf(f) = {}
    BY <1>1, <1>4 DEF ArticlesOf, TablesOK
  <2>2. entry' = entry
    BY <1>4 DEF Relabel
  <2> QED
    BY <1>2, <1>3, <2>1, <2>2 DEF SearchInv
<1>5. CASE feed[f] # NoRow
  <2>1. entry' = [b \in Articles |-> IF b \in ArticlesOf(f) THEN Source(b)' ELSE entry[b]]
    BY <1>5 DEF Relabel, Reindex
  <2> QED
    BY <1>2, <1>3, <2>1, RowsReindexed DEF ArticlesOf
<1> QED
  BY <1>4, <1>5

LEMMA LabelsIndexed ==
  ASSUME SearchInv, NEW f \in Feeds,
         \/ \E row \in FeedRow : UpsertFeed(f, row)
         \/ \E name \in CustomNames \cup {NoRow} : RenameFeed(f, name)
  PROVE  SearchInv'
<1>1. feed[f] \in FeedRow \cup {NoRow}
  BY DEF SearchInv, TablesOK
<1>2. ASSUME NEW row \in FeedRow, UpsertFeed(f, row)
      PROVE  SearchInv'
  <2>1. CASE feed[f] = NoRow
    BY <1>2, <2>1, RelabelIndexed DEF UpsertFeed
  <2>2. CASE feed[f] # NoRow
    <3>1. [row EXCEPT !.custom_name = feed[f].custom_name] \in FeedRow
      BY <1>1, <2>2 DEF FeedRow
    <3> QED
      BY <1>2, <2>2, <3>1, RelabelIndexed DEF UpsertFeed
  <2> QED
    BY <2>1, <2>2
<1>3. ASSUME NEW name \in CustomNames \cup {NoRow}, RenameFeed(f, name)
      PROVE  SearchInv'
  <2>1. [feed[f] EXCEPT !.custom_name = name] \in FeedRow
    BY <1>1, <1>3 DEF RenameFeed, FeedRow
  <2> QED
    BY <1>3, <2>1, RelabelIndexed DEF RenameFeed
<1> QED
  BY <1>2, <1>3

LEMMA DeleteFeedIndexed ==
  ASSUME SearchInv, NEW f \in Feeds, DeleteFeed(f)
  PROVE  SearchInv'
<1> DEFINE S == ArticlesOf(f)
<1>1. /\ feed' = [feed EXCEPT ![f] = NoRow]
      /\ article' = [a \in Articles |-> IF a \in S THEN NoRow ELSE article[a]]
      /\ attached' = {p \in attached : p[1] \notin S}
      /\ entry' = [a \in Articles |-> IF a \in S THEN NoRow ELSE entry[a]]
      /\ UNCHANGED tag /\ TablesOK
  BY DEF DeleteFeed, SearchInv
<1>2. /\ S \subseteq Articles
      /\ \A a \in Articles \ S : article[a] = NoRow \/ article[a].feed_id # f
  BY DEF ArticlesOf
<1> HIDE DEF S
<1>3. \A b \in Articles, g \in Tags : <<b, g>> \in attached' <=> <<b, g>> \in attached /\ b \notin S
  BY <1>1
<1>4. TablesOK'
  BY <1>1, <1>2, <1>3 DEF TablesOK, ArticleRow
<1>5. \A b \in Articles \ S : Source(b)' = Source(b)
  <2> SUFFICES ASSUME NEW b \in Articles \ S PROVE Source(b)' = Source(b)
    OBVIOUS
  <2>1. article'[b] = article[b]
    BY <1>1
  <2>2. article[b] # NoRow => feed'[article[b].feed_id] = feed[article[b].feed_id]
    BY <1>1, <1>2 DEF TablesOK, ArticleRow
  <2>3. NamesStay(b)
    BY <1>1, <1>3 DEF Shows, NamesStay
  <2> QED
    BY <1>1, <2>1, <2>2, <2>3, SourceStays
<1>6. \A a \in S : Source(a)' = NoRow
  <2> SUFFICES ASSUME NEW a \in S PROVE Source(a)' = NoRow
    OBVIOUS
  <2>1. article'[a] = NoRow
    BY <1>1, <1>2
  <2> QED
    BY <2>1 DEF Source
<1>7. entry' = [b \in Articles |-> IF b \in S THEN Source(b)' ELSE entry[b]]
  BY <1>1, <1>6
<1> QED
  BY <1>2, <1>4, <1>5, <1>7, RowsReindexed

(* The tags of some articles change, of the others they stay.              *)
TagsStay(S) ==
  \A b \in Articles \ S, g \in Tags : /\ <<b, g>> \in attached' <=> <<b, g>> \in attached
                                      /\ <<b, g>> \in attached => tag'[g] = tag[g]

LEMMA TagsIndexed ==
  ASSUME SearchInv, UNCHANGED <<article, feed>>, TablesOK',
         NEW S \in SUBSET Articles, Reindex(S), TagsStay(S)
  PROVE  SearchInv'
<1>1. \A b \in Articles \ S : Source(b)' = Source(b)
  <2> SUFFICES ASSUME NEW b \in Articles \ S PROVE Source(b)' = Source(b)
    OBVIOUS
  <2>1. NamesStay(b)
    BY DEF Shows, TagsStay, NamesStay
  <2>2. TablesOK /\ article' = article /\ feed' = feed
    BY DEF SearchInv
  <2> QED
    BY <2>1, <2>2, SourceStays
<1> QED
  BY <1>1, RowsReindexed DEF Reindex

LEMMA AttachTagIndexed ==
  ASSUME SearchInv, NEW a \in Articles, NEW g \in Tags, AttachTag(a, g)
  PROVE  SearchInv'
<1>1. TablesOK' /\ UNCHANGED <<article, feed>> /\ Reindex({a})
  BY DEF AttachTag, SearchInv, TablesOK
<1>2. TagsStay({a})
  BY DEF AttachTag, TagsStay
<1> QED
  BY <1>1, <1>2, TagsIndexed

LEMMA DetachTagIndexed ==
  ASSUME SearchInv, NEW a \in Articles, NEW g \in Tags, DetachTag(a, g)
  PROVE  SearchInv'
<1>1. TablesOK' /\ UNCHANGED <<article, feed>> /\ Reindex({a})
  BY DEF DetachTag, SearchInv, TablesOK
<1>2. TagsStay({a})
  BY DEF DetachTag, TagsStay
<1> QED
  BY <1>1, <1>2, TagsIndexed

LEMMA MoveTagIndexed ==
  ASSUME SearchInv, NEW a \in Articles, NEW b \in Articles, NEW g \in Tags, MoveTag(a, b, g)
  PROVE  SearchInv'
<1>1. TablesOK' /\ UNCHANGED <<article, feed>> /\ Reindex({a, b})
  BY DEF MoveTag, SearchInv, TablesOK
<1>2. TagsStay({a, b})
  BY DEF MoveTag, TagsStay
<1> QED
  BY <1>1, <1>2, TagsIndexed DEF MoveTag

LEMMA DeleteTagIndexed ==
  ASSUME SearchInv, NEW g \in Tags, DeleteTag(g)
  PROVE  SearchInv'
<1>1. /\ tag' = [tag EXCEPT ![g] = NoRow] /\ attached' = {p \in attached : p[2] # g}
      /\ UNCHANGED <<article, feed>> /\ Reindex(TaggedWith(g)) /\ TablesOK
  BY DEF DeleteTag, SearchInv
<1>2. \A b \in Articles, h \in Tags : <<b, h>> \in attached' <=> <<b, h>> \in attached /\ h # g
  BY <1>1
<1>3. TablesOK'
  BY <1>1, <1>2 DEF TablesOK
<1>4. TagsStay(TaggedWith(g))
  <2>1. \A b \in Articles \ TaggedWith(g) : <<b, g>> \notin attached
    BY DEF TaggedWith
  <2>2. \A h \in Tags \ {g} : tag'[h] = tag[h]
    BY <1>1 DEF TablesOK
  <2>3. ASSUME NEW b \in Articles \ TaggedWith(g), NEW h \in Tags
        PROVE  /\ <<b, h>> \in attached' <=> <<b, h>> \in attached
               /\ <<b, h>> \in attached => tag'[h] = tag[h]
    <3>1. CASE h = g
      BY <1>2, <2>1, <3>1
    <3>2. CASE h # g
      BY <1>2, <2>2, <3>2
    <3> QED
      BY <3>1, <3>2
  <2> QED
    BY <2>3 DEF TagsStay
<1>5. TaggedWith(g) \in SUBSET Articles
  BY DEF TaggedWith
<1> QED
  BY <1>1, <1>3, <1>4, <1>5, TagsIndexed

(* A tag that had no row is no article's, and one that is shown neither    *)
(* before nor after is not read.                                           *)
LEMMA SaveTagIndexed ==
  ASSUME SearchInv, NEW g \in Tags, NEW row \in TagRow, SaveTag(g, row)
  PROVE  SearchInv'
<1>1. /\ tag' = [tag EXCEPT ![g] = row] /\ UNCHANGED <<article, feed, attached>> /\ TablesOK
      /\ row # NoRow
  BY SearchAssumption DEF SaveTag, SearchInv
<1>2. TablesOK'
  BY <1>1 DEF TablesOK
<1>3. CASE tag[g] # NoRow /\ ConcernsSearch(tag[g], row)
  <2>1. Reindex(TaggedWith(g)) /\ TaggedWith(g) \in SUBSET Articles
    BY <1>3 DEF SaveTag, TaggedWith
  <2>2. TagsStay(TaggedWith(g))
    <3>1. \A b \in Articles \ TaggedWith(g) : <<b, g>> \notin attached
      BY DEF TaggedWith
    <3>2. \A h \in Tags \ {g} : tag'[h] = tag[h]
      BY <1>1 DEF TablesOK
    <3>3. ASSUME NEW b \in Articles \ TaggedWith(g), NEW h \in Tags, <<b, h>> \in attached
          PROVE  tag'[h] = tag[h]
      <4>1. h # g
        BY <3>1, <3>3
      <4> QED
        BY <3>2, <4>1
    <3> QED
      BY <1>1, <3>3 DEF TagsStay
  <2> QED
    BY <1>1, <1>2, <2>1, <2>2, TagsIndexed
<1>4. CASE ~(tag[g] # NoRow /\ ConcernsSearch(tag[g], row))
  <2>1. entry' = entry
    BY <1>4 DEF SaveTag
  <2>2. \A b \in Articles : Source(b)' = Source(b)
    <3> SUFFICES ASSUME NEW b \in Articles PROVE Source(b)' = Source(b)
      OBVIOUS
    <3>1. ASSUME NEW h \in Tags
          PROVE  /\ Shows(b, h)' <=> Shows(b, h)
                 /\ Shows(b, h) => tag'[h].name = tag[h].name
      <4>1. CASE h # g
        BY <1>1, <4>1 DEF Shows, TablesOK
      <4>2. CASE h = g
        <5>1. tag'[g] = row
          BY <1>1 DEF TablesOK
        <5>2. ~Shows(b, g) /\ ~Shows(b, g)'
          BY <1>1, <1>4, <5>1 DEF Shows, ConcernsSearch, TablesOK
        <5> QED
          BY <4>2, <5>2
      <4> QED
        BY <4>1, <4>2
    <3> QED
      BY <1>1, <3>1, SourceStays DEF NamesStay
  <2> QED
    BY <1>2, <2>1, <2>2 DEF SearchInv
<1> QED
  BY <1>3, <1>4

LEMMA SearchStep ==
  ASSUME SearchInv, SearchNext
  PROVE  SearchInv'
  BY UpsertArticleIndexed, DeleteArticleIndexed, AttachTagIndexed, DetachTagIndexed,
     MoveTagIndexed, DeleteFeedIndexed, LabelsIndexed, DeleteTagIndexed, SaveTagIndexed
     DEF SearchNext

LEMMA SearchStutters ==
  ASSUME SearchInv, UNCHANGED searchVars
  PROVE  SearchInv'
<1>1. \A a \in Articles : Source(a)' = Source(a)
  BY DEF searchVars, Source, DisplayTitle
<1> QED
  BY <1>1 DEF SearchInv, TablesOK, searchVars

LEMMA ListsStep ==
  ASSUME ListsInv, [ListsNext]_listVars
  PROVE  ListsInv'
<1>1. CASE SearchNext /\ EnsureDefaultUserState
  BY <1>1, SearchStep DEF ListsInv, EnsureDefaultUserState
<1>2. ASSUME NEW a \in Articles, NEW state \in UserStates, SaveUserState(a, state)
      PROVE  ListsInv'
  BY <1>2, SearchStutters DEF ListsInv, SaveUserState
<1>3. CASE UNCHANGED listVars
  BY <1>3, SearchStutters DEF ListsInv, listVars
<1> QED
  BY <1>1, <1>2, <1>3 DEF ListsNext

LEMMA ListsInitial ==
  ASSUME ListsInit
  PROVE  ListsInv
  BY DEF ListsInit, SearchInit, ListsInv, SearchInv, TablesOK, Source

THEOREM ListsInvariance == ListsSpec => []ListsInv
<1>1. ListsInit => ListsInv
  BY ListsInitial
<1>2. ListsInv /\ [ListsNext]_listVars => ListsInv'
  BY ListsStep
<1> QED
  BY <1>1, <1>2, PTL DEF ListsSpec

(* Whatever is written and cascades, the rows the triggers leave are those *)
(* the view gives, and both ways to search find the same.                  *)
THEOREM IndexIsKept == ListsSpec => [](ListsTypeOK /\ IndexIsSource)
<1>1. ListsInv => ListsTypeOK /\ IndexIsSource
  <2> SUFFICES ASSUME ListsInv PROVE ListsTypeOK /\ IndexIsSource
    OBVIOUS
  <2>1. TablesOK /\ \A a \in Articles : entry[a] = Source(a)
    BY DEF ListsInv, SearchInv
  <2>2. entry \in [Articles -> Entry \cup {NoRow}]
    BY <2>1, SourceIsEntry DEF ListsInv, SearchInv
  <2>3. \A a \in Articles : Source(a) # NoRow <=> article[a] # NoRow
    BY <2>1, SourceIsEntry
  <2>4. \A a \in Articles : Source(a) # NoRow => Source(a).feed_id = article[a].feed_id
    BY DEF Source
  <2>5. IndexIsSource
    BY <2>1, <2>3, <2>4 DEF IndexIsSource, SearchArticleIds, FindArticles, Matches
  <2> QED
    BY <2>1, <2>2, <2>5 DEF ListsInv, ListsTypeOK, SearchTypeOK, TablesOK
<1> QED
  BY <1>1, ListsInvariance, PTL

LEMMA StatesAreRows ==
  ASSUME ListsInv, NEW a \in Articles
  PROVE  UserStateOf(a) \in UserStateRow
<1>1. DefaultUserState \in UserStateRow
  BY DEF DefaultUserState, UserStateRow
<1>2. userState[a] \in UserStateRow \cup {DefaultUserState, NoRow}
  BY ListAssumption DEF ListsInv
<1> QED
  BY <1>1, <1>2 DEF UserStateOf

(* Every article is in a feed, and listed for it.                          *)
LEMMA ListedOfFeed ==
  ASSUME ListsInv, NEW f \in Feeds
  PROVE  /\ Listed(NoRow, {f}, "all") = ArticlesOf(f)
         /\ Listed(NoRow, {f}, "unread")
              = {a \in ArticlesOf(f) : UserStateOf(a).read_state = "unread"}
<1>1. \A a \in Articles : article[a] # NoRow => feed[article[a].feed_id] # NoRow
  BY DEF ListsInv, SearchInv, TablesOK
<1>2. \A a : Passes(UserStateOf(a), "all")
  BY DEF Passes
<1>3. \A a : Passes(UserStateOf(a), "unread") <=> UserStateOf(a).read_state = "unread"
  BY DEF Passes
<1> QED
  BY <1>1, <1>2, <1>3 DEF Listed, ArticlesOf

LEMMA CountsFollow ==
  ASSUME ListsInv
  PROVE  CountsAreOfLists
<1> SUFFICES ASSUME NEW f \in Feeds
             PROVE  /\ ListFeed(f).article_count = Cardinality(Listed(NoRow, {f}, "all"))
                    /\ ListFeed(f).article_count # 0 =>
                         ListFeed(f).unread_count = Cardinality(Listed(NoRow, {f}, "unread"))
  BY DEF CountsAreOfLists
<1> DEFINE rows   == IF ArticlesOf(f) = {} THEN {NoRow} ELSE ArticlesOf(f)
           unread == {a \in rows : a = NoRow \/ UserStateOf(a).read_state = "unread"}
<1>1. NoRow \notin ArticlesOf(f)
  BY ListAssumption DEF ArticlesOf
<1>2. rows \ {NoRow} = ArticlesOf(f)
  BY <1>1
<1>3. ArticlesOf(f) # {} => unread = {a \in ArticlesOf(f) : UserStateOf(a).read_state = "unread"}
  BY <1>1
<1>4. /\ ListFeed(f).article_count = Cardinality(rows \ {NoRow})
      /\ ListFeed(f).unread_count = Cardinality(unread)
  BY DEF ListFeed
<1> HIDE DEF rows, unread
<1>5. ListFeed(f).article_count # 0 => ArticlesOf(f) # {}
  BY <1>2, <1>4, FS_EmptySet
<1> QED
  BY <1>2, <1>3, <1>4, <1>5, ListedOfFeed

LEMMA TagsFollow ==
  ASSUME ListsInv, NEW a \in Articles
  PROVE  /\ LoadArticleTags(a) = LoadArticleTagIds(a)
         /\ LoadArticleTags(a) \subseteq Tags
<1>1. /\ attached \subseteq Articles \X Tags
      /\ \A g \in Tags : <<a, g>> \in attached => tag[g] # NoRow
  BY DEF ListsInv, SearchInv, TablesOK
<1>2. ASSUME NEW g \in LoadArticleTags(a)
      PROVE  g \in LoadArticleTagIds(a)
  <2>1. <<a, g>> \in {q \in attached : q[1] = a} /\ <<a, g>>[2] = g
    BY <1>2 DEF LoadArticleTags
  <2> QED
    BY <2>1 DEF LoadArticleTagIds
<1>3. ASSUME NEW g \in LoadArticleTagIds(a)
      PROVE  g \in LoadArticleTags(a)
  <2>1. PICK p \in attached : p[1] = a /\ p[2] = g
    BY <1>3 DEF LoadArticleTagIds
  <2>2. p = <<a, g>> /\ g \in Tags
    BY <1>1, <2>1
  <2> QED
    BY <1>1, <2>2 DEF LoadArticleTags
<1> QED
  BY <1>2, <1>3 DEF LoadArticleTags

(* The details of an article that has a row.                               *)
LEMMA DetailOfRow ==
  ASSUME ListsInv, NEW a \in Articles
  PROVE  /\ GetArticleDetail(a) # NoRow <=> article[a] # NoRow
         /\ article[a] # NoRow =>
              /\ GetArticleDetail(a)
                   = [feed_id |-> article[a].feed_id,
                      feed_title |-> DisplayTitle(feed[article[a].feed_id]),
                      title |-> article[a].text, state |-> UserStateOf(a),
                      tags |-> LoadArticleTags(a)]
              /\ GetArticleDetail(a) \in ArticleDetail
<1>1. CASE article[a] = NoRow
  BY <1>1 DEF GetArticleDetail
<1>2. CASE article[a] # NoRow
  <2>1. /\ article[a] \in ArticleRow /\ feed[article[a].feed_id] # NoRow
        /\ article[a].feed_id \in Feeds /\ article[a].text \in Words
    BY <1>2 DEF ListsInv, SearchInv, TablesOK, ArticleRow
  <2>2. feed[article[a].feed_id] \in FeedRow
    BY <2>1 DEF ListsInv, SearchInv, TablesOK
  <2>3. DisplayTitle(feed[article[a].feed_id]) \in Words
    BY <2>2, SearchAssumption DEF DisplayTitle, FeedRow
  <2> DEFINE detail == [feed_id |-> article[a].feed_id,
                        feed_title |-> DisplayTitle(feed[article[a].feed_id]),
                        title |-> article[a].text, state |-> UserStateOf(a),
                        tags |-> LoadArticleTags(a)]
  <2>4. detail \in ArticleDetail
    BY <2>1, <2>3, StatesAreRows, TagsFollow DEF ArticleDetail
  <2>5. GetArticleDetail(a) = detail
    BY <1>2, <2>1 DEF GetArticleDetail
  <2> QED
    BY <1>2, <2>4, <2>5, ListAssumption
<1> QED
  BY <1>1, <1>2

LEMMA DetailsFollow ==
  ASSUME ListsInv
  PROVE  DetailsAreOfLists
<1> SUFFICES ASSUME NEW a \in Articles
             PROVE  /\ GetArticleDetail(a) # NoRow <=> a \in Listed(NoRow, {}, "all")
                    /\ GetArticleDetail(a) # NoRow =>
                         LET detail == GetArticleDetail(a)
                             item   == ListItem(a)
                         IN  /\ <<detail.feed_id, detail.feed_title, detail.title, detail.tags>>
                                  = <<item.feed_id, item.feed_title, item.title, item.tag_ids>>
                             /\ \A f \in {"read_state", "starred", "importance", "read_later"} :
                                  detail.state[f] = item.state[f]
  BY DEF DetailsAreOfLists
<1>1. a \in Listed(NoRow, {}, "all") <=> article[a] # NoRow
  BY DEF Listed, Passes, ListsInv, SearchInv, TablesOK
<1>2. ASSUME article[a] # NoRow
      PROVE  /\ GetArticleDetail(a).feed_id = ListItem(a).feed_id
             /\ GetArticleDetail(a).feed_title = ListItem(a).feed_title
             /\ GetArticleDetail(a).title = ListItem(a).title
             /\ GetArticleDetail(a).tags = ListItem(a).tag_ids
             /\ GetArticleDetail(a).state = UserStateOf(a)
  BY <1>2, DetailOfRow, TagsFollow DEF ListItem
<1>3. \A f \in {"read_state", "starred", "importance", "read_later"} :
        ListItem(a).state[f] = UserStateOf(a)[f]
  <2>1. ListItem(a).state = [UserStateOf(a) EXCEPT
                !.liked = FALSE,
                !.reading_progress = DefaultReadingProgress(UserStateOf(a).read_state)]
    BY DEF ListItem
  <2> QED
    BY <2>1, StatesAreRows DEF UserStateRow
<1> QED
  BY <1>1, <1>2, <1>3, DetailOfRow

(* What a search reads of an article is what a list shows of it.           *)
LEMMA MatchedIsShown ==
  ASSUME ListsInv, NEW a \in Articles, article[a] # NoRow, NEW word
  PROVE  Matches(entry[a], word) <=>
           \/ word \in {article[a].text, DisplayTitle(feed[article[a].feed_id])}
           \/ \E g \in LoadArticleTags(a) : tag[g].name = word /\ tag[g].scope = "article"
<1> DEFINE names == {tag[g].name : g \in {h \in Tags : Shows(a, h)}}
<1>1. entry[a] = Source(a) /\ feed[article[a].feed_id] # NoRow /\ entry[a] # NoRow
  BY SourceIsEntry DEF ListsInv, SearchInv, TablesOK
<1>2. entry[a] = [feed_id    |-> article[a].feed_id, text |-> article[a].text,
                  feed_title |-> DisplayTitle(feed[article[a].feed_id]), tag_names |-> names]
  BY <1>1, SourceOfRow
<1>3. word \in names <=> \E g \in LoadArticleTags(a) : tag[g].name = word /\ tag[g].scope = "article"
  BY DEF Shows, LoadArticleTags
<1> HIDE DEF names
<1> QED
  BY <1>1, <1>2, <1>3 DEF Matches

LEMMA FoundFollows ==
  ASSUME ListsInv
  PROVE  FoundIsShown
<1> SUFFICES ASSUME NEW word \in Words, NEW a \in Articles, a \in Listed(word, {}, "all")
             PROVE  \/ word \in {ListItem(a).title, ListItem(a).feed_title}
                    \/ \E g \in ListItem(a).tag_ids : tag[g].name = word
  BY DEF FoundIsShown
<1>1. article[a] # NoRow /\ Matches(entry[a], word)
  BY SearchAssumption DEF Listed
<1>2. /\ ListItem(a).title = article[a].text /\ ListItem(a).tag_ids = LoadArticleTags(a)
      /\ ListItem(a).feed_title = DisplayTitle(feed[article[a].feed_id])
  BY TagsFollow DEF ListItem
<1>3. \/ word \in {article[a].text, DisplayTitle(feed[article[a].feed_id])}
      \/ \E g \in LoadArticleTags(a) : tag[g].name = word
  BY <1>1, MatchedIsShown
<1> HIDE DEF ListItem
<1> QED
  BY <1>2, <1>3

(* The head of a sequence of each element of a set once.                   *)
Heads(list, limit) == SubSeq(list, 1, IF Len(list) < limit THEN Len(list) ELSE limit)

LEMMA HeadOfSet ==
  ASSUME NEW S, IsFiniteSet(S), NEW list \in SetToSeqs(S), NEW limit \in Nat
  PROVE  LET answer == Heads(list, limit)
             shown  == {answer[i] : i \in DOMAIN answer}
         IN  /\ list \in Seq(S) /\ answer \in Seq(S)
             /\ Len(answer) <= Len(list)
             /\ \A i \in 1 .. Len(answer) : answer[i] = list[i]
             /\ Cardinality(shown) = Len(answer)
             /\ Len(answer) < limit => shown = S
<1> DEFINE n == Cardinality(S)
           m == IF n < limit THEN n ELSE limit
           answer == SubSeq(list, 1, m)
           shown  == {answer[i] : i \in DOMAIN answer}
<1>1. n \in Nat
  BY FS_CardinalityType
<1>2. /\ list \in [1 .. n -> S]
      /\ \A i, j \in 1 .. n : i # j => list[i] # list[j]
  BY Zenon DEF SetToSeqs
<1> HIDE DEF n
<1>3. /\ list \in Seq(S) /\ Len(list) = n
      /\ Heads(list, limit) = answer
  <2>1. list \in Seq(S) /\ Len(list) = n
    BY <1>1, <1>2, IsASeq
  <2> QED
    BY <2>1 DEF Heads
<1>4. m \in 0 .. n /\ m <= limit
  BY <1>1
<1>5. m < limit => m = n
  BY <1>1
<1> HIDE DEF m
<1>6. /\ answer \in Seq(S) /\ Len(answer) = m
      /\ \A i \in 1 .. m : answer[i] = list[i]
  <2>1. \A i \in 1 .. m : list[i] \in S
    BY <1>1, <1>2, <1>4
  <2>2. /\ SubSeq(list, 1, m) \in Seq(S)
        /\ Len(SubSeq(list, 1, m)) = IF 1 <= m THEN m - 1 + 1 ELSE 0
        /\ \A i \in 1 .. m - 1 + 1 : SubSeq(list, 1, m)[i] = list[1 + i - 1]
    BY <1>1, <1>4, <2>1, SubSeqProperties
  <2> QED
    BY <1>4, <2>2
<1> HIDE DEF answer
<1>7. answer \in [1 .. m -> S] /\ DOMAIN answer = 1 .. m
  BY <1>6
<1>8. answer \in [1 .. m -> shown]
  BY <1>7
<1>9. /\ answer \in Surjection(1 .. m, shown)
      /\ answer \in Injection(1 .. m, shown)
  <2>1. \A t \in shown : \E i \in 1 .. m : answer[i] = t
    BY <1>7
  <2>2. \A i, j \in 1 .. m : answer[i] = answer[j] => i = j
    <3>1. 1 .. m \subseteq 1 .. n
      BY <1>1, <1>4
    <3> QED
      BY <1>2, <1>6, <3>1
  <2> HIDE DEF shown
  <2> QED
    BY <1>7, <1>8, <2>1, <2>2 DEF Surjection, Injection, IsInjective
<1>10. Cardinality(shown) = m
  <2>1. IsFiniteSet(1 .. m) /\ Cardinality(1 .. m) = m
    BY <1>1, <1>4, FS_Interval
  <2> HIDE DEF shown
  <2> QED
    BY <1>9, <2>1, FS_Surjection
<1>11. m < limit => shown = S
  <2>1. shown \subseteq S
    BY <1>7
  <2> HIDE DEF shown
  <2> QED
    BY <1>5, <1>10, <2>1, FS_Subset DEF n
<1> QED
  BY <1>3, <1>4, <1>6, <1>7, <1>10, <1>11

(* An article is listed for a request exactly when its details fit.        *)
LEMMA ListedFits ==
  ASSUME ListsInv, NEW a \in Articles, NEW r \in ApiRequests
  PROVE  Fits(r, a) <=> a \in Listed(r.q, FeedIdsFromRequest(r), ReadFilterFromRequest(r))
<1> DEFINE feeds == FeedIdsFromRequest(r)
           filter == ReadFilterFromRequest(r)
           detail == GetArticleDetail(a)
<1>1. CASE article[a] = NoRow
  BY <1>1, DetailOfRow DEF Fits, Listed
<1>2. CASE article[a] # NoRow
  <2>1. /\ feed[article[a].feed_id] # NoRow /\ article[a].feed_id \in Feeds
    BY <1>2 DEF ListsInv, SearchInv, TablesOK, ArticleRow
  <2>2. /\ detail # NoRow
        /\ detail.feed_id = article[a].feed_id /\ detail.title = article[a].text
        /\ detail.feed_title = DisplayTitle(feed[article[a].feed_id])
        /\ detail.state = UserStateOf(a) /\ detail.tags = LoadArticleTags(a)
    BY <1>2, DetailOfRow
  <2> HIDE DEF detail
  <2>3. \/ r.feedId = {} /\ r.feedIds \subseteq {""}
        \/ detail.feed_id \in r.feedId \cup r.feedIds
        <=> feeds = {} \/ article[a].feed_id \in feeds
    BY <2>1, <2>2, ListAssumption DEF FeedIdsFromRequest
  <2>4. Passes(UserStateOf(a), filter)
          <=> /\ r.status \in {"unread", "reading"} => detail.state.read_state = r.status
              /\ r.status = "starred" => detail.state.starred
              /\ r.status \in {"readLater", "read-later"} => detail.state.read_later
    BY <2>2 DEF Passes, ReadFilterFromRequest
  <2>5. Matches(entry[a], r.q)
          <=> \/ r.q \in {detail.title, detail.feed_title}
              \/ \E g \in detail.tags : tag[g] = [name |-> r.q, scope |-> "article"]
    <3>1. \A g \in LoadArticleTags(a) :
            tag[g] = [name |-> r.q, scope |-> "article"]
              <=> tag[g].name = r.q /\ tag[g].scope = "article"
      <4>1. \A g \in LoadArticleTags(a) : tag[g] \in TagRow
        BY DEF LoadArticleTags, ListsInv, SearchInv, TablesOK
      <4> QED
        BY <4>1 DEF TagRow
    <3>2. (\E g \in LoadArticleTags(a) : tag[g] = [name |-> r.q, scope |-> "article"])
            <=> \E g \in LoadArticleTags(a) : tag[g].name = r.q /\ tag[g].scope = "article"
      BY <3>1
    <3>3. Matches(entry[a], r.q) <=>
            \/ r.q \in {article[a].text, DisplayTitle(feed[article[a].feed_id])}
            \/ \E g \in LoadArticleTags(a) : tag[g].name = r.q /\ tag[g].scope = "article"
      BY <1>2, MatchedIsShown
    <3> QED
      BY <2>2, <3>2, <3>3
  <2> DEFINE passes  == Passes(UserStateOf(a), filter)
             matches == Matches(entry[a], r.q)
             within  == feeds = {} \/ article[a].feed_id \in feeds
  <2>6. a \in Listed(r.q, feeds, filter) <=> (r.q # NoRow => matches) /\ within /\ passes
    BY <1>2, <2>1 DEF Listed
  <2>7. Fits(r, a) <=> (r.q # NoRow => matches) /\ within /\ passes
    <3> HIDE DEF passes, matches, within
    <3>1. Fits(r, a) <=>
            /\ detail # NoRow
            /\ \/ r.feedId = {} /\ r.feedIds \subseteq {""}
               \/ detail.feed_id \in r.feedId \cup r.feedIds
            /\ r.status \in {"unread", "reading"} => detail.state.read_state = r.status
            /\ r.status = "starred" => detail.state.starred
            /\ r.status \in {"readLater", "read-later"} => detail.state.read_later
            /\ r.q # NoRow =>
                 \/ r.q \in {detail.title, detail.feed_title}
                 \/ \E g \in detail.tags : tag[g] = [name |-> r.q, scope |-> "article"]
      BY DEF Fits, detail
    <3> QED
      BY <2>2, <2>3, <2>4, <2>5, <3>1 DEF passes, matches, within
  <2> QED
    BY <2>6, <2>7
<1> QED
  BY <1>1, <1>2

LEMMA RequestsFollow ==
  ASSUME ListsInv
  PROVE  ApiAnswersRequests
<1> DEFINE dates == [a \in Articles |-> NoRow]
<1> SUFFICES ASSUME NEW r \in ApiRequests, NEW answer \in ApiListArticles(dates, r)
             PROVE  LET shown  == {answer[i] : i \in DOMAIN answer}
                        queues == LoadReaderQueue(dates, r.q, FeedIdsFromRequest(r),
                                    ReadFilterFromRequest(r), SortFromRequest(r))
                    IN  /\ \E queue \in queues :
                             IsPrefix([i \in DOMAIN answer |-> ListItem(answer[i])], queue)
                        /\ \A a \in shown : Fits(r, a)
                        /\ Cardinality(shown) = Len(answer)
                        /\ Len(answer) < LimitFromRequest(r) =>
                             \A a \in Articles : Fits(r, a) => a \in shown
  BY Zenon DEF ApiAnswersRequests
<1> DEFINE S     == Listed(r.q, FeedIdsFromRequest(r), ReadFilterFromRequest(r))
           limit == LimitFromRequest(r)
           lists == ListArticles(dates, r.q, FeedIdsFromRequest(r), ReadFilterFromRequest(r),
                                 SortFromRequest(r))
           shown == {answer[i] : i \in DOMAIN answer}
<1>1. S \subseteq Articles /\ IsFiniteSet(S)
  <2>1. S \subseteq Articles
    BY DEF Listed
  <2> QED
    BY <2>1, ListAssumption, FS_Subset
<1>2. limit \in Nat
  <2>1. r.limit \in Int \cup {NoRow} /\ DefaultLimit \in Nat /\ MaxLimit \in Nat
    BY ListAssumption
  <2> DEFINE asked == IF r.limit = NoRow \/ r.limit < 0 THEN DefaultLimit ELSE r.limit
  <2>2. asked \in Int
    BY <2>1
  <2>3. limit = CASE asked < 1 -> 1 [] asked > MaxLimit -> MaxLimit [] OTHER -> asked
    BY DEF LimitFromRequest
  <2> HIDE DEF asked, limit
  <2> QED
    BY <2>1, <2>2, <2>3
<1>3. PICK list \in lists : answer = Heads(list, limit)
  BY Zenon DEF ApiListArticles, Heads
<1>4. list \in SetToSeqs(S)
  BY Zenon DEF ListArticles
<1> HIDE DEF S, limit
<1>5. /\ list \in Seq(S) /\ answer \in Seq(S)
      /\ Len(answer) <= Len(list)
      /\ \A i \in 1 .. Len(answer) : answer[i] = list[i]
      /\ Cardinality(shown) = Len(answer)
      /\ Len(answer) < limit => shown = S
  BY <1>1, <1>2, <1>3, <1>4, HeadOfSet
<1>6. \A a \in S : Fits(r, a)
  BY <1>1, ListedFits DEF S
<1>7. \A a \in Articles : Fits(r, a) => a \in S
  BY ListedFits DEF S
<1>8. shown \subseteq S
  BY <1>5
<1>9. \E queue \in LoadReaderQueue(dates, r.q, FeedIdsFromRequest(r),
                                   ReadFilterFromRequest(r), SortFromRequest(r)) :
        IsPrefix([i \in DOMAIN answer |-> ListItem(answer[i])], queue)
  <2> DEFINE queue == [i \in DOMAIN list |-> ListItem(list[i])]
             head  == [i \in DOMAIN answer |-> ListItem(answer[i])]
             Items == {ListItem(a) : a \in S}
  <2>1. queue \in LoadReaderQueue(dates, r.q, FeedIdsFromRequest(r),
                                  ReadFilterFromRequest(r), SortFromRequest(r))
    BY Zenon DEF LoadReaderQueue
  <2>2. DOMAIN list = 1 .. Len(list) /\ DOMAIN answer = 1 .. Len(answer)
        /\ Len(list) \in Nat /\ Len(answer) \in Nat
    BY <1>5
  <2>3. /\ queue \in Seq(Items) /\ Len(queue) = Len(list)
        /\ head \in Seq(Items) /\ Len(head) = Len(answer)
    <3>1. \A i \in 1 .. Len(list) : ListItem(list[i]) \in Items
      BY <1>5, ElementOfSeq
    <3>2. \A i \in 1 .. Len(answer) : ListItem(answer[i]) \in Items
      BY <1>5, ElementOfSeq
    <3> HIDE DEF Items
    <3>3. queue \in [1 .. Len(list) -> Items] /\ head \in [1 .. Len(answer) -> Items]
      BY <2>2, <3>1, <3>2
    <3> HIDE DEF queue, head
    <3> QED
      BY <2>2, <3>3, IsASeq
  <2>4. \A i \in 1 .. Len(head) : head[i] = queue[i]
    <3>1. \A i \in 1 .. Len(answer) : head[i] = ListItem(answer[i])
      BY <2>2
    <3>2. \A i \in 1 .. Len(list) : queue[i] = ListItem(list[i])
      BY <2>2
    <3>3. 1 .. Len(answer) \subseteq 1 .. Len(list)
      <4> DEFINE k == Len(answer)
                 n == Len(list)
      <4>1. k \in Nat /\ n \in Nat /\ k <= n
        BY <1>5, <2>2
      <4> HIDE DEF k, n
      <4>2. 1 .. k \subseteq 1 .. n
        BY <4>1
      <4> QED
        BY <4>2 DEF k, n
    <3> HIDE DEF queue, head
    <3> QED
      BY <1>5, <2>3, <3>1, <3>2, <3>3
  <2> HIDE DEF queue, head, Items
  <2>5. IsPrefix(head, queue)
    <3>1. /\ SubSeq(head, 1, Len(head)) \in Seq(Items)
          /\ Len(SubSeq(head, 1, Len(head))) = Len(head)
          /\ \A i \in 1 .. Len(head) : SubSeq(head, 1, Len(head))[i] = head[i]
      BY <2>2, <2>3
    <3>2. /\ SubSeq(queue, 1, Len(head)) \in Seq(Items)
          /\ Len(SubSeq(queue, 1, Len(head))) = Len(head)
          /\ \A i \in 1 .. Len(head) : SubSeq(queue, 1, Len(head))[i] = queue[i]
      <4> DEFINE k == Len(head)
      <4>1. k \in Nat /\ \A i \in 1 .. k : queue[i] \in Items
        <5> DEFINE n == Len(queue)
        <5>1. n \in Nat /\ k \in Nat /\ k <= n
          BY <1>5, <2>2, <2>3
        <5>2. \A i \in 1 .. n : queue[i] \in Items
          BY <2>3, ElementOfSeq
        <5> HIDE DEF k, n
        <5> QED
          BY <5>1, <5>2
      <4> HIDE DEF k
      <4>2. /\ SubSeq(queue, 1, k) \in Seq(Items)
            /\ Len(SubSeq(queue, 1, k)) = IF 1 <= k THEN k - 1 + 1 ELSE 0
            /\ \A i \in 1 .. k - 1 + 1 : SubSeq(queue, 1, k)[i] = queue[1 + i - 1]
        BY <4>1, SubSeqProperties
      <4> QED
        BY <4>1, <4>2 DEF k
    <3>3. SubSeq(head, 1, Len(head)) = SubSeq(queue, 1, Len(head))
      BY <2>4, <3>1, <3>2, SeqEqual
    <3> QED
      BY <1>5, <2>3, <3>3 DEF IsPrefix
  <2> QED
    BY <2>1, <2>5 DEF head
<1> HIDE DEF shown
<1>10. /\ \A a \in shown : Fits(r, a)
       /\ Cardinality(shown) = Len(answer)
       /\ Len(answer) < limit => \A a \in Articles : Fits(r, a) => a \in shown
  BY <1>5, <1>6, <1>7, <1>8
<1> QED
  BY <1>9, <1>10, Zenon DEF shown, limit

(* A sequence of each element of a set once.                               *)
LEMMA ListOfSet ==
  ASSUME NEW S, IsFiniteSet(S), NEW list \in SetToSeqs(S)
  PROVE  LET n == Cardinality(S)
         IN  /\ n \in Nat /\ list \in [1 .. n -> S]
             /\ \A i, j \in 1 .. n : list[i] = list[j] => i = j
             /\ \A a \in S : \E i \in 1 .. n : list[i] = a
<1> DEFINE n == Cardinality(S)
<1>1. n \in Nat
  BY FS_CardinalityType
<1>2. /\ list \in [1 .. n -> S]
      /\ \A i, j \in 1 .. n : i # j => list[i] # list[j]
  BY Zenon DEF SetToSeqs
<1>3. list \in Injection(1 .. n, S)
  <2> HIDE DEF n
  <2> QED
    BY <1>2 DEF Injection, IsInjective
<1>4. IsFiniteSet(1 .. n) /\ Cardinality(1 .. n) = n
  <2> HIDE DEF n
  <2> QED
    BY <1>1, FS_Interval
<1>5. list \in Surjection(1 .. n, S)
  BY <1>3, <1>4, FS_Injection
<1>6. \A a \in S : \E i \in 1 .. n : list[i] = a
  <2> HIDE DEF n
  <2> QED
    BY <1>5 DEF Surjection
<1> QED
  BY <1>1, <1>2, <1>6

(* The elements that have a date come first, as many as there are.         *)
LEMMA DatedFirst ==
  ASSUME NEW S, IsFiniteSet(S), NEW list \in SetToSeqs(S), NEW D \in SUBSET S,
         \A i, j \in DOMAIN list : i < j /\ list[j] \in D => list[i] \in D
  PROVE  LET n == Cardinality(D)
         IN  /\ n \in Nat
             /\ {i \in DOMAIN list : list[i] \in D} = 1 .. n
             /\ 1 .. n \subseteq DOMAIN list
             /\ \A i, j \in 1 .. n : list[i] = list[j] => i = j
             /\ \A a \in D : \E i \in 1 .. n : list[i] = a
<1> DEFINE n == Cardinality(D)
           m == Cardinality(S)
           dated == {i \in DOMAIN list : list[i] \in D}
<1>1. /\ m \in Nat /\ DOMAIN list = 1 .. m
      /\ \A i, j \in 1 .. m : list[i] = list[j] => i = j
      /\ \A a \in S : \E i \in 1 .. m : list[i] = a
  <2>1. /\ m \in Nat /\ list \in [1 .. m -> S]
        /\ \A i, j \in 1 .. m : list[i] = list[j] => i = j
        /\ \A a \in S : \E i \in 1 .. m : list[i] = a
    BY ListOfSet
  <2> HIDE DEF m
  <2> QED
    BY <2>1
<1>2. IsFiniteSet(D) /\ n \in Nat
  BY FS_Subset, FS_CardinalityType
<1> HIDE DEF m, n
<1>3. IsFiniteSet(dated) /\ Cardinality(dated) = n
  <2> DEFINE f == [i \in dated |-> list[i]]
  <2>1. IsFiniteSet(1 .. m) /\ dated \in SUBSET (1 .. m)
    BY <1>1, FS_Interval
  <2>2. IsFiniteSet(dated)
    BY <2>1, FS_Subset
  <2>3. f \in Surjection(dated, D) /\ f \in Injection(dated, D)
    <3>1. f \in [dated -> D]
      OBVIOUS
    <3>2. \A a \in D : \E i \in dated : f[i] = a
      BY <1>1
    <3>3. \A i, j \in dated : f[i] = f[j] => i = j
      BY <1>1
    <3> HIDE DEF f, dated
    <3> QED
      BY <3>1, <3>2, <3>3 DEF Surjection, Injection, IsInjective
  <2> HIDE DEF f, dated
  <2> QED
    BY <2>2, <2>3, FS_Surjection DEF n
<1>4. \A i \in dated : i <= n
  <2> TAKE i \in dated
  <2>1. i \in Nat /\ 1 .. i \subseteq dated
    BY <1>1
  <2>2. Cardinality(1 .. i) = i
    BY <2>1, FS_Interval
  <2> HIDE DEF dated
  <2>3. Cardinality(1 .. i) <= Cardinality(dated)
    BY <1>3, <2>1, FS_Subset
  <2> QED
    BY <1>3, <2>2, <2>3
<1>5. dated \in SUBSET (1 .. n)
  BY <1>1, <1>4
<1>6. dated = 1 .. n
  <2>1. IsFiniteSet(1 .. n) /\ Cardinality(1 .. n) = n
    BY <1>2, FS_Interval
  <2> HIDE DEF dated
  <2> QED
    BY <1>3, <1>5, <2>1, FS_Subset
<1>7. \A a \in D : \E i \in dated : list[i] = a
  BY <1>1
<1>8. dated \subseteq DOMAIN list /\ \A i, j \in dated : list[i] = list[j] => i = j
  BY <1>1
<1> HIDE DEF dated
<1>9. /\ 1 .. n \subseteq DOMAIN list
      /\ \A i, j \in 1 .. n : list[i] = list[j] => i = j
      /\ \A a \in D : \E i \in 1 .. n : list[i] = a
  BY <1>6, <1>7, <1>8
<1> QED
  BY <1>2, <1>6, <1>9 DEF n, dated

(* The elements of one order are those of another, g says where; g has no  *)
(* place twice; p has each element once; weights fall, and rise.           *)
Placed(p, q, g) == \A l \in DOMAIN p : g[l] \in DOMAIN q /\ p[l] = q[g[l]]
Permutes(g, n) ==
  g \in [1 .. n -> 1 .. n] /\ \A i, j \in 1 .. n : g[i] = g[j] => i = j
Enumerates(p, n, D) ==
  /\ \A i \in 1 .. n : p[i] \in D
  /\ \A i, j \in 1 .. n : p[i] = p[j] => i = j
  /\ \A a \in D : \E i \in 1 .. n : p[i] = a
Falls(u) == \A i, j \in DOMAIN u : i < j => u[j] <= u[i]
Rises(v) == \A i, j \in DOMAIN v : i < j => v[i] <= v[j]

(* What weighs at least v[k] is before place i of the falling weights if   *)
(* u[i] is less ...                                                        *)
LEMMA HeavyIsBefore ==
  ASSUME NEW n \in Nat, NEW u \in [1 .. n -> Int], NEW v \in [1 .. n -> Int],
         NEW h, Placed(v, u, h), Falls(u), Rises(v),
         NEW i \in 1 .. n, NEW k \in 1 .. n, u[i] < v[k], NEW l \in k .. n
  PROVE  h[l] \in 1 .. i - 1
<1>1. l \in 1 .. n /\ (k < l \/ k = l)
  OBVIOUS
<1> DEFINE m == h[l]
<1>2. m \in 1 .. n /\ v[l] = u[m]
  BY <1>1 DEF Placed
<1> HIDE DEF m
<1>3. v[l] \in Int /\ v[k] \in Int /\ u[m] \in Int /\ u[i] \in Int
  BY <1>1, <1>2
<1>4. v[k] <= v[l]
  BY <1>1, <1>3 DEF Rises
<1>5. u[i] < v[l]
  BY <1>3, <1>4
<1>6. ASSUME i < m PROVE FALSE
  <2>1. u[m] <= u[i]
    BY <1>2, <1>6 DEF Falls
  <2>2. v[l] <= u[i]
    BY <1>2, <2>1
  <2> QED
    BY <1>3, <1>5, <2>2
<1>7. m # i
  BY <1>2, <1>3, <1>5
<1> QED
  BY <1>2, <1>6, <1>7 DEF m

(* ... and what weighs at least u[i] is after place k of the rising ones   *)
(* if v[k] is less.                                                        *)
LEMMA HeavyIsAfter ==
  ASSUME NEW n \in Nat, NEW u \in [1 .. n -> Int], NEW v \in [1 .. n -> Int],
         NEW g, Placed(u, v, g), Falls(u), Rises(v),
         NEW i \in 1 .. n, NEW k \in 1 .. n, v[k] < u[i], NEW l \in 1 .. i
  PROVE  g[l] \in k + 1 .. n
<1>1. l \in 1 .. n /\ (l < i \/ l = i)
  OBVIOUS
<1> DEFINE m == g[l]
<1>2. m \in 1 .. n /\ u[l] = v[m]
  BY <1>1 DEF Placed
<1> HIDE DEF m
<1>3. u[l] \in Int /\ v[k] \in Int /\ v[m] \in Int /\ u[i] \in Int
  BY <1>1, <1>2
<1>4. u[i] <= u[l]
  BY <1>1, <1>3 DEF Falls
<1>5. v[k] < u[l]
  BY <1>3, <1>4
<1>6. ASSUME m < k PROVE FALSE
  <2>1. v[m] <= v[k]
    BY <1>2, <1>6 DEF Rises
  <2>2. u[l] <= v[k]
    BY <1>2, <2>1
  <2> QED
    BY <1>3, <1>5, <2>2
<1>7. m # k
  BY <1>2, <1>3, <1>5
<1> QED
  BY <1>2, <1>6, <1>7 DEF m

LEMMA IntervalSize ==
  \A a, b \in Int : a <= b + 1 => IsFiniteSet(a .. b) /\ Cardinality(a .. b) = b - a + 1
  BY FS_Interval

(* Such weights of one set are each other's reverse: else more are above   *)
(* some weight than there is room for.                                     *)
LEMMA ReverseOrders ==
  ASSUME NEW n \in Nat, NEW u \in [1 .. n -> Int], NEW v \in [1 .. n -> Int],
         NEW g, Permutes(g, n), NEW h, Permutes(h, n),
         Placed(u, v, g), Placed(v, u, h), Falls(u), Rises(v),
         NEW i \in 1 .. n
  PROVE  u[i] = v[n + 1 - i]
<1> DEFINE k == n + 1 - i
<1>1. k \in 1 .. n /\ n - k + 1 = i
  OBVIOUS
<1>2. u[i] \in Int /\ v[k] \in Int
  BY <1>1
<1> HIDE DEF k
<1>3. ASSUME u[i] < v[k] PROVE FALSE
  <2> DEFINE f == [l \in k .. n |-> h[l]]
  <2>1. \A l \in k .. n : h[l] \in 1 .. i - 1
    BY <1>1, <1>3, HeavyIsBefore
  <2>2. f \in [k .. n -> 1 .. i - 1]
    BY <2>1, Zenon
  <2>3. /\ IsFiniteSet(k .. n) /\ Cardinality(k .. n) = i
        /\ IsFiniteSet(1 .. i - 1) /\ Cardinality(1 .. i - 1) = i - 1
    <3>1. /\ k \in Int /\ n \in Int /\ k <= n + 1 /\ n - k + 1 = i
          /\ i - 1 \in Int /\ 1 <= i - 1 + 1 /\ i - 1 - 1 + 1 = i - 1
      BY <1>1
    <3>2. /\ IsFiniteSet(k .. n) /\ Cardinality(k .. n) = n - k + 1
          /\ IsFiniteSet(1 .. i - 1) /\ Cardinality(1 .. i - 1) = i - 1 - 1 + 1
      BY <3>1, 1 \in Int, IntervalSize, Zenon
    <3> QED
      BY <3>1, <3>2, Zenon
  <2>4. \A x \in k .. n : x \in 1 .. n /\ f[x] = h[x]
    BY <1>1
  <2>5. Cardinality(1 .. i - 1) < Cardinality(k .. n)
    BY <2>3
  <2> HIDE DEF f
  <2>6. PICK x \in k .. n, y \in k .. n : x # y /\ f[x] = f[y]
    BY <2>2, <2>3, <2>5, FS_PigeonHole, Zenon
  <2> QED
    BY <2>4, <2>6, Zenon DEF Permutes
<1>4. ASSUME v[k] < u[i] PROVE FALSE
  <2> DEFINE f == [l \in 1 .. i |-> g[l]]
  <2>1. \A l \in 1 .. i : g[l] \in k + 1 .. n
    BY <1>1, <1>4, HeavyIsAfter
  <2>2. f \in [1 .. i -> k + 1 .. n]
    BY <2>1, Zenon
  <2>3. /\ IsFiniteSet(1 .. i) /\ Cardinality(1 .. i) = i
        /\ IsFiniteSet(k + 1 .. n) /\ Cardinality(k + 1 .. n) = i - 1
    <3>1. /\ i \in Int /\ 1 <= i + 1 /\ i - 1 + 1 = i
          /\ k + 1 \in Int /\ n \in Int /\ k + 1 <= n + 1 /\ n - (k + 1) + 1 = i - 1
      BY <1>1
    <3>2. /\ IsFiniteSet(1 .. i) /\ Cardinality(1 .. i) = i - 1 + 1
          /\ IsFiniteSet(k + 1 .. n) /\ Cardinality(k + 1 .. n) = n - (k + 1) + 1
      BY <3>1, 1 \in Int, IntervalSize, Zenon
    <3> QED
      BY <3>1, <3>2, Zenon
  <2>4. \A x \in 1 .. i : x \in 1 .. n /\ f[x] = g[x]
    BY <1>1
  <2>5. Cardinality(k + 1 .. n) < Cardinality(1 .. i)
    BY <1>1, <2>3
  <2> HIDE DEF f
  <2>6. PICK x \in 1 .. i, y \in 1 .. i : x # y /\ f[x] = f[y]
    BY <2>2, <2>3, <2>5, FS_PigeonHole, Zenon
  <2> QED
    BY <2>4, <2>6, Zenon DEF Permutes
<1>5. u[i] = v[k]
  BY <1>2, <1>3, <1>4
<1> QED
  BY <1>5 DEF k

(* Where the elements of one enumeration are in another.                   *)
LEMMA PlacesElsewhere ==
  ASSUME NEW n, NEW D, NEW p, NEW q, Enumerates(p, n, D), Enumerates(q, n, D)
  PROVE  \E g : Permutes(g, n) /\ \A i \in 1 .. n : q[g[i]] = p[i]
<1> DEFINE g == [i \in 1 .. n |-> CHOOSE m \in 1 .. n : q[m] = p[i]]
<1>1. ASSUME NEW i \in 1 .. n
      PROVE  g[i] \in 1 .. n /\ q[g[i]] = p[i]
  <2>1. \E m \in 1 .. n : q[m] = p[i]
    BY Zenon DEF Enumerates
  <2>2. g[i] = CHOOSE m \in 1 .. n : q[m] = p[i]
    BY Zenon
  <2> QED
    BY <2>1, <2>2, Zenon
<1>2. g \in [1 .. n -> 1 .. n]
  BY <1>1, Zenon
<1> HIDE DEF g
<1>3. ASSUME NEW i \in 1 .. n, NEW j \in 1 .. n, g[i] = g[j]
      PROVE  i = j
  <2>1. p[i] = p[j]
    BY <1>1, <1>3, Zenon
  <2> QED
    BY <2>1, Zenon DEF Enumerates
<1>4. Permutes(g, n)
  BY <1>2, <1>3, Zenon DEF Permutes
<1> QED
  BY <1>1, <1>4, Zenon

LEMMA OrdersFollow == OrdersAreReverse
<1> SUFFICES ASSUME NEW dates \in [Articles -> Times \cup {NoRow}],
                    NEW newest \in ListArticles(dates, NoRow, {}, "all", "newest"),
                    NEW oldest \in ListArticles(dates, NoRow, {}, "all", "oldest")
             PROVE  LET Dated(list) == {i \in DOMAIN list : dates[list[i]] # NoRow}
                        n == Cardinality({a \in Listed(NoRow, {}, "all") : dates[a] # NoRow})
                    IN  /\ Dated(newest) = 1 .. n /\ Dated(oldest) = 1 .. n
                        /\ \A i \in 1 .. n : dates[newest[i]] = dates[oldest[n + 1 - i]]
  BY Zenon DEF OrdersAreReverse
<1> DEFINE S == Listed(NoRow, {}, "all")
           D == {a \in S : dates[a] # NoRow}
           n == Cardinality(D)
<1>1. S \subseteq Articles /\ IsFiniteSet(S)
  <2>1. S \subseteq Articles
    BY DEF Listed
  <2> QED
    BY <2>1, ListAssumption, FS_Subset
<1>2. /\ newest \in SetToSeqs(S)
      /\ \A i, j \in DOMAIN newest : i < j => ~Precedes(dates, "newest", newest[j], newest[i])
  BY Zenon DEF ListArticles
<1>3. /\ oldest \in SetToSeqs(S)
      /\ \A i, j \in DOMAIN oldest : i < j => ~Precedes(dates, "oldest", oldest[j], oldest[i])
  BY Zenon DEF ListArticles
<1> HIDE DEF S
<1>4. /\ \A i \in DOMAIN newest : newest[i] \in S
      /\ \A i \in DOMAIN oldest : oldest[i] \in S
  <2>1. newest \in [1 .. Cardinality(S) -> S] /\ oldest \in [1 .. Cardinality(S) -> S]
    BY <1>1, <1>2, <1>3, ListOfSet
  <2> QED
    BY <2>1
<1>5. D \in SUBSET S
  OBVIOUS
<1>6. /\ \A i, j \in DOMAIN newest : i < j /\ newest[j] \in D => newest[i] \in D
      /\ \A i, j \in DOMAIN oldest : i < j /\ oldest[j] \in D => oldest[i] \in D
  BY <1>2, <1>3, <1>4 DEF Precedes
<1>7. \A a \in D : dates[a] \in Int
  BY <1>1, ListAssumption
<1>8. /\ \A i \in DOMAIN newest : newest[i] \in D <=> dates[newest[i]] # NoRow
      /\ \A i \in DOMAIN oldest : oldest[i] \in D <=> dates[oldest[i]] # NoRow
  BY <1>4
<1> HIDE DEF D
<1>9. /\ n \in Nat
      /\ {i \in DOMAIN newest : newest[i] \in D} = 1 .. n
      /\ 1 .. n \subseteq DOMAIN newest
      /\ \A i, j \in 1 .. n : newest[i] = newest[j] => i = j
      /\ \A a \in D : \E i \in 1 .. n : newest[i] = a
  BY <1>1, <1>2, <1>5, <1>6, DatedFirst
<1>10. /\ {i \in DOMAIN oldest : oldest[i] \in D} = 1 .. n
       /\ 1 .. n \subseteq DOMAIN oldest
       /\ \A i, j \in 1 .. n : oldest[i] = oldest[j] => i = j
       /\ \A a \in D : \E i \in 1 .. n : oldest[i] = a
  BY <1>1, <1>3, <1>5, <1>6, DatedFirst
<1> HIDE DEF n
<1> DEFINE u == [i \in 1 .. n |-> dates[newest[i]]]
           v == [i \in 1 .. n |-> dates[oldest[i]]]
<1>11. u \in [1 .. n -> Int] /\ v \in [1 .. n -> Int]
  BY <1>7, <1>9, <1>10
<1>12. \A i, j \in 1 .. n : i < j => u[j] <= u[i]
  <2> SUFFICES ASSUME NEW i \in 1 .. n, NEW j \in 1 .. n, i < j
               PROVE  dates[newest[j]] <= dates[newest[i]]
    BY <1>9
  <2>1. i \in DOMAIN newest /\ j \in DOMAIN newest /\ newest[i] \in D /\ newest[j] \in D
    BY <1>9
  <2>2. ~Precedes(dates, "newest", newest[j], newest[i])
    BY <1>2, <2>1
  <2>3. dates[newest[i]] \in Int /\ dates[newest[j]] \in Int
    BY <1>7, <2>1
  <2>4. dates[newest[j]] # NoRow
    BY <1>8, <2>1
  <2> QED
    BY <2>2, <2>3, <2>4 DEF Precedes
<1>13. \A i, j \in 1 .. n : i < j => v[i] <= v[j]
  <2> SUFFICES ASSUME NEW i \in 1 .. n, NEW j \in 1 .. n, i < j
               PROVE  dates[oldest[i]] <= dates[oldest[j]]
    BY <1>10
  <2>1. i \in DOMAIN oldest /\ j \in DOMAIN oldest /\ oldest[i] \in D /\ oldest[j] \in D
    BY <1>10
  <2>2. ~Precedes(dates, "oldest", oldest[j], oldest[i])
    BY <1>3, <2>1
  <2>3. dates[oldest[i]] \in Int /\ dates[oldest[j]] \in Int
    BY <1>7, <2>1
  <2>4. dates[oldest[j]] # NoRow
    BY <1>8, <2>1
  <2> QED
    BY <2>2, <2>3, <2>4 DEF Precedes
<1>14. Enumerates(newest, n, D) /\ Enumerates(oldest, n, D)
  <2>1. \A i \in 1 .. n : newest[i] \in D /\ oldest[i] \in D
    BY <1>9, <1>10
  <2> QED
    BY <1>9, <1>10, <2>1, Zenon DEF Enumerates
<1>15. PICK g : Permutes(g, n) /\ \A i \in 1 .. n : oldest[g[i]] = newest[i]
  BY <1>14, PlacesElsewhere
<1>16. PICK h : Permutes(h, n) /\ \A i \in 1 .. n : newest[h[i]] = oldest[i]
  BY <1>14, PlacesElsewhere
<1>17. Placed(u, v, g) /\ Placed(v, u, h)
  <2>1. /\ DOMAIN u = 1 .. n /\ DOMAIN v = 1 .. n
        /\ \A i \in 1 .. n : u[i] = dates[newest[i]] /\ v[i] = dates[oldest[i]]
    OBVIOUS
  <2>2. \A i \in 1 .. n : g[i] \in 1 .. n /\ h[i] \in 1 .. n
    BY <1>15, <1>16, Zenon DEF Permutes
  <2> HIDE DEF u, v
  <2>3. \A i \in 1 .. n : u[i] = v[g[i]]
    <3> TAKE i \in 1 .. n
    <3>1. oldest[g[i]] = newest[i] /\ g[i] \in 1 .. n
      BY <1>15, <2>2, Zenon
    <3> QED
      BY <2>1, <3>1, Zenon
  <2>4. \A i \in 1 .. n : v[i] = u[h[i]]
    <3> TAKE i \in 1 .. n
    <3>1. newest[h[i]] = oldest[i] /\ h[i] \in 1 .. n
      BY <1>16, <2>2, Zenon
    <3> QED
      BY <2>1, <3>1, Zenon
  <2> QED
    BY <2>1, <2>2, <2>3, <2>4, Zenon DEF Placed
<1>18. Falls(u) /\ Rises(v)
  <2>1. DOMAIN u = 1 .. n /\ DOMAIN v = 1 .. n
    OBVIOUS
  <2> QED
    BY <1>12, <1>13, <2>1, Zenon DEF Falls, Rises
<1> HIDE DEF u, v
<1>19. \A i \in 1 .. n : u[i] = v[n + 1 - i]
  <2>1. n \in Nat /\ Permutes(g, n) /\ Permutes(h, n)
    BY <1>9, <1>15, <1>16, Zenon
  <2> QED
    BY <1>11, <1>17, <1>18, <2>1, ReverseOrders
<1>20. \A i \in 1 .. n : dates[newest[i]] = dates[oldest[n + 1 - i]]
  <2> TAKE i \in 1 .. n
  <2>1. n + 1 - i \in 1 .. n
    BY <1>9
  <2> QED
    BY <1>19, <2>1 DEF u, v
<1>21. /\ {i \in DOMAIN newest : dates[newest[i]] # NoRow} = 1 .. n
       /\ {i \in DOMAIN oldest : dates[oldest[i]] # NoRow} = 1 .. n
  <2>1. /\ {i \in DOMAIN newest : dates[newest[i]] # NoRow} = {i \in DOMAIN newest : newest[i] \in D}
        /\ {i \in DOMAIN oldest : dates[oldest[i]] # NoRow} = {i \in DOMAIN oldest : oldest[i] \in D}
    BY <1>8
  <2>2. /\ {i \in DOMAIN newest : newest[i] \in D} = 1 .. n
        /\ {i \in DOMAIN oldest : oldest[i] \in D} = 1 .. n
    BY <1>9, <1>10, Zenon
  <2> QED
    BY <2>1, <2>2, Zenon
<1> QED
  BY <1>21, <1>20 DEF n, D, S

(* Whatever was written, in whatever order: the feeds' counts are those of *)
(* their lists, an article has details exactly when it is listed, both say *)
(* the same of it, and a search shows the word in what it finds.           *)
THEOREM ListsTellTheSame == ListsSpec => [](CountsAreOfLists /\ DetailsAreOfLists /\ FoundIsShown)
<1>1. ListsInv => CountsAreOfLists /\ DetailsAreOfLists /\ FoundIsShown
  BY CountsFollow, DetailsFollow, FoundFollows
<1> QED
  BY <1>1, ListsInvariance, PTL

(* The local API answers a request with what fits it, each once, all of it *)
(* unless the limit is reached, and as the reader's queue begins.          *)
THEOREM RequestsAreAnswered == ListsSpec => []ApiAnswersRequests
<1>1. ListsInv => ApiAnswersRequests
  BY RequestsFollow
<1> QED
  BY <1>1, ListsInvariance, PTL

(* All the queries agree, whatever was written in whatever order: the      *)
(* index with the tables, the counts and the details with the lists, the   *)
(* two orders with each other, and the local API with what it was asked.   *)
THEOREM QueriesAgree == ListsSpec => []ListsAgree
<1>1. ListsInv => CountsAreOfLists /\ DetailsAreOfLists /\ FoundIsShown /\ ApiAnswersRequests
  BY CountsFollow, DetailsFollow, FoundFollows, RequestsFollow
<1>2. IndexIsSource /\ CountsAreOfLists /\ DetailsAreOfLists /\ FoundIsShown /\ ApiAnswersRequests
        => ListsAgree
  BY OrdersFollow DEF ListsAgree
<1> QED
  BY <1>1, <1>2, ListsInvariance, IndexIsKept, PTL

-------------------------------------------------------------------------------
(* FeedPipeline.                                                           *)

AnyAnswer ==
  [status : Nat, etag : {p.etag : p \in Pages} \cup {Missing},
   last_modified : {p.last_modified : p \in Pages} \cup {Missing},
   page : Pages \cup {Missing}]

Outcomes ==
  {"feed", "discovery", "not modified", "permission", "network", "parse", "empty"}

(* The validators of a feed are those of the page it holds.                *)
KeptInv ==
  \/ kept.page = Missing /\ kept.etag = Missing /\ kept.last_modified = Missing
  \/ /\ kept.page \in Pages
     /\ kept.etag = kept.page.etag /\ kept.last_modified = kept.page.last_modified

(* A request has the feed's validators or none.                            *)
SentInv ==
  \/ sent.etag = kept.etag /\ sent.last_modified = kept.last_modified
  \/ sent.etag = Missing /\ sent.last_modified = Missing

AnswersInv ==
  /\ answers \in Seq(AnyAnswer) /\ Len(answers) <= MaxAttempts
  /\ \A i \in 1 .. Len(answers) - 1 : MayRetry(answers[i])
  /\ sent.open /\ answers # <<>> => MayRetry(answers[Len(answers)])
  /\ sent.open => Len(answers) < MaxAttempts
  /\ ~sent.open /\ answers # <<>> /\ MayRetry(answers[Len(answers)])
       => Len(answers) = MaxAttempts /\ outcome = "network"

PipeInv ==
  /\ served \in Pages /\ outcome \in Outcomes \cup {Missing}
  /\ KeptInv /\ SentInv /\ AnswersInv

LEMMA OutcomesAreKnown ==
  ASSUME NEW answer
  PROVE  /\ OutcomeOf(answer) \in Outcomes
         /\ OutcomeOf(answer) = "not modified" <=> answer.status = 304
<1>2. Parsed(answer.page) \in {"parse", "empty", "feed", "discovery"}
  BY Zenon DEF Parsed
<1>3. answer.status = 304 => OutcomeOf(answer) = "not modified"
  BY DEF OutcomeOf
<1> DEFINE body == Parsed(answer.page)
<1>4. ASSUME answer.status # 304
      PROVE  OutcomeOf(answer) \in {"permission", body, "network"}
  <2>1. CASE answer.status \in {401, 403}
    BY <2>1 DEF OutcomeOf
  <2>2. CASE answer.status \in 200 .. 299
    BY <1>4, <2>2 DEF OutcomeOf
  <2>3. CASE answer.status \notin {401, 403} /\ answer.status \notin 200 .. 299
    BY <1>4, <2>3 DEF OutcomeOf
  <2> QED
    BY <2>1, <2>2, <2>3
<1>5. CASE answer.status = 304
  BY <1>3, <1>5 DEF Outcomes
<1>6. CASE answer.status # 304
  BY <1>2, <1>4, <1>6 DEF Outcomes
<1> QED
  BY <1>5, <1>6

LEMMA PossibleAnswersAre ==
  ASSUME served \in Pages, NEW answer \in PossibleAnswers
  PROVE  /\ answer \in AnyAnswer
         /\ MayRetry(answer) => OutcomeOf(answer) = "network"
         /\ answer.status = 304 =>
              /\ Unmodified(served, sent)
              /\ answer.etag \in {Missing, served.etag}
              /\ answer.last_modified \in {Missing, served.last_modified}
         /\ OutcomeOf(answer) = "feed" =>
              /\ answer.page = served /\ answer.etag = served.etag
              /\ answer.last_modified = served.last_modified
<1>1. \/ \E status \in {0, 1, 403, 404, 429, 500, 304} : answer = Bare(status)
      \/ \E status \in {200, 304} : answer = Answered(status, served)
  BY DEF PossibleAnswers
<1>2. answer.status = 304 => Unmodified(served, sent)
  BY DEF PossibleAnswers, Bare, Answered
<1>3. ASSUME NEW status \in {0, 1, 403, 404, 429, 500, 304}, answer = Bare(status)
      PROVE  /\ answer \in AnyAnswer /\ OutcomeOf(answer) # "feed"
             /\ MayRetry(answer) => OutcomeOf(answer) = "network"
             /\ answer.etag = Missing /\ answer.last_modified = Missing
  BY <1>3 DEF Bare, AnyAnswer, OutcomeOf, MayRetry
<1>4. ASSUME NEW status \in {200, 304}, answer = Answered(status, served)
      PROVE  /\ answer \in AnyAnswer /\ ~MayRetry(answer)
             /\ answer.page = served /\ answer.etag = served.etag
             /\ answer.last_modified = served.last_modified
  BY <1>4 DEF Answered, AnyAnswer, MayRetry
<1> QED
  BY <1>1, <1>2, <1>3, <1>4

(* What the server calls unmodified, as the feed's validators go, is what  *)
(* the feed holds.                                                         *)
LEMMA UnmodifiedIsHeld ==
  ASSUME KeptInv, served \in Pages, Unmodified(served, kept)
  PROVE  kept.page = served
  BY ValidatorAssumption DEF KeptInv, Unmodified

LEMMA AnswerIsKept ==
  ASSUME PipeInv, NEW answer \in PossibleAnswers, kept' = Kept(answer)
  PROVE  KeptInv'
<1>1. served \in Pages /\ KeptInv /\ SentInv
  BY DEF PipeInv
<1>2. CASE OutcomeOf(answer) = "not modified"
  <2>1. /\ Unmodified(served, sent)
        /\ answer.etag \in {Missing, served.etag}
        /\ answer.last_modified \in {Missing, served.last_modified}
    BY <1>1, <1>2, OutcomesAreKnown, PossibleAnswersAre
  <2>2. /\ sent.etag = kept.etag /\ sent.last_modified = kept.last_modified
        /\ Unmodified(served, kept)
    BY <1>1, <2>1 DEF Unmodified, SentInv
  <2>3. kept.page = served /\ kept.page \in Pages
    BY <1>1, <2>2, UnmodifiedIsHeld
  <2>4. /\ Or(answer.etag, sent.etag) = served.etag
        /\ Or(answer.last_modified, sent.last_modified) = served.last_modified
    BY <1>1, <2>1, <2>2, <2>3, ValidatorAssumption DEF Or, KeptInv
  <2>5. kept' = [kept EXCEPT !.etag = served.etag, !.last_modified = served.last_modified]
    BY <1>2, <2>4 DEF Kept
  <2> QED
    BY <2>3, <2>5 DEF KeptInv
<1>3. CASE OutcomeOf(answer) = "feed"
  <2>1. kept' = [etag |-> answer.etag, last_modified |-> answer.last_modified,
                 page |-> answer.page, articles |-> ReadArticles(answer.page)]
    BY <1>3 DEF Kept
  <2>2. /\ answer.page = served /\ answer.etag = served.etag
        /\ answer.last_modified = served.last_modified
    BY <1>1, <1>3, PossibleAnswersAre
  <2> QED
    BY <1>1, <2>1, <2>2 DEF KeptInv
<1>4. CASE OutcomeOf(answer) \notin {"not modified", "feed"}
  BY <1>1, <1>4 DEF Kept, KeptInv
<1> QED
  BY <1>2, <1>3, <1>4

LEMMA AnswerIsCounted ==
  ASSUME PipeInv, NEW answer \in PossibleAnswers, TakeAnswer(answer)
  PROVE  AnswersInv'
<1> DEFINE n == Len(answers)
<1>1. /\ served \in Pages /\ AnswersInv /\ sent.open
      /\ answers' = Append(answers, answer)
      /\ Retries(answers') => UNCHANGED <<sent, outcome>>
      /\ ~Retries(answers') => ~sent'.open /\ outcome' = OutcomeOf(answer)
  BY DEF PipeInv, TakeAnswer, NoRequest
<1>2. /\ answer \in AnyAnswer
      /\ MayRetry(answer) => OutcomeOf(answer) = "network"
  BY <1>1, PossibleAnswersAre
<1>3. /\ answers \in Seq(AnyAnswer) /\ n \in Nat /\ n < MaxAttempts
      /\ \A i \in 1 .. n : MayRetry(answers[i])
  <2>1. answers \in Seq(AnyAnswer) /\ n \in Nat /\ n < MaxAttempts
    BY <1>1 DEF AnswersInv
  <2>2. \A i \in 1 .. n - 1 : MayRetry(answers[i])
    BY <1>1 DEF AnswersInv
  <2>3. n # 0 => MayRetry(answers[n])
    BY <1>1, <2>1, EmptySeq DEF AnswersInv
  <2> HIDE DEF n
  <2>4. \A i \in 1 .. n : i \in 1 .. n - 1 \/ (n # 0 /\ i = n)
    BY <2>1
  <2> QED
    BY <2>1, <2>2, <2>3, <2>4
<1>4. /\ answers' \in Seq(AnyAnswer) /\ Len(answers') = n + 1
      /\ answers'[n + 1] = answer /\ answers' # <<>>
      /\ \A i \in 1 .. n : answers'[i] = answers[i]
  <2>1. /\ Append(answers, answer) \in Seq(AnyAnswer) /\ Len(Append(answers, answer)) = n + 1
        /\ Append(answers, answer)[n + 1] = answer
        /\ \A i \in 1 .. n : Append(answers, answer)[i] = answers[i]
    BY <1>2, <1>3, AppendProperties
  <2> QED
    BY <1>1, <1>3, <2>1, EmptySeq
<1> HIDE DEF n
<1>5. MaxAttempts \in Nat /\ n + 1 <= MaxAttempts
  BY <1>3, AttemptsAssumption
<1>6. \A i \in 1 .. Len(answers') - 1 : MayRetry(answers'[i])
  BY <1>3, <1>4
<1>7. Retries(answers') <=> MayRetry(answer) /\ n + 1 < MaxAttempts
  BY <1>4 DEF Retries
<1>8. CASE Retries(answers')
  BY <1>1, <1>3, <1>4, <1>5, <1>6, <1>7, <1>8 DEF AnswersInv
<1>9. CASE ~Retries(answers')
  <2>1. MayRetry(answer) => n + 1 = MaxAttempts /\ outcome' = "network"
    BY <1>1, <1>2, <1>3, <1>5, <1>7, <1>9
  <2> QED
    BY <1>1, <1>3, <1>4, <1>5, <1>6, <1>9, <2>1 DEF AnswersInv
<1> QED
  BY <1>8, <1>9

LEMMA PipeStep ==
  ASSUME PipeInv, [PipeNext]_pipeVars
  PROVE  PipeInv'
<1>1. ASSUME NEW page \in Pages, Serve(page)
      PROVE  PipeInv'
  BY <1>1 DEF PipeInv, Serve, KeptInv, SentInv, AnswersInv, MayRetry
<1>2. ASSUME NEW validators \in {kept, NothingYet}, BeginFetch(validators)
      PROVE  PipeInv'
  <2>1. /\ sent' = [etag |-> validators.etag, last_modified |-> validators.last_modified,
                    open |-> TRUE]
        /\ answers' = <<>> /\ UNCHANGED <<served, outcome, kept>>
    BY <1>2 DEF BeginFetch
  <2>2. KeptInv' /\ SentInv'
    BY <2>1 DEF PipeInv, KeptInv, SentInv, NothingYet
  <2>3. AnswersInv'
    BY <2>1, EmptySeq, AttemptsAssumption DEF AnswersInv
  <2> QED
    BY <2>1, <2>2, <2>3 DEF PipeInv
<1>3. ASSUME NEW answer \in PossibleAnswers, TakeAnswer(answer)
      PROVE  PipeInv'
  <2>1. AnswersInv'
    BY <1>3, AnswerIsCounted
  <2>2. served' = served
    BY <1>3 DEF TakeAnswer
  <2>3. CASE Retries(answers')
    BY <1>3, <2>1, <2>2, <2>3 DEF TakeAnswer, PipeInv, KeptInv, SentInv
  <2>4. CASE ~Retries(answers')
    <3>1. sent' = NoRequest /\ outcome' = OutcomeOf(answer) /\ kept' = Kept(answer)
      BY <1>3, <2>4 DEF TakeAnswer
    <3>2. KeptInv' /\ outcome' \in Outcomes
      BY <3>1, AnswerIsKept, OutcomesAreKnown
    <3>3. SentInv'
      BY <3>1 DEF SentInv, NoRequest
    <3> QED
      BY <2>1, <2>2, <3>2, <3>3 DEF PipeInv
  <2> QED
    BY <2>3, <2>4
<1>4. CASE UNCHANGED pipeVars
  BY <1>4 DEF pipeVars, PipeInv, KeptInv, SentInv, AnswersInv, MayRetry
<1> QED
  BY <1>1, <1>2, <1>3, <1>4 DEF PipeNext

THEOREM PipeInvariance == PipeSpec => []PipeInv
<1>1. PipeInit => PipeInv
  <2> SUFFICES ASSUME PipeInit PROVE PipeInv
    OBVIOUS
  <2>1. AnswersInv
    BY EmptySeq, AttemptsAssumption DEF PipeInit, AnswersInv, NoRequest
  <2> QED
    BY <2>1 DEF PipeInit, PipeInv, KeptInv, SentInv, NoRequest, NothingYet
<1>2. PipeInv /\ [PipeNext]_pipeVars => PipeInv'
  BY PipeStep
<1> QED
  BY <1>1, <1>2, PTL DEF PipeSpec

(* A request is tried again only after what may be retried, never more     *)
(* often than it may be, and reports a failure of the network only then;   *)
(* and what a server would call unmodified is what the feed holds.         *)
THEOREM FetchMissesNothing == PipeSpec => [](PipeTypeOK /\ AttemptsAreUsed /\ NothingIsMissed)
<1>1. PipeInv => AttemptsAreUsed /\ NothingIsMissed
  BY UnmodifiedIsHeld DEF PipeInv, AnswersInv, AttemptsAreUsed, NothingIsMissed
<1>2. PipeInv => PipeTypeOK
  <2>1. PipeInv /\ sent.open => answers \in Seq(AnyAnswer)
    BY DEF PipeInv, AnswersInv
  <2> QED
    BY <2>1 DEF PipeInv, KeptInv, PipeTypeOK, Outcomes, AnyAnswer
<1> QED
  BY <1>1, <1>2, PipeInvariance, PTL
-------------------------------------------------------------------------------
(* FeedPipeline: the formats.                                              *)

Ascends(places, n) == \A i \in 1 .. n : \A j \in 1 .. n : i < j => places[i] < places[j]
Reaches(places, n, S) == \A s \in S : \E i \in 1 .. n : places[i] = s

(* Places in ascending order are found by their rank.                      *)
LEMMA RanksOfPlaces ==
  ASSUME NEW S \in SUBSET Nat, NEW n \in Nat, NEW places \in [1 .. n -> S],
         Ascends(places, n), Reaches(places, n, S)
  PROVE  /\ Cardinality(S) = n
         /\ \A k \in 1 .. n :
              (CHOOSE s \in S : Cardinality({j \in S : j <= s}) = k) = places[k]
<1>0. \A i \in 1 .. n : i \in Int /\ places[i] \in S /\ places[i] \in Nat
  <2>1. \A i \in 1 .. n : i \in Int
    OBVIOUS
  <2>2. \A i \in 1 .. n : places[i] \in S
    OBVIOUS
  <2>3. \A i \in 1 .. n : places[i] \in Nat
    BY <2>2
  <2> QED
    BY <2>1, <2>2, <2>3
<1>1. ASSUME NEW i \in 1 .. n, NEW j \in 1 .. n, places[i] = places[j]
      PROVE  i = j
  <2>1. ~(i < j) /\ ~(j < i)
    BY <1>0, <1>1 DEF Ascends
  <2> QED
    BY <1>0, <2>1
<1>2. Cardinality(S) = n
  <2>1. places \in Bijection(1 .. n, S)
    BY <1>0, <1>1 DEF Bijection, Injection, IsInjective, Surjection, Reaches
  <2>2. IsFiniteSet(1 .. n) /\ Cardinality(1 .. n) = n
    BY FS_Interval
  <2> QED
    BY <2>1, <2>2, FS_Bijection DEF ExistsBijection
<1>3. ASSUME NEW k \in 1 .. n
      PROVE  Cardinality({j \in S : j <= places[k]}) = k
  <2> DEFINE below == {j \in S : j <= places[k]}
             first == [i \in 1 .. k |-> places[i]]
  <2>1. ASSUME NEW i \in 1 .. k
        PROVE  i \in 1 .. n /\ places[i] \in below
    <3>1. i \in 1 .. n /\ (i < k \/ i = k)
      OBVIOUS
    <3> QED
      BY <1>0, <3>1 DEF Ascends
  <2>2. ASSUME NEW j \in below
        PROVE  \E i \in 1 .. k : places[i] = j
    <3>1. PICK i \in 1 .. n : places[i] = j
      BY DEF Reaches
    <3>2. ~(k < i)
      BY <1>0, <3>1 DEF Ascends
    <3> QED
      BY <1>0, <3>1, <3>2
  <2>3. first \in Bijection(1 .. k, below)
    BY <1>1, <2>1, <2>2 DEF Bijection, Injection, IsInjective, Surjection
  <2> HIDE DEF below, first
  <2>4. IsFiniteSet(1 .. k) /\ Cardinality(1 .. k) = k
    BY FS_Interval
  <2>5. Cardinality(below) = k
    BY <2>3, <2>4, FS_Bijection DEF ExistsBijection
  <2> QED
    BY <2>5 DEF below
<1>4. ASSUME NEW k \in 1 .. n
      PROVE  (CHOOSE s \in S : Cardinality({j \in S : j <= s}) = k) = places[k]
  <2> DEFINE HasRank(s) == Cardinality({j \in S : j <= s}) = k
  <2>1. places[k] \in S /\ HasRank(places[k])
    BY <1>3
  <2>2. ASSUME NEW s \in S, HasRank(s)
        PROVE  s = places[k]
    <3>1. PICK i \in 1 .. n : places[i] = s
      BY DEF Reaches
    <3>2. Cardinality({j \in S : j <= s}) = i
      BY <1>3, <3>1
    <3> QED
      BY <2>2, <3>1, <3>2
  <2> QED
    BY <2>1, <2>2
<1> QED
  BY <1>2, <1>4

(* What a format writes of files are those that have an address.           *)
LEMMA ListedFiles ==
  ASSUME NEW written, NEW files, Lists(written, files)
  PROVE  WithUrl(written) = files
<1> DEFINE S == Addressed(written)
           n == Len(files)
<1>1. PICK places \in [1 .. n -> S] :
        /\ Ascends(places, n) /\ Reaches(places, n, S)
        /\ \A i \in 1 .. n : written[places[i]] = files[i]
  BY DEF Lists, Ascends, Reaches
<1>2. S \in SUBSET Nat
  BY DEF Lists, Addressed
<1>3. /\ n \in Nat /\ DOMAIN files = 1 .. n
      /\ files = [k \in 1 .. n |-> files[k]]
  BY DEF Lists
<1> HIDE DEF S, n
<1>4. /\ Cardinality(S) = n
      /\ \A k \in 1 .. n : (CHOOSE s \in S : Cardinality({j \in S : j <= s}) = k) = places[k]
  BY <1>1, <1>2, <1>3, RanksOfPlaces
<1>5. WithUrl(written) =
        [k \in 1 .. Cardinality(S) |->
           written[CHOOSE s \in S : Cardinality({j \in S : j <= s}) = k]]
  BY DEF WithUrl, S
<1>6. \A k \in 1 .. n : written[CHOOSE s \in S : Cardinality({j \in S : j <= s}) = k] = files[k]
  BY <1>1, <1>4
<1> QED
  BY <1>3, <1>4, <1>5, <1>6

(* Of a text and one that stands in for it.                                *)
LEMMA FirstOfOne ==
  ASSUME NEW a
  PROVE  FirstOf(<<a>>) = a
<1> DEFINE s == <<a>>
<1>1. DOMAIN s = {1} /\ s[1] = a
  OBVIOUS
<1> HIDE DEF s
<1>2. CASE a = Missing
  BY <1>1, <1>2 DEF FirstOf
<1>3. CASE a # Missing
  <2>1. (CHOOSE i \in DOMAIN s : s[i] # Missing /\ \A j \in 1 .. i - 1 : s[j] = Missing) = 1
    BY <1>1, <1>3
  <2> QED
    BY <1>1, <1>3, <2>1 DEF FirstOf
<1> QED
  BY <1>2, <1>3 DEF s

LEMMA FirstOfTwo ==
  ASSUME NEW a, NEW b
  PROVE  FirstOf(<<a, b>>) = Or(a, b)
<1> DEFINE s == <<a, b>>
           First(i) == s[i] # Missing /\ \A j \in 1 .. i - 1 : s[j] = Missing
<1>1. DOMAIN s = {1, 2} /\ s[1] = a /\ s[2] = b
  OBVIOUS
<1> HIDE DEF s
<1>2. CASE a = Missing /\ b = Missing
  BY <1>1, <1>2 DEF FirstOf, Or
<1>3. CASE a # Missing
  <2>1. First(1) /\ ~First(2)
    BY <1>1, <1>3
  <2>2. (CHOOSE i \in DOMAIN s : First(i)) = 1
    BY <1>1, <2>1
  <2> QED
    BY <1>1, <1>3, <2>2 DEF FirstOf, Or
<1>4. CASE a = Missing /\ b # Missing
  <2>1. First(2) /\ ~First(1)
    BY <1>1, <1>4
  <2>2. (CHOOSE i \in DOMAIN s : First(i)) = 2
    BY <1>1, <2>1
  <2> QED
    BY <1>1, <1>4, <2>2 DEF FirstOf, Or
<1> QED
  BY <1>2, <1>3, <1>4 DEF s

LEMMA FirstOfThree ==
  ASSUME NEW a, NEW b, NEW c
  PROVE  FirstOf(<<a, b, c>>) = Or(a, Or(b, c))
<1> DEFINE s == <<a, b, c>>
           First(i) == s[i] # Missing /\ \A j \in 1 .. i - 1 : s[j] = Missing
<1>1. DOMAIN s = {1, 2, 3} /\ s[1] = a /\ s[2] = b /\ s[3] = c
  OBVIOUS
<1> HIDE DEF s
<1>2. CASE a = Missing /\ b = Missing /\ c = Missing
  BY <1>1, <1>2 DEF FirstOf, Or
<1>3. CASE a # Missing
  <2>1. First(1) /\ ~First(2) /\ ~First(3)
    BY <1>1, <1>3
  <2>2. (CHOOSE i \in DOMAIN s : First(i)) = 1
    BY <1>1, <2>1
  <2> QED
    BY <1>1, <1>3, <2>2 DEF FirstOf, Or
<1>4. CASE a = Missing /\ b # Missing
  <2>1. First(2) /\ ~First(1) /\ ~First(3)
    BY <1>1, <1>4
  <2>2. (CHOOSE i \in DOMAIN s : First(i)) = 2
    BY <1>1, <2>1
  <2> QED
    BY <1>1, <1>4, <2>2 DEF FirstOf, Or
<1>5. CASE a = Missing /\ b = Missing /\ c # Missing
  <2>1. First(3) /\ ~First(1) /\ ~First(2)
    BY <1>1, <1>5
  <2>2. (CHOOSE i \in DOMAIN s : First(i)) = 3
    BY <1>1, <2>1
  <2> QED
    BY <1>1, <1>5, <2>2 DEF FirstOf, Or
<1> QED
  BY <1>2, <1>3, <1>4, <1>5 DEF s

LEMMA FirstOfTwoTexts ==
  ASSUME NEW a, NEW b
  PROVE  FirstOf(Texts(<<a, b>>)) = Or(Text(a), Text(b))
<1>1. Texts(<<a, b>>) = <<Text(a), Text(b)>>
  BY DEF Texts
<1> QED
  BY <1>1, FirstOfTwo

LEMMA FirstOfThreeTexts ==
  ASSUME NEW a, NEW b, NEW c
  PROVE  FirstOf(Texts(<<a, b, c>>)) = Or(Text(a), Or(Text(b), Text(c)))
<1>1. Texts(<<a, b, c>>) = <<Text(a), Text(b), Text(c)>>
  BY DEF Texts
<1> QED
  BY <1>1, FirstOfThree

(* What one of two dates is, when the other says nothing else.             *)
LEMMA EitherDate ==
  ASSUME NEW a, NEW b, NEW moment, Dates({a, b}, moment)
  PROVE  Moment(Or(a, b)) = moment
<1>1. Moment(Missing) = Missing
  BY MomentAssumption DEF Moment
<1>2. CASE a = Missing
  BY <1>1, <1>2 DEF Dates, Or
<1>3. CASE a # Missing
  BY <1>3 DEF Dates, Or
<1> QED
  BY <1>2, <1>3

LEMMA OneDate ==
  ASSUME NEW a, NEW moment, Dates({a}, moment)
  PROVE  Moment(a) = moment
  BY DEF Dates

LEMMA LeastOf ==
  ASSUME NEW S \in SUBSET Nat, S # {}
  PROVE  \E n \in S : \A m \in S : n <= m
<1>1. PICK n \in S : \A m \in S : ~(<<m, n>> \in OpToRel(<, Nat))
  BY WFMin, NatLessThanWellFounded
<1>2. \A m \in S : ~(m < n)
  BY <1>1 DEF OpToRel
<1> QED
  BY <1>2

(* Where all that is there is the same, that is what is found first.       *)
LEMMA FirstOfSame ==
  ASSUME NEW s, DOMAIN s \subseteq Nat, 0 \notin DOMAIN s, NEW value,
         \A i \in DOMAIN s : s[i] \in {value, Missing},
         value # Missing => \E i \in DOMAIN s : s[i] = value,
         \A i \in DOMAIN s : 1 .. i \subseteq DOMAIN s
  PROVE  FirstOf(s) = value
<1>1. CASE \A i \in DOMAIN s : s[i] = Missing
  BY <1>1 DEF FirstOf
<1>2. CASE \E i \in DOMAIN s : s[i] # Missing
  <2> DEFINE there == {i \in DOMAIN s : s[i] # Missing}
             First(i) == s[i] # Missing /\ \A j \in 1 .. i - 1 : s[j] = Missing
  <2>1. there \in SUBSET Nat /\ there # {}
    BY <1>2
  <2>2. PICK n \in there : \A m \in there : n <= m
    BY <2>1, LeastOf
  <2>3. ASSUME NEW j \in 1 .. n - 1
        PROVE  s[j] = Missing
    <3>1. n \in Nat /\ j \in 1 .. n /\ ~(n <= j)
      BY <2>1
    <3>2. j \in DOMAIN s /\ j \notin there
      BY <2>2, <3>1
    <3> QED
      BY <3>2
  <2>4. n \in DOMAIN s /\ First(n)
    BY <2>3
  <2>5. (CHOOSE i \in DOMAIN s : First(i)) \in DOMAIN s
        /\ First(CHOOSE i \in DOMAIN s : First(i))
    BY <2>4
  <2>6. FirstOf(s) = s[CHOOSE i \in DOMAIN s : First(i)]
    BY <1>2 DEF FirstOf
  <2> HIDE DEF First
  <2>7. \A i \in DOMAIN s : First(i) => s[i] = value
    BY DEF First
  <2> QED
    BY <2>5, <2>6, <2>7
<1> QED
  BY <1>1, <1>2

LEMMA LinkIsTold ==
  ASSUME NEW item, NEW told, AtomTells(item, told)
  PROVE  SelectLink(item.links, "alternate") = told.link
<1> DEFINE links == item.links
           fits == {i \in DOMAIN links : Rel(links[i]) = "alternate"}
           hrefs == [i \in DOMAIN links |-> Text(links[i].href)]
<1>1. links \in Seq({links[i] : i \in DOMAIN links})
  BY DEF AtomTells
<1>2. DOMAIN links = 1 .. Len(links) /\ Len(links) \in Nat
  BY <1>1
<1>3. /\ fits # {} => \A i \in fits : Text(links[i].href) = told.link
      /\ fits = {} => {Text(links[i].href) : i \in DOMAIN links} \cup {Missing}
                        = {told.link, Missing}
  BY DEF AtomTells
<1>4. SelectLink(links, "alternate") =
        IF fits = {} THEN FirstOf(hrefs)
        ELSE Text(links[CHOOSE i \in fits : \A j \in fits : i <= j].href)
  BY DEF SelectLink
<1> HIDE DEF links
<1>5. CASE fits # {}
  <2>1. fits \in SUBSET Nat
    BY <1>2
  <2>2. (CHOOSE i \in fits : \A j \in fits : i <= j) \in fits
    BY <1>5, <2>1, LeastOf
  <2> QED
    BY <1>3, <1>4, <1>5, <2>2 DEF links
<1>6. CASE fits = {}
  <2> DEFINE told_at == {Text(links[i].href) : i \in DOMAIN links}
  <2>1. told_at \cup {Missing} = {told.link, Missing}
    BY <1>3, <1>6
  <2>2. \A i \in DOMAIN links : hrefs[i] \in {told.link, Missing}
    BY <2>1
  <2>3. told.link # Missing => \E i \in DOMAIN links : hrefs[i] = told.link
    <3>1. told.link # Missing => told.link \in told_at
      BY <2>1
    <3> QED
      BY <3>1
  <2>4. DOMAIN hrefs = 1 .. Len(links)
    BY <1>2
  <2>5. \A i \in DOMAIN hrefs : 1 .. i \subseteq DOMAIN hrefs
    BY <1>2, <2>4
  <2>6. DOMAIN hrefs \subseteq Nat /\ 0 \notin DOMAIN hrefs /\ DOMAIN hrefs = DOMAIN links
    BY <1>2, <2>4
  <2> HIDE DEF hrefs
  <2>7. FirstOf(hrefs) = told.link
    BY <2>2, <2>3, <2>5, <2>6, FirstOfSame
  <2> QED
    BY <1>4, <1>6, <2>7 DEF links
<1> QED
  BY <1>5, <1>6

-------------------------------------------------------------------------------
(* What an article is known by, told by its publisher.                     *)
Known(told) ==
  [f \in {"guid", "canonical", "original", "title", "published", "hash", "attachments"} |->
     CASE f = "guid"        -> told.guid
       [] f = "canonical"   -> told.link
       [] f = "original"    -> told.link
       [] f = "title"       -> FirstOf(<<told.title, told.link, told.link, "Untitled article">>)
       [] f = "published"   -> told.published
       [] f = "hash"        -> Or(told.content, told.summary)
       [] f = "attachments" -> told.files]

(* An item of a feed that tells of an found.                             *)
Says(found, told) ==
  /\ found.guid = told.guid /\ found.canonical = told.link /\ found.original = told.link
  /\ found.title = told.title /\ found.published = told.published
  /\ FirstOf(<<found.extracted, found.raw, found.summary>>)
       = Or(told.content, told.summary)
  /\ found.attachments = told.files

LEMMA RssSays ==
  ASSUME NEW page, NEW item, NEW told, RssTells(item, told)
  PROVE  Says(RssItem(item), told)
<1> DEFINE found == RssItem(item)
<1>1. /\ found.guid = Text(item.guid) /\ found.canonical = Text(item.link)
      /\ found.original = Text(item.link) /\ found.title = Text(item.title)
      /\ found.published = Moment(item.pubDate) /\ found.extracted = Missing
      /\ found.raw = Text(item.encoded) /\ found.summary = Text(item.description)
      /\ found.attachments = WithUrl(RssFiles(item))
  BY DEF RssItem
<1> HIDE DEF found
<1>2. Moment(item.pubDate) = told.published /\ WithUrl(RssFiles(item)) = told.files
  BY OneDate, ListedFiles DEF RssTells
<1>3. FirstOf(<<found.extracted, found.raw, found.summary>>) = Or(told.content, told.summary)
  BY <1>1, FirstOfThree DEF RssTells, Or
<1> QED
  BY <1>1, <1>2, <1>3 DEF RssTells, Says, found

LEMMA AtomSays ==
  ASSUME NEW page, NEW item, NEW told, AtomTells(item, told)
  PROVE  Says(AtomEntry(item), told)
<1> DEFINE found == AtomEntry(item)
<1>1. /\ found.guid = Text(item.id) /\ found.canonical = SelectLink(item.links, "alternate")
      /\ found.original = SelectLink(item.links, "alternate")
      /\ found.title = Text(item.title)
      /\ found.published = Moment(FirstOf(Texts(<<item.published, item.updated>>)))
      /\ found.extracted = Missing /\ found.raw = Text(item.content)
      /\ found.summary = Text(item.summary)
      /\ found.attachments = WithUrl(AtomFiles(item.links))
  BY DEF AtomEntry
<1> HIDE DEF found
<1>2. found.published = told.published /\ found.attachments = told.files
      /\ found.canonical = told.link
  <2>1. /\ Dates({Text(item.published), Text(item.updated)}, told.published)
        /\ Lists(AtomFiles(item.links), told.files)
    BY DEF AtomTells
  <2>2. Moment(Or(Text(item.published), Text(item.updated))) = told.published
    BY <2>1, EitherDate
  <2>3. FirstOf(Texts(<<item.published, item.updated>>))
          = Or(Text(item.published), Text(item.updated))
    BY FirstOfTwoTexts
  <2>4. WithUrl(AtomFiles(item.links)) = told.files
    BY <2>1, ListedFiles
  <2> QED
    BY <1>1, <2>2, <2>3, <2>4, LinkIsTold
<1>3. Text(item.id) = told.guid /\ Text(item.title) = told.title
      /\ Text(item.content) = told.content /\ Text(item.summary) = told.summary
  BY DEF AtomTells
<1>4. FirstOf(<<found.extracted, found.raw, found.summary>>) = Or(told.content, told.summary)
  BY <1>1, <1>3, FirstOfThree DEF Or
<1> QED
  BY <1>1, <1>2, <1>3, <1>4 DEF Says, found

LEMMA JsonSays ==
  ASSUME NEW page, NEW item, NEW told, JsonTells(item, told)
  PROVE  Says(JsonItem(item), told)
<1> DEFINE found == JsonItem(item)
<1>1. /\ found.guid = FirstOf(Texts(<<item.id, item.url, item.external_url>>))
      /\ found.canonical = Text(item.url)
      /\ found.original = Text(FirstOf(<<item.external_url, item.url>>))
      /\ found.title = Text(item.title)
      /\ found.published = Moment(FirstOf(<<item.date_published, item.date_modified>>))
      /\ found.extracted = Text(item.content_text)
      /\ found.raw = Text(FirstOf(<<item.content_html, item.content_text>>))
      /\ found.summary = Text(item.summary)
      /\ found.attachments = WithUrl(JsonFiles(item))
  BY DEF JsonItem
<1> HIDE DEF found
<1>2. /\ Text(item.id) = told.guid /\ told.guid # Missing
      /\ Text(item.url) = told.link /\ item.external_url \in {Missing, item.url}
      /\ Text(item.title) = told.title /\ Text(item.summary) = told.summary
      /\ told.content = IF Text(item.content_text) # Missing THEN Text(item.content_text)
                        ELSE Text(item.content_html)
      /\ Dates({item.date_published, item.date_modified}, told.published)
      /\ Lists(JsonFiles(item), told.files)
  BY DEF JsonTells
<1>3. found.guid = told.guid
  <2>1. FirstOf(Texts(<<item.id, item.url, item.external_url>>))
          = Or(Text(item.id), Or(Text(item.url), Text(item.external_url)))
    BY FirstOfThreeTexts
  <2> QED
    BY <1>1, <1>2, <2>1 DEF Or
<1>4. found.original = told.link
  BY <1>1, <1>2, FirstOfTwo DEF Or
<1>5. found.published = told.published
  BY <1>1, <1>2, FirstOfTwo, EitherDate
<1>6. found.attachments = told.files
  BY <1>1, <1>2, ListedFiles
<1>7. FirstOf(<<found.extracted, found.raw, found.summary>>) = Or(told.content, told.summary)
  <2>1. found.raw = Text(Or(item.content_html, item.content_text))
    BY <1>1, FirstOfTwo
  <2>2. Or(found.extracted, Or(found.raw, found.summary)) = Or(told.content, told.summary)
    BY <1>1, <1>2, <2>1 DEF Or, Text
  <2> QED
    BY <2>2, FirstOfThree
<1> QED
  BY <1>1, <1>2, <1>3, <1>4, <1>5, <1>6, <1>7 DEF Says, found

LEMMA ItemSays ==
  ASSUME NEW page, NEW item, NEW told, Tells(page, item, told)
  PROVE  Says(ParseItem(page, item), told)
<1>1. CASE page.root = "rss" /\ RssTells(item, told)
  BY <1>1, RssSays DEF ParseItem
<1>2. CASE page.root = "feed" /\ AtomTells(item, told)
  BY <1>2, AtomSays DEF ParseItem
<1>3. CASE page.root = "json" /\ JsonTells(item, told)
  BY <1>3, JsonSays DEF ParseItem
<1> QED
  BY <1>1, <1>2, <1>3 DEF Tells

LEMMA NormalizedIsKnown ==
  ASSUME NEW found, NEW told, Says(found, told),
         {"guid", "canonical", "original", "title", "published", "attachments"}
           \subseteq DOMAIN found
  PROVE  [f \in {"guid", "canonical", "original", "title", "published", "hash", "attachments"} |->
            NormalizeArticle(found)[f]] = Known(told)
<1> DEFINE normal == NormalizeArticle(found)
<1>1. /\ normal["guid"] = found.guid /\ normal["canonical"] = found.canonical
      /\ normal["original"] = found.original /\ normal["published"] = found.published
      /\ normal["attachments"] = found.attachments
      /\ normal["title"] = ArticleTitle(found) /\ normal["hash"] = ContentHash(found)
  BY DEF NormalizeArticle
<1>2. /\ ArticleTitle(found) = FirstOf(<<told.title, told.link, told.link, "Untitled article">>)
      /\ ContentHash(found) = Or(told.content, told.summary)
  BY DEF ArticleTitle, ContentHash, Says
<1> HIDE DEF normal
<1> DEFINE fields == {"guid", "canonical", "original", "title", "published", "hash", "attachments"}
<1>3. ASSUME NEW f \in fields
      PROVE  normal[f] = Known(told)[f]
  BY <1>1, <1>2 DEF Says, Known
<1>4. Known(told) = [f \in fields |-> Known(told)[f]]
  BY DEF Known
<1> QED
  BY <1>3, <1>4 DEF normal

LEMMA FieldsOfItem ==
  ASSUME NEW page, NEW item, page.root \in {"rss", "feed", "json"}
  PROVE  {"guid", "canonical", "original", "title", "published", "attachments"}
           \subseteq DOMAIN ParseItem(page, item)
<1>1. CASE page.root = "rss"
  BY <1>1 DEF ParseItem, RssItem
<1>2. CASE page.root = "feed"
  BY <1>2 DEF ParseItem, AtomEntry
<1>3. CASE page.root = "json"
  BY <1>3 DEF ParseItem, JsonItem
<1> QED
  BY <1>1, <1>2, <1>3

(* What the articles of a page that means a feed are known by is what the  *)
(* feed means, in every format.                                            *)
LEMMA PagesAreKnown ==
  ASSUME NEW page \in Pages, page.means # Missing
  PROVE  KnownBy(ReadArticles(page)) =
           [i \in DOMAIN Meanings[page.means] |-> Known(Meanings[page.means][i])]
<1> DEFINE told == Meanings[page.means]
           fields == {"guid", "canonical", "original", "title", "published", "hash", "attachments"}
<1>1. /\ DOMAIN page.items = DOMAIN told
      /\ \A i \in DOMAIN page.items : Tells(page, page.items[i], told[i])
  BY MeaningAssumption
<1>2. KnownBy(ReadArticles(page)) =
        [i \in DOMAIN page.items |->
           [f \in fields |-> NormalizeArticle(ParseItem(page, page.items[i]))[f]]]
  BY DEF KnownBy, ReadArticles
<1>3. ASSUME NEW i \in DOMAIN page.items
      PROVE  [f \in fields |-> NormalizeArticle(ParseItem(page, page.items[i]))[f]]
               = Known(told[i])
  <2>1. Tells(page, page.items[i], told[i])
    BY <1>1
  <2>2. page.root \in {"rss", "feed", "json"}
    BY <2>1 DEF Tells
  <2> QED
    BY <2>1, <2>2, ItemSays, FieldsOfItem, NormalizedIsKnown
<1> HIDE DEF fields
<1> QED
  BY <1>1, <1>2, <1>3

LEMMA FeedsAreRead ==
  ASSUME NEW answer, answer.status = 200, answer.page \in Pages, answer.page.means # Missing
  PROVE  OutcomeOf(answer) = "feed"
<1> DEFINE page == answer.page
<1>1. Recognisable(page)
  BY MeaningAssumption
<1> HIDE DEF page
<1>2. page.root = "json" /\ page.start = "{" => Parsed(page) = "feed"
  BY DEF Parsed
<1>3. /\ page.root \in {"rss", "feed"} /\ page.start \notin {"binary", "", "{"}
      /\ page.start = "<?xml" \/ "feed" \in page.hints
      => Parsed(page) = "feed"
  BY DEF Parsed, LooksLikeXmlFeed
<1>4. Parsed(page) = "feed"
  BY <1>1, <1>2, <1>3 DEF Recognisable
<1> QED
  BY <1>4 DEF OutcomeOf, page

(* A feed holds the articles of the page it was last read from, and what a *)
(* request ended with is what its last answer says.                        *)
FormatInv ==
  /\ DOMAIN kept = {"etag", "last_modified", "page", "articles"}
  /\ kept.page # Missing => kept.articles = ReadArticles(kept.page)
  /\ answers # <<>> => LET last == answers[Len(answers)]
                       IN  /\ last.status = 200 => last.page \in Pages
                           /\ ~sent.open => outcome = OutcomeOf(last)

LEMMA LastIsRead ==
  ASSUME PipeInv, FormatInv, NEW answer \in PossibleAnswers, TakeAnswer(answer)
  PROVE  FormatInv'
<1>1. /\ answers' = Append(answers, answer) /\ served \in Pages
      /\ answers \in Seq(AnyAnswer)
      /\ Retries(answers') => UNCHANGED <<sent, outcome, kept>>
      /\ ~Retries(answers') => /\ sent' = NoRequest /\ outcome' = OutcomeOf(answer)
                               /\ kept' = Kept(answer)
      /\ sent.open
  BY DEF PipeInv, AnswersInv, TakeAnswer
<1>2. answer \in AnyAnswer /\ (answer.status = 200 => answer.page \in Pages)
  <2>1. \/ \E status \in {0, 1, 403, 404, 429, 500, 304} : answer = Bare(status)
        \/ \E status \in {200, 304} : answer = Answered(status, served)
    BY DEF PossibleAnswers
  <2> QED
    BY <1>1, <2>1, PossibleAnswersAre DEF Bare, Answered
<1>3. answers' # <<>> /\ answers'[Len(answers')] = answer
  <2>1. /\ Append(answers, answer) \in Seq(AnyAnswer)
        /\ Len(Append(answers, answer)) = Len(answers) + 1
        /\ Append(answers, answer)[Len(answers) + 1] = answer
    BY <1>1, <1>2, AppendProperties
  <2>2. Len(answers) \in Nat
    BY <1>1
  <2> QED
    BY <1>1, <2>1, <2>2, EmptySeq
<1>4. CASE Retries(answers')
  BY <1>1, <1>2, <1>3, <1>4 DEF FormatInv
<1>5. CASE ~Retries(answers')
  <2>1. ~sent'.open
    BY <1>1, <1>5 DEF NoRequest
  <2>2. /\ DOMAIN Kept(answer) = {"etag", "last_modified", "page", "articles"}
        /\ Kept(answer).page # Missing => Kept(answer).articles = ReadArticles(Kept(answer).page)
    <3>1. CASE OutcomeOf(answer) = "not modified"
      <4>1. Kept(answer) = [kept EXCEPT !.etag = Or(answer.etag, sent.etag),
                                        !.last_modified = Or(answer.last_modified, sent.last_modified)]
        BY <3>1 DEF Kept
      <4>2. /\ DOMAIN Kept(answer) = DOMAIN kept
            /\ Kept(answer).page = kept.page /\ Kept(answer).articles = kept.articles
        BY <4>1 DEF FormatInv
      <4> QED
        BY <4>2 DEF FormatInv
    <3>2. CASE OutcomeOf(answer) = "feed"
      <4>1. Kept(answer) = [etag |-> answer.etag, last_modified |-> answer.last_modified,
                            page |-> answer.page, articles |-> ReadArticles(answer.page)]
        BY <3>2 DEF Kept
      <4> QED
        BY <4>1
    <3>3. CASE OutcomeOf(answer) \notin {"not modified", "feed"}
      BY <3>3 DEF Kept, FormatInv
    <3> QED
      BY <3>1, <3>2, <3>3
  <2> QED
    BY <1>1, <1>2, <1>3, <1>5, <2>1, <2>2 DEF FormatInv
<1> QED
  BY <1>4, <1>5

LEMMA FormatStep ==
  ASSUME PipeInv, FormatInv, [PipeNext]_pipeVars
  PROVE  FormatInv'
<1>1. ASSUME NEW page \in Pages, Serve(page)
      PROVE  FormatInv'
  BY <1>1 DEF Serve, FormatInv
<1>2. ASSUME NEW validators \in {kept, NothingYet}, BeginFetch(validators)
      PROVE  FormatInv'
  BY <1>2 DEF BeginFetch, FormatInv
<1>3. ASSUME NEW answer \in PossibleAnswers, TakeAnswer(answer)
      PROVE  FormatInv'
  BY <1>3, LastIsRead
<1>4. CASE UNCHANGED pipeVars
  BY <1>4 DEF pipeVars, FormatInv
<1> QED
  BY <1>1, <1>2, <1>3, <1>4 DEF PipeNext

(* A page that means a feed is read as one whatever the server calls it,   *)
(* and a feed that changes its format keeps what its articles are known    *)
(* by, if its publisher says the same in both.                             *)
THEOREM FetchIsUnderstood == PipeSpec => []FetchTellsAnswer
<1>1. PipeInit => FormatInv
  BY DEF PipeInit, FormatInv, NothingYet
<1>2. PipeSpec => []FormatInv
  BY <1>1, FormatStep, PipeInvariance, PTL DEF PipeSpec
<1>3. PipeInv /\ FormatInv => FormatsAgree
  <2> SUFFICES ASSUME PipeInv, FormatInv PROVE FormatsAgree
    OBVIOUS
  <2>1. ASSUME ~sent.open, answers # <<>>,
               answers[Len(answers)].status = 200, answers[Len(answers)].page.means # Missing
        PROVE  outcome = "feed"
    <3>1. answers[Len(answers)].page \in Pages /\ outcome = OutcomeOf(answers[Len(answers)])
      BY <2>1 DEF FormatInv
    <3> QED
      BY <2>1, <3>1, FeedsAreRead
  <2>2. ASSUME kept.page # Missing, NEW page \in Pages, page.means # Missing,
               page.means = kept.page.means
        PROVE  KnownBy(ReadArticles(page)) = KnownBy(kept.articles)
    <3>1. kept.page \in Pages /\ kept.articles = ReadArticles(kept.page)
      BY <2>2 DEF PipeInv, KeptInv, FormatInv
    <3> QED
      BY <2>2, <3>1, PagesAreKnown
  <2> QED
    BY <2>1, <2>2 DEF FormatsAgree
<1> QED
  BY <1>2, <1>3, PipeInvariance, FetchMissesNothing, PTL DEF FetchTellsAnswer
===============================================================================

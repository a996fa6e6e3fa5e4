----------------------- MODULE ServiceLifecycleProofs -----------------------
(***************************************************************************)
(* Theorems about ServiceLifecycle and the StateDirectory under it, for    *)
(* any number of processes, connections and leases.                        *)
(***************************************************************************)
EXTENDS ServiceLifecycle, TLAPS

-----------------------------------------------------------------------------
(* The state directory.                                                    *)

Identities == Processes \cup {NoProcess}
KeyFiles   == [at : {"absent", "temporary", "linked", "whole"}, of : Identities]
Databases  == [at : {"absent", "empty", "ready"}, of : Identities]
Commands   == [command : {"none", "init", "serve", "inspect"},
               at : {"idle", "locked", "key", "ca", "database", "done", "serving", "inspecting"}]

\* The directory is typed.
DirectoryType ==
    /\ files \in [key : KeyFiles, ca : KeyFiles, database : Databases, writer_lock : BOOLEAN]
    /\ lock \in Identities
    /\ process \in [Processes -> Commands]

\* Whoever runs a command holds the lock.
LockInv == \A p \in Processes : process[p] # NotRunning => lock = p

\* A file is made when the one before it is whole, for the identity of the key.
FilesInv ==
    /\ files.ca # Absent => Whole(files.key) /\ files.ca.of = files.key.of
    /\ files.database # Absent => Whole(files.ca)
    /\ files.database.at = "ready" => files.database.of = files.key.of
    /\ files.database.at = "absent" => files.database = Absent

\* init makes the files in their order, and a store that was opened is ready.
PlaceInv ==
    \A p \in Processes :
        /\ process[p].at = "ca" => Whole(files.key)
        /\ process[p].at = "database" => Whole(files.ca)
        /\ process[p].at \in {"serving", "inspecting"} => files.database.at = "ready"

DirectoryInv == DirectoryType /\ LockInv /\ FilesInv /\ PlaceInv

\* Every step that touches the directory.
Touches ==
    \/ DirectoryStep
    \/ \E p \in Processes : \/ OpenStore(p)
                            \/ process[p].at = "serving" /\ Leaves(p) /\ UNCHANGED files

\* A command that ends leaves the lock, and no command is at any place.
LEMMA LeavesInv ==
    ASSUME DirectoryInv, NEW p \in Processes, Leaves(p), process[p] # NotRunning,
           files' \in [key : KeyFiles, ca : KeyFiles, database : Databases, writer_lock : BOOLEAN],
           FilesInv'
    PROVE  DirectoryInv'
<1>1. process \in [Processes -> Commands] /\ NotRunning \in Commands /\ NotRunning.at = "idle"
  BY DEF DirectoryInv, DirectoryType, NotRunning, Commands
<1>2. /\ process' \in [Processes -> Commands] /\ lock' = NoProcess /\ process'[p] = NotRunning
      /\ \A q \in Processes \ {p} : process'[q] = process[q]
  BY <1>1 DEF Leaves
<1>3. \A q \in Processes \ {p} : process[q] = NotRunning
  BY DEF DirectoryInv, LockInv
<1>4. \A q \in Processes : process'[q] = NotRunning
  BY <1>2, <1>3
<1>5. QED
  BY <1>1, <1>2, <1>4 DEF DirectoryInv, DirectoryType, LockInv, PlaceInv, Identities

\* A command that goes on keeps its lock.
LEMMA GoesInv ==
    ASSUME DirectoryInv, NEW p \in Processes, process[p] # NotRunning,
           NEW place \in {"key", "ca", "database", "done", "serving", "inspecting"},
           Goes(p, place), UNCHANGED lock,
           files' \in [key : KeyFiles, ca : KeyFiles, database : Databases, writer_lock : BOOLEAN],
           FilesInv',
           place = "ca" => Whole(files'.key), place = "database" => Whole(files'.ca),
           place \in {"serving", "inspecting"} => files'.database.at = "ready"
    PROVE  DirectoryInv'
<1>1. process \in [Processes -> Commands] /\ process[p] \in Commands
  BY DEF DirectoryInv, DirectoryType
<1>2. /\ process' \in [Processes -> Commands] /\ process'[p].at = place
      /\ \A q \in Processes \ {p} : process'[q] = process[q]
  <2>1. [process[p] EXCEPT !.at = place] \in Commands /\ [process[p] EXCEPT !.at = place].at = place
    BY <1>1 DEF Commands
  <2>2. process' = [process EXCEPT ![p] = [process[p] EXCEPT !.at = place]]
    BY <1>1 DEF Goes
  <2>3. QED
    BY <1>1, <2>1, <2>2
<1>3. \A q \in Processes \ {p} : process[q] = NotRunning
  BY DEF DirectoryInv, LockInv
<1>4. LockInv'
  BY <1>2, <1>3 DEF DirectoryInv, LockInv
<1>5. \A q \in Processes \ {p} : process'[q].at = "idle"
  BY <1>2, <1>3 DEF NotRunning
<1>6. PlaceInv'
  BY <1>2, <1>5 DEF PlaceInv, Whole
<1>7. QED
  BY <1>2, <1>4, <1>6 DEF DirectoryInv, DirectoryType

\* A file that is made or finished keeps the order.
LEMMA MakingInv ==
    ASSUME DirectoryInv, UNCHANGED <<lock, process>>,
           files' \in [key : KeyFiles, ca : KeyFiles, database : Databases, writer_lock : BOOLEAN],
           FilesInv',
           Whole(files.key) => Whole(files'.key), Whole(files.ca) => Whole(files'.ca),
           files.database.at = "ready" => files'.database.at = "ready"
    PROVE  DirectoryInv'
  BY DEF DirectoryInv, DirectoryType, LockInv, PlaceInv, Whole

\* Every step on the directory keeps its invariant.
LEMMA TouchesInv ==
    ASSUME DirectoryInv, Touches
    PROVE  DirectoryInv'
<1> DEFINE Files == [key : KeyFiles, ca : KeyFiles, database : Databases, writer_lock : BOOLEAN]
<1>1. /\ files \in Files /\ lock \in Identities /\ process \in [Processes -> Commands]
      /\ LockInv /\ FilesInv /\ PlaceInv
  BY DEF DirectoryInv, DirectoryType
<1>2. /\ files.key \in KeyFiles /\ files.ca \in KeyFiles /\ files.database \in Databases
      /\ Absent \in KeyFiles /\ Absent.at = "absent" /\ ~Whole(Absent)
  BY <1>1 DEF Absent, Whole, KeyFiles, Identities
<1>3. ASSUME NEW p \in Processes, process[p].at # "idle"
      PROVE  process[p] # NotRunning
  BY <1>3 DEF NotRunning
<1>4. ASSUME UNCHANGED files
      PROVE  files' \in Files /\ FilesInv'
  BY <1>1, <1>4 DEF FilesInv, Whole
<1>5. ASSUME NEW p \in Processes, Leaves(p), process[p].at # "idle", UNCHANGED files
      PROVE  DirectoryInv'
  BY <1>3, <1>4, <1>5, LeavesInv
<1>6. CASE CreateLockFile
  <2>1. files' \in Files /\ files'.key = files.key /\ files'.ca = files.ca /\ files'.database = files.database
    BY <1>1, <1>6 DEF CreateLockFile
  <2>2. FilesInv'
    BY <1>1, <2>1 DEF FilesInv, Whole
  <2>3. QED
    BY <1>6, <2>1, <2>2, MakingInv DEF CreateLockFile
<1>7. ASSUME NEW p \in Processes, NEW command \in {"init", "serve", "inspect"}, Enter(p, command)
      PROVE  DirectoryInv'
  <2>1. files' \in Files /\ files'.key = files.key /\ files'.ca = files.ca /\ files'.database = files.database
    BY <1>1, <1>7 DEF Enter
  <2>2. FilesInv'
    BY <1>1, <2>1 DEF FilesInv, Whole
  <2>3. \A q \in Processes : process[q] = NotRunning
    BY <1>1, <1>7, ProcessAssumption DEF Enter, LockInv
  <2>4. /\ process' \in [Processes -> Commands] /\ process'[p].at = "locked" /\ lock' = p
        /\ \A q \in Processes \ {p} : process'[q] = NotRunning
    BY <1>1, <1>7, <2>3 DEF Enter, Commands
  <2>5. QED
    BY <2>1, <2>2, <2>4 DEF DirectoryInv, DirectoryType, LockInv, PlaceInv, Identities, NotRunning
<1>8. ASSUME NEW p \in Processes, BeginInit(p)
      PROVE  DirectoryInv'
  <2>1. process[p].at = "locked" /\ UNCHANGED files
    BY <1>8 DEF BeginInit, Runs
  <2>2. CASE Leaves(p)
    BY <1>5, <2>1, <2>2
  <2>3. CASE Goes(p, "key") /\ UNCHANGED lock
    BY <1>3, <1>4, <2>1, <2>3, GoesInv
  <2>4. QED
    BY <1>8, <2>2, <2>3 DEF BeginInit
<1>9. ASSUME NEW p \in Processes, WriteKey(p)
      PROVE  DirectoryInv'
  <2>1. /\ files' \in Files /\ files'.ca = files.ca /\ files'.database = files.database
        /\ files.key = Absent
    BY <1>1, <1>9 DEF WriteKey, Making, KeyFiles, Identities
  <2>2. files.ca = Absent /\ files.database = Absent
    BY <1>1, <1>2, <2>1 DEF FilesInv
  <2>3. FilesInv'
    BY <1>2, <2>1, <2>2 DEF FilesInv
  <2>4. QED
    BY <1>2, <1>9, <2>1, <2>2, <2>3, MakingInv DEF WriteKey
<1>10. ASSUME NEW p \in Processes, WriteCertificate(p)
       PROVE  DirectoryInv'
  <2>1. /\ files' = [files EXCEPT !.ca = Certificate] /\ Certificate \in KeyFiles
        /\ Certificate.of = files.key.of /\ files.ca = Absent /\ Whole(files.key)
    BY <1>2, <1>10 DEF WriteCertificate, Making, Certificate, KeyFiles
  <2>2. /\ files' \in Files /\ files'.ca.of = files.key.of
        /\ files'.key = files.key /\ files'.database = files.database
    BY <1>1, <2>1
  <2>3. files.database = Absent
    BY <1>1, <1>2, <2>1 DEF FilesInv
  <2>4. FilesInv'
    BY <2>1, <2>2, <2>3, <1>2 DEF FilesInv, Whole
  <2>5. QED
    BY <1>2, <1>10, <2>1, <2>2, <2>4, MakingInv DEF WriteCertificate, Whole
<1>11. ASSUME NEW p \in Processes, NEW name \in {"key", "ca"}, Link(p, name)
       PROVE  DirectoryInv'
  <2>1. /\ files' = [files EXCEPT ![name] = [files[name] EXCEPT !.at = "linked"]]
        /\ files[name].at = "temporary" /\ files[name] \in KeyFiles
    BY <1>2, <1>11 DEF Link, Making
  <2>2. /\ [files[name] EXCEPT !.at = "linked"] \in KeyFiles
        /\ [files[name] EXCEPT !.at = "linked"].of = files[name].of
    BY <2>1 DEF KeyFiles
  <2>3. CASE name = "key"
    <3>1. files' \in Files /\ files'.ca = files.ca /\ files'.database = files.database
      BY <1>1, <2>1, <2>2, <2>3
    <3>2. files.ca = Absent /\ files.database = Absent /\ ~Whole(files.key)
      BY <1>1, <1>2, <2>1, <2>3 DEF FilesInv, Whole
    <3>3. FilesInv'
      BY <1>2, <3>1, <3>2 DEF FilesInv
    <3>4. QED
      BY <1>11, <3>1, <3>2, <3>3, MakingInv DEF Link
  <2>4. CASE name = "ca"
    <3>1. /\ files' \in Files /\ files'.key = files.key /\ files'.database = files.database
          /\ files'.ca.of = files.ca.of
      BY <1>1, <2>1, <2>2, <2>4
    <3>2. files.ca # Absent /\ files.database = Absent /\ ~Whole(files.ca)
      BY <1>1, <1>2, <2>1, <2>4 DEF FilesInv, Whole
    <3>3. FilesInv'
      BY <1>1, <1>2, <3>1, <3>2 DEF FilesInv, Whole
    <3>4. QED
      BY <1>11, <3>1, <3>2, <3>3, MakingInv DEF Link
  <2>5. QED
    BY <2>3, <2>4
<1>12. ASSUME NEW p \in Processes, Unlink(p, "key", "ca")
       PROVE  DirectoryInv'
  <2>1. /\ files' = [files EXCEPT !.key = [files.key EXCEPT !.at = "whole"]]
        /\ files.key.at = "linked" /\ process[p].at = "key"
    <3>1. \A name \in {"key", "ca"} : files[name] = IF name = "key" THEN files.key ELSE files.ca
      BY <1>1
    <3>2. Making("key", [files["key"] EXCEPT !.at = "whole"]) /\ files["key"].at = "linked"
          /\ process[p].at = "key"
      BY <1>12 DEF Unlink, Runs
    <3>3. QED
      BY <3>1, <3>2 DEF Making
  <2>2. [files.key EXCEPT !.at = "whole"] \in KeyFiles /\ [files.key EXCEPT !.at = "whole"].at = "whole"
    BY <1>2 DEF KeyFiles
  <2>3. /\ files' \in Files /\ files'.ca = files.ca /\ files'.database = files.database
        /\ Whole(files'.key)
    BY <1>1, <2>1, <2>2 DEF Whole
  <2>4. files.ca = Absent /\ files.database = Absent
    BY <1>1, <1>2, <2>1 DEF FilesInv, Whole
  <2>5. FilesInv'
    BY <1>2, <2>3, <2>4 DEF FilesInv
  <2>6. Goes(p, "ca") /\ UNCHANGED lock /\ process[p] # NotRunning
    BY <1>3, <1>12, <2>1 DEF Unlink
  <2>7. QED
    BY <2>3, <2>5, <2>6, GoesInv
<1>13. ASSUME NEW p \in Processes, Unlink(p, "ca", "database")
       PROVE  DirectoryInv'
  <2>1. /\ files' = [files EXCEPT !.ca = [files.ca EXCEPT !.at = "whole"]]
        /\ files.ca.at = "linked" /\ process[p].at = "ca"
    <3>1. \A name \in {"key", "ca"} : files[name] = IF name = "key" THEN files.key ELSE files.ca
      BY <1>1
    <3>2. Making("ca", [files["ca"] EXCEPT !.at = "whole"]) /\ files["ca"].at = "linked"
          /\ process[p].at = "ca"
      BY <1>13 DEF Unlink, Runs
    <3>3. QED
      BY <3>1, <3>2 DEF Making
  <2>2. /\ [files.ca EXCEPT !.at = "whole"] \in KeyFiles /\ [files.ca EXCEPT !.at = "whole"].at = "whole"
        /\ [files.ca EXCEPT !.at = "whole"].of = files.ca.of
    BY <1>2 DEF KeyFiles
  <2>3. /\ files' \in Files /\ files'.key = files.key /\ files'.database = files.database
        /\ Whole(files'.ca) /\ files'.ca.of = files.ca.of
    BY <1>1, <2>1, <2>2 DEF Whole
  <2>4. files.ca # Absent /\ files.database = Absent
    BY <1>1, <1>2, <2>1 DEF FilesInv, Whole
  <2>5. FilesInv'
    BY <1>1, <1>2, <2>3, <2>4 DEF FilesInv, Whole
  <2>6. Goes(p, "database") /\ UNCHANGED lock /\ process[p] # NotRunning
    BY <1>3, <1>13, <2>1 DEF Unlink
  <2>7. QED
    BY <2>3, <2>5, <2>6, GoesInv
<1>14. ASSUME NEW p \in Processes, CreateDatabase(p)
       PROVE  DirectoryInv'
  <2>1. process[p].at = "database" /\ files.database = Absent /\ Whole(files.ca)
    BY <1>1, <1>14 DEF CreateDatabase, Runs, PlaceInv
  <2>2. /\ files' \in Files /\ files'.key = files.key /\ files'.ca = files.ca
        /\ files'.database.at = "empty"
    BY <1>1, <1>14 DEF CreateDatabase, Making, Databases, Identities
  <2>3. FilesInv'
    BY <1>1, <2>1, <2>2 DEF FilesInv, Whole
  <2>4. QED
    BY <1>2, <1>14, <2>1, <2>2, <2>3, MakingInv DEF CreateDatabase
<1>15. ASSUME NEW p \in Processes, CommitDatabase(p)
       PROVE  DirectoryInv'
  <2>1. process[p].at = "database" /\ files.database.at = "empty" /\ Whole(files.ca)
    BY <1>1, <1>15 DEF CommitDatabase, Runs, PlaceInv
  <2>2. /\ files' \in Files /\ files'.key = files.key /\ files'.ca = files.ca
        /\ files'.database.at = "ready" /\ files'.database.of = files.key.of
    BY <1>1, <1>2, <1>15 DEF CommitDatabase, Making, Databases, KeyFiles
  <2>3. FilesInv'
    BY <1>1, <2>1, <2>2 DEF FilesInv, Whole
  <2>4. Goes(p, "done") /\ UNCHANGED lock /\ process[p] # NotRunning
    BY <1>3, <1>15, <2>1 DEF CommitDatabase
  <2>5. QED
    BY <2>2, <2>3, <2>4, GoesInv
<1>16. ASSUME NEW p \in Processes, InitReturns(p)
       PROVE  DirectoryInv'
  BY <1>5, <1>16 DEF InitReturns, Runs
<1>17. ASSUME NEW p \in Processes, InitFails(p)
       PROVE  DirectoryInv'
  <2>1. ASSUME NEW file \in KeyFiles
        PROVE  /\ Cleaned(file) \in KeyFiles
               /\ Whole(file) => Cleaned(file) = file
               /\ Cleaned(file) # Absent => file # Absent /\ Cleaned(file).of = file.of
    <3>1. CASE file.at = "temporary"
      BY <1>2, <3>1 DEF Cleaned, Whole
    <3>2. CASE file.at = "linked"
      BY <2>1, <1>2, <3>2 DEF Cleaned, Whole, KeyFiles
    <3>3. CASE file.at \notin {"temporary", "linked"}
      BY <2>1, <3>3 DEF Cleaned
    <3>4. QED
      BY <3>1, <3>2, <3>3
  <2>2. /\ files' \in Files /\ files'.key = Cleaned(files.key) /\ files'.ca = Cleaned(files.ca)
        /\ files'.database = files.database
    BY <1>1, <1>2, <1>17, <2>1 DEF InitFails
  <2>3. FilesInv'
    BY <1>1, <1>2, <2>1, <2>2 DEF FilesInv
  <2>4. QED
    BY <1>3, <1>17, <2>2, <2>3, LeavesInv DEF InitFails
<1>18. ASSUME NEW p \in Processes, Dies(p)
       PROVE  DirectoryInv'
  BY <1>5, <1>18 DEF Dies
<1>19. ASSUME NEW p \in Processes, Inspects(p)
       PROVE  DirectoryInv'
  BY <1>5, <1>19 DEF Inspects
<1>20. ASSUME NEW p \in Processes, OpenStore(p)
       PROVE  DirectoryInv'
  <2>1. process[p].at = "locked" /\ UNCHANGED files
    BY <1>20 DEF OpenStore
  <2>2. CASE Leaves(p)
    BY <1>5, <2>1, <2>2
  <2>3. CASE ~Leaves(p)
    <3>1. PICK place \in {"serving", "inspecting"} : Goes(p, place) /\ UNCHANGED lock
      BY <1>20, <2>3 DEF OpenStore
    <3>2. files.database.at = "ready"
      BY <1>20, <2>3 DEF OpenStore, Openable, StoreOpens, SchemaFits
    <3>3. QED
      BY <1>3, <1>4, <2>1, <3>1, <3>2, GoesInv
  <2>4. QED
    BY <2>2, <2>3
<1>21. ASSUME NEW p \in Processes, process[p].at = "serving" /\ Leaves(p) /\ UNCHANGED files
       PROVE  DirectoryInv'
  BY <1>5, <1>21
<1>22. ASSUME NEW p \in Processes, InitStep(p)
       PROVE  DirectoryInv'
  BY <1>8, <1>9, <1>10, <1>11, <1>12, <1>13, <1>14, <1>15, <1>16, <1>17, <1>22 DEF InitStep
<1>23. QED
  BY <1>6, <1>7, <1>18, <1>19, <1>20, <1>21, <1>22 DEF Touches, DirectoryStep

\* What the invariant says of a process that has the store open.
LEMMA OpenedIsWhole ==
    ASSUME DirectoryInv
    PROVE  OpensWhatInitMade
<1> SUFFICES ASSUME NEW p \in Processes, process[p].at \in {"serving", "inspecting"}
             PROVE  lock = p /\ files.database.at = "ready" /\ Unlockable
  BY DEF OpensWhatInitMade
<1>1. process[p] # NotRunning
  BY DEF NotRunning
<1>2. lock = p /\ files.database.at = "ready"
  BY <1>1 DEF DirectoryInv, LockInv, PlaceInv
<1>3. files.database # Absent /\ files.database.of = files.key.of
  BY <1>2 DEF DirectoryInv, FilesInv, Absent
<1>4. Whole(files.ca) /\ files.ca # Absent
  BY <1>3 DEF DirectoryInv, FilesInv, Whole, Absent
<1>5. QED
  BY <1>2, <1>3, <1>4 DEF DirectoryInv, FilesInv, Unlockable, KeyOf, CertificateOf

\* An identity, a CA certificate or a database that can be seen stays.
LEMMA TouchesPreserve ==
    ASSUME DirectoryInv, Touches
    PROVE  /\ \A name \in {"key", "ca"} : files[name].at \in {"linked", "whole"} =>
                  files'[name].at \in {"linked", "whole"} /\ files'[name].of = files[name].of
           /\ files.database.at = "ready" => files'.database = files.database
<1> DEFINE Files == [key : KeyFiles, ca : KeyFiles, database : Databases, writer_lock : BOOLEAN]
<1> DEFINE Kept == /\ \A name \in {"key", "ca"} : files[name].at \in {"linked", "whole"} =>
                       files'[name].at \in {"linked", "whole"} /\ files'[name].of = files[name].of
                   /\ files.database.at = "ready" => files'.database = files.database
<1>1. files \in Files
  BY DEF DirectoryInv, DirectoryType
<1>2. CASE UNCHANGED files
  BY <1>2
<1>3. CASE files' = [files EXCEPT !.writer_lock = TRUE]
  BY <1>1, <1>3
<1>4. ASSUME NEW name \in {"key", "ca"}, NEW file, Making(name, file),
             files[name].at \in {"linked", "whole"} =>
                 file.at \in {"linked", "whole"} /\ file.of = files[name].of
      PROVE  Kept
  <2>1. files' = [files EXCEPT ![name] = file]
    BY <1>4 DEF Making
  <2>2. /\ files'[name] = file /\ files'.database = files.database
        /\ \A other \in {"key", "ca"} \ {name} : files'[other] = files[other]
    BY <1>1, <2>1
  <2>3. QED
    BY <1>4, <2>2
<1>5. ASSUME NEW p \in Processes, InitStep(p)
      PROVE  Kept
  <2>1. CASE BeginInit(p) \/ InitReturns(p)
    BY <1>2, <2>1 DEF BeginInit, InitReturns
  <2>2. CASE WriteKey(p)
    <3>1. files["key"].at = "absent"
      BY <1>1, <2>2 DEF WriteKey, Absent
    <3>2. QED
      BY <1>4, <2>2, <3>1 DEF WriteKey
  <2>3. CASE WriteCertificate(p)
    <3>1. files["ca"].at = "absent"
      BY <1>1, <2>3 DEF WriteCertificate, Absent
    <3>2. QED
      BY <1>4, <2>3, <3>1 DEF WriteCertificate
  <2>4. ASSUME NEW name \in {"key", "ca"}, Link(p, name)
        PROVE  Kept
    <3>1. files[name].at = "temporary"
      BY <2>4 DEF Link
    <3>2. QED
      BY <1>4, <2>4, <3>1 DEF Link
  <2>5. ASSUME NEW name \in {"key", "ca"}, NEW next, Unlink(p, name, next)
        PROVE  Kept
    <3>1. files[name] \in KeyFiles
      BY <1>1
    <3>2. /\ [files[name] EXCEPT !.at = "whole"].at = "whole"
          /\ [files[name] EXCEPT !.at = "whole"].of = files[name].of
      BY <3>1 DEF KeyFiles
    <3>3. QED
      BY <1>4, <2>5, <3>2 DEF Unlink
  <2>6. CASE CreateDatabase(p) \/ CommitDatabase(p)
    <3>1. files.database.at \in {"absent", "empty"}
      BY <2>6 DEF CreateDatabase, CommitDatabase, Absent
    <3>2. files'.key = files.key /\ files'.ca = files.ca
      BY <1>1, <2>6 DEF CreateDatabase, CommitDatabase, Making
    <3>3. \A name \in {"key", "ca"} : files'[name] = files[name]
      BY <3>2
    <3>4. QED
      BY <3>1, <3>3
  <2>7. CASE InitFails(p)
    <3>1. ASSUME NEW file \in KeyFiles, file.at \in {"linked", "whole"}
          PROVE  Cleaned(file).at \in {"linked", "whole"} /\ Cleaned(file).of = file.of
      <4>1. CASE file.at = "linked"
        BY <3>1, <4>1 DEF Cleaned, KeyFiles
      <4>2. CASE file.at = "whole"
        BY <4>2 DEF Cleaned
      <4>3. QED
        BY <3>1, <4>1, <4>2
    <3>2. /\ files'.key = Cleaned(files.key) /\ files'.ca = Cleaned(files.ca)
          /\ files'.database = files.database
          /\ files.key \in KeyFiles /\ files.ca \in KeyFiles
      BY <1>1, <2>7 DEF InitFails
    <3>3. \A name \in {"key", "ca"} : files'[name] = Cleaned(files[name]) /\ files[name] \in KeyFiles
      BY <3>2
    <3>4. QED
      BY <3>1, <3>2, <3>3
  <2>8. QED
    BY <1>5, <2>1, <2>2, <2>3, <2>4, <2>5, <2>6, <2>7 DEF InitStep
<1>6. ASSUME NEW p \in Processes, OpenStore(p) \/ Dies(p) \/ Inspects(p)
      PROVE  Kept
  BY <1>2, <1>6 DEF OpenStore, Dies, Inspects
<1>7. QED
  BY <1>2, <1>3, <1>5, <1>6 DEF Touches, DirectoryStep, CreateLockFile, Enter

\* A step of the whole system is one on the directory, or leaves it alone.
LEMMA DirectoryOrNot ==
    ASSUME [Next]_vars
    PROVE  Touches \/ UNCHANGED directory
  BY DEF Next, vars, ServiceStep, ServiceOpens, ServiceCloses, Touches

\* A new directory satisfies the invariant.
LEMMA DirectoryStarts ==
    ASSUME DirectoryInit
    PROVE  DirectoryInv
<1>1. NotRunning \in Commands /\ Absent \in KeyFiles /\ Absent \in Databases /\ ~Whole(Absent)
  BY DEF NotRunning, Commands, Absent, KeyFiles, Databases, Identities, Whole
<1>2. DirectoryType
  BY <1>1 DEF DirectoryInit, DirectoryType, Identities
<1>3. LockInv /\ PlaceInv
  BY DEF DirectoryInit, LockInv, PlaceInv, NotRunning
<1>4. FilesInv
  BY DEF DirectoryInit, FilesInv, Absent
<1>5. QED
  BY <1>2, <1>3, <1>4 DEF DirectoryInv

\* The invariant of the directory, under every step.
LEMMA DirectoryStays ==
    ASSUME DirectoryInv, [Next]_vars
    PROVE  DirectoryInv'
<1>1. CASE Touches
  BY <1>1, TouchesInv
<1>2. CASE UNCHANGED directory
  BY <1>2 DEF directory, DirectoryInv, DirectoryType, LockInv, FilesInv, PlaceInv, Whole
<1>3. QED
  BY <1>1, <1>2, DirectoryOrNot

\* The invariant of the directory holds of every behaviour.
THEOREM DirectoryInvariance == Spec => []DirectoryInv
<1>1. Init => DirectoryInv
  BY DirectoryStarts DEF Init
<1>2. DirectoryInv /\ [Next]_vars => DirectoryInv'
  BY DirectoryStays
<1>3. QED
  BY <1>1, <1>2, PTL DEF Spec

\* Whatever inits died or failed before, a store that could be opened comes with
\* the key and the certificate of its identity.
THEOREM OpenedStoreIsUsable == Spec => []OpensWhatInitMade
  BY DirectoryInvariance, OpenedIsWhole, PTL

\* No command, finished or not, overwrites an identity, a CA or a database.
THEOREM Preserved == Spec => StateIsPreserved
<1>1. DirectoryInv /\ [Next]_vars =>
        [/\ \A name \in {"key", "ca"} : files[name].at \in {"linked", "whole"} =>
              files'[name].at \in {"linked", "whole"} /\ files'[name].of = files[name].of
         /\ files.database.at = "ready" => files'.database = files.database]_directory
  BY DirectoryOrNot, TouchesPreserve
<1>2. QED
  BY <1>1, DirectoryInvariance, PTL DEF Spec, StateIsPreserved

-----------------------------------------------------------------------------
(* The leases.                                                             *)

LeaseNumbers == 0..MaxLeases
Owners   == [at : {"gone", "prompt", "binding", "locking"}, lease : LeaseNumbers, leaving : BOOLEAN]
Services == [server : LeaseNumbers, signer : LeaseNumbers]
Closers  == [at : {"none", "created", "draining", "joining", "done"}, cancel_expiry : BOOLEAN]
Conns    == [lease : LeaseNumbers, cancelled : BOOLEAN,
             at : {"none", "accepted", "refused", "reading", "serving", "closing", "unwinding"}]
Handlers == {"none", "created", "executing", "stopping", "done"}

\* What runs is typed.
RunType ==
    /\ owner \in Owners
    /\ service \in Services
    /\ opened \in LeaseNumbers
    /\ listener \in [Leases -> {"none", "accepting", "closed"}]
    /\ material \in [Leases -> {"none", "open", "closed"}]
    /\ closer \in [Leases -> Closers]
    /\ expiry \in [Leases -> {"none", "asleep", "closing", "ended"}]
    /\ conn \in [Connections -> Conns]
    /\ handler \in [Connections -> Handlers]

\* A lease nothing has happened to but that it may have been opened.
Untouched(l) == listener[l] = "none" /\ closer[l].at = "none" /\ expiry[l] = "none"

\* What the service exposes, at each place of the command loop.
OwnerInv ==
    /\ service.server <= opened
    /\ owner.at = "gone" => owner.lease = 0 /\ service.server = 0 /\ service.signer = 0
    /\ owner.at = "prompt" => owner.lease = 0 /\ service.signer = service.server
    /\ owner.at = "binding" =>
           /\ owner.lease = opened /\ opened > 0
           /\ service.signer = opened /\ service.server = 0
           /\ Untouched(opened)
    /\ owner.at = "locking" =>
           /\ owner.lease \in 1..opened
           /\ service.signer = owner.lease /\ service.server = 0
           /\ closer[owner.lease].at # "none"

\* A lease that is not open yet, and one whose close task has come to its end.
LeaseInv ==
    \A l \in Leases :
        /\ l > opened => Untouched(l)
        /\ Shutdown(l) => listener[l] # "accepting"
        /\ closer[l].at \in {"joining", "done"} => material[l] = "closed" /\ Open(l) = {}

\* A connection came through a listener, and a handler task through a connection.
ConnInv ==
    \A c \in Connections :
        /\ conn[c].at # "none" => conn[c].lease \in 1..opened /\ listener[conn[c].lease] # "none"
        /\ conn[c].at = "none" => handler[c] = "none"

RunInv == RunType /\ OwnerInv /\ LeaseInv /\ ConnInv /\ LetGoIsReleased

\* No lease in the numbers but the first.
LEMMA LeaseFacts ==
    ASSUME RunType
    PROVE  /\ MaxLeases \in Nat \ {0} /\ Leases = LeaseNumbers \ {0} /\ LeaseNumbers \subseteq Nat
           /\ 1..opened \subseteq Leases
  BY LeaseAssumption DEF RunType, Leases, LeaseNumbers

\* Without a lease in use nobody is connected, and nobody works.
LEMMA NobodyWorks ==
    ASSUME RunInv, service.server = 0, owner.lease # 0 => Open(owner.lease) = {}
    PROVE  \A c \in Connections : conn[c].at = "none" /\ handler[c] = "none"
<1>1. ASSUME NEW c \in Connections, conn[c].at # "none"
      PROVE  FALSE
  <2>1. conn[c].lease \in 1..opened /\ c \in Open(conn[c].lease)
    BY <1>1 DEF RunInv, ConnInv, Open
  <2>2. conn[c].lease # 0
    BY <2>1, LeaseFacts DEF RunInv
  <2>3. CASE conn[c].lease = owner.lease
    BY <2>1, <2>2, <2>3
  <2>4. CASE conn[c].lease # owner.lease
    BY <2>1, <2>2, <2>4 DEF RunInv, LetGoIsReleased, Released
  <2>5. QED
    BY <2>3, <2>4
<1>2. QED
  BY <1>1 DEF RunInv, ConnInv

\* What a connection and its handler task may become in one step.
LEMMA ConnectionMoves ==
    ASSUME RunInv, NEW c \in Connections, ConnectionStep(c)
    PROVE  /\ UNCHANGED <<lifecycle, wss>>
           /\ \E r \in Conns, h \in Handlers :
                  /\ conn' = [conn EXCEPT ![c] = r] /\ handler' = [handler EXCEPT ![c] = h]
                  /\ r.at = "none" => h = "none"
                  /\ r.at # "none" =>
                         \/ r.lease = conn[c].lease /\ conn[c].at # "none"
                         \/ r.lease \in Leases /\ listener[r.lease] = "accepting"
                  /\ h \in {"executing", "stopping"} =>
                         \/ handler[c] \in {"executing", "stopping"}
                         \/ service.signer # 0
<1> DEFINE Becomes(r, h) ==
             /\ conn' = [conn EXCEPT ![c] = r] /\ handler' = [handler EXCEPT ![c] = h]
             /\ r.at = "none" => h = "none"
             /\ r.at # "none" =>
                    \/ r.lease = conn[c].lease /\ conn[c].at # "none"
                    \/ r.lease \in Leases /\ listener[r.lease] = "accepting"
             /\ h \in {"executing", "stopping"} =>
                    \/ handler[c] \in {"executing", "stopping"}
                    \/ service.signer # 0
<1> DEFINE Moves == \E r \in Conns, h \in Handlers : Becomes(r, h)
<1>1. /\ conn \in [Connections -> Conns] /\ handler \in [Connections -> Handlers]
      /\ conn[c] \in Conns /\ handler[c] \in Handlers
      /\ conn = [conn EXCEPT ![c] = conn[c]] /\ handler = [handler EXCEPT ![c] = handler[c]]
      /\ conn[c].at = "none" => handler[c] = "none"
  BY DEF RunInv, RunType, ConnInv
<1>2. UNCHANGED <<lifecycle, wss>>
  BY DEF ConnectionStep, Accept, Begin, Message, StopsReading, StopsServing, Unwinds, Ends,
         HandlerStarts, HandlerEnds
<1>3. ASSUME NEW place \in {"refused", "reading", "serving", "closing", "unwinding"},
             conn' = At(c, place), conn[c].at # "none",
             NEW h \in Handlers, handler' = [handler EXCEPT ![c] = h],
             h \in {"executing", "stopping"} => handler[c] \in {"executing", "stopping"}
      PROVE  Moves
  <2>1. [conn[c] EXCEPT !.at = place] \in Conns /\ [conn[c] EXCEPT !.at = place].lease = conn[c].lease
        /\ [conn[c] EXCEPT !.at = place].at = place
    BY <1>1 DEF Conns
  <2>2. conn' = [conn EXCEPT ![c] = [conn[c] EXCEPT !.at = place]]
    BY <1>1, <1>3 DEF At
  <2>3. Becomes([conn[c] EXCEPT !.at = place], h)
    BY <1>3, <2>1, <2>2
  <2>4. QED
    BY <1>3, <2>1, <2>3
<1>4. ASSUME NEW h \in Handlers, UNCHANGED conn, handler' = [handler EXCEPT ![c] = h],
             handler[c] # "none",
             h \in {"executing", "stopping"} =>
                 handler[c] \in {"executing", "stopping"} \/ service.signer # 0
      PROVE  Moves
  <2>1. Becomes(conn[c], h)
    BY <1>1, <1>4
  <2>2. QED
    BY <1>1, <1>4, <2>1
<1>5. CASE Accept(c)
  <2>1. PICK l \in Leases :
             /\ listener[l] = "accepting"
             /\ conn' = [conn EXCEPT ![c] = [NoConnection EXCEPT !.lease = l, !.at = "accepted"]]
    BY <1>5 DEF Accept
  <2>2. /\ [NoConnection EXCEPT !.lease = l, !.at = "accepted"] \in Conns
        /\ [NoConnection EXCEPT !.lease = l, !.at = "accepted"].lease = l
        /\ [NoConnection EXCEPT !.lease = l, !.at = "accepted"].at = "accepted"
    BY LeaseFacts DEF NoConnection, Conns, RunInv
  <2>3. Becomes([NoConnection EXCEPT !.lease = l, !.at = "accepted"], "none")
    BY <1>5, <2>1, <2>2 DEF Accept
  <2>4. QED
    BY <1>2, <2>2, <2>3 DEF Handlers
<1>6. CASE Begin(c)
  <2>1. PICK place \in {"refused", "reading"} : conn' = At(c, place)
    BY <1>6 DEF Begin
  <2>2. QED
    BY <1>1, <1>3, <1>6, <2>1 DEF Begin
<1>7. CASE Message(c)
  BY <1>3, <1>7 DEF Message, Handlers
<1>8. CASE StopsReading(c) \/ StopsServing(c)
  BY <1>1, <1>3, <1>8 DEF StopsReading, StopsServing
<1>9. CASE Unwinds(c)
  <2>1. handler' = [handler EXCEPT ![c] = Cancelled(handler[c])] /\ conn' = At(c, "unwinding")
        /\ conn[c].at # "none"
    BY <1>1, <1>9 DEF Unwinds
  <2>2. /\ Cancelled(handler[c]) \in Handlers
        /\ Cancelled(handler[c]) \in {"executing", "stopping"} => handler[c] \in {"executing", "stopping"}
    <3>1. CASE handler[c] = "created"
      BY <3>1 DEF Cancelled, Handlers
    <3>2. CASE handler[c] = "executing"
      BY <3>2 DEF Cancelled, Handlers
    <3>3. CASE handler[c] \notin {"created", "executing"}
      BY <1>1, <3>3 DEF Cancelled, Handlers
    <3>4. QED
      BY <3>1, <3>2, <3>3
  <2>3. QED
    BY <1>2, <1>3, <2>1, <2>2
<1>10. CASE Ends(c)
  <2>1. NoConnection \in Conns /\ NoConnection.at = "none" /\ "none" \in Handlers
    BY LeaseFacts DEF NoConnection, Conns, Handlers, LeaseNumbers, RunInv
  <2>2. Becomes(NoConnection, "none")
    BY <1>10, <2>1 DEF Ends
  <2>3. QED
    BY <1>2, <2>1, <2>2
<1>11. CASE HandlerStarts(c)
  <2>1. PICK h \in {"done", "executing"} :
             /\ handler' = [handler EXCEPT ![c] = h]
             /\ h = "executing" => service.signer # 0
    BY <1>1, <1>11 DEF HandlerStarts
  <2>2. QED
    BY <1>4, <1>11, <2>1 DEF HandlerStarts, Handlers
<1>12. CASE HandlerEnds(c)
  BY <1>4, <1>12 DEF HandlerEnds, Handlers
<1>13. QED
  BY <1>2, <1>5, <1>6, <1>7, <1>8, <1>9, <1>10, <1>11, <1>12 DEF ConnectionStep

\* A step of a connection keeps what the leases are.
LEMMA ConnectionInv ==
    ASSUME RunInv, NEW c \in Connections, ConnectionStep(c)
    PROVE  RunInv'
<1>1. /\ owner' = owner /\ service' = service /\ opened' = opened /\ listener' = listener
      /\ material' = material /\ closer' = closer /\ expiry' = expiry
  BY ConnectionMoves DEF lifecycle, wss
<1>2. PICK r \in Conns, h \in Handlers :
           /\ conn' = [conn EXCEPT ![c] = r] /\ handler' = [handler EXCEPT ![c] = h]
           /\ r.at = "none" => h = "none"
           /\ r.at # "none" =>
                  \/ r.lease = conn[c].lease /\ conn[c].at # "none"
                  \/ r.lease \in Leases /\ listener[r.lease] = "accepting"
  BY ConnectionMoves
<1>3. /\ conn \in [Connections -> Conns] /\ handler \in [Connections -> Handlers]
      /\ conn' \in [Connections -> Conns] /\ handler' \in [Connections -> Handlers]
      /\ conn'[c] = r /\ handler'[c] = h
      /\ \A d \in Connections \ {c} : conn'[d] = conn[d] /\ handler'[d] = handler[d]
  BY <1>2 DEF RunInv, RunType
<1>4. RunType'
  BY <1>1, <1>3 DEF RunInv, RunType
<1>5. OwnerInv'
  BY <1>1 DEF RunInv, OwnerInv, Untouched
<1>6. ASSUME NEW l \in Leases, Open(l) = {}, listener[l] # "accepting"
      PROVE  Open(l)' = {}
  BY <1>2, <1>3, <1>6 DEF Open
<1>7. LeaseInv'
  BY <1>1, <1>6 DEF RunInv, LeaseInv, Untouched, Shutdown
<1>8. ConnInv'
  <2>1. ASSUME r.at # "none"
        PROVE  r.lease \in 1..opened /\ listener[r.lease] # "none"
    <3>1. CASE r.lease = conn[c].lease /\ conn[c].at # "none"
      BY <3>1 DEF RunInv, ConnInv
    <3>2. CASE r.lease \in Leases /\ listener[r.lease] = "accepting"
      <4>1. r.lease \in Nat \ {0} /\ opened \in Nat /\ ~(r.lease > opened)
        BY <3>2, LeaseFacts DEF RunInv, LeaseInv, Untouched, RunType
      <4>2. QED
        BY <3>2, <4>1
    <3>3. QED
      BY <1>2, <2>1, <3>1, <3>2
  <2>2. QED
    BY <1>1, <1>2, <1>3, <2>1 DEF RunInv, ConnInv
<1>9. LetGoIsReleased'
  BY <1>1, <1>6, LeaseFacts DEF RunInv, LetGoIsReleased, Released
<1>10. QED
  BY <1>4, <1>5, <1>7, <1>8, <1>9 DEF RunInv

\* A step of the close task or of the expiry task of a lease does, too.
LEMMA LeaseStepInv ==
    ASSUME RunInv, NEW l \in Leases, LeaseStep(l)
    PROVE  RunInv'
<1>1. /\ owner' = owner /\ service' = service /\ opened' = opened /\ handler' = handler
  BY DEF LeaseStep, FinishStarts, FinishDrains, FinishJoinsExpiry, ExpiryWakes, ExpiryReturns,
         lifecycle
<1>2. RunType /\ OwnerInv /\ LeaseInv /\ ConnInv /\ LetGoIsReleased
  BY DEF RunInv
<1>3. /\ conn' \in [Connections -> Conns]
      /\ \A c \in Connections : conn'[c].at = conn[c].at /\ conn'[c].lease = conn[c].lease
  <2>1. CASE FinishStarts(l)
    <3>1. ASSUME NEW c \in Connections
          PROVE  /\ [conn[c] EXCEPT !.cancelled = TRUE] \in Conns /\ conn[c] \in Conns
                 /\ [conn[c] EXCEPT !.cancelled = TRUE].at = conn[c].at
                 /\ [conn[c] EXCEPT !.cancelled = TRUE].lease = conn[c].lease
      BY <1>2 DEF RunType, Conns
    <3>2. \A c \in Connections : conn'[c] \in {conn[c], [conn[c] EXCEPT !.cancelled = TRUE]}
      BY <2>1 DEF FinishStarts
    <3>3. conn' = [c \in Connections |-> conn'[c]]
      BY <2>1 DEF FinishStarts
    <3>4. QED
      BY <3>1, <3>2, <3>3
  <2>2. CASE UNCHANGED conn
    BY <1>2, <2>2 DEF RunType
  <2>3. QED
    BY <2>1, <2>2 DEF LeaseStep, FinishDrains, FinishJoinsExpiry, ExpiryWakes, ExpiryReturns
<1>4. \A k \in Leases : Open(k)' = Open(k)
  BY <1>3 DEF Open
<1>5. closer[l] \in Closers
  BY <1>2 DEF RunType
<1> DEFINE Becomes(closes, listens, holds, expires) ==
             /\ closer' = [closer EXCEPT ![l] = closes]
             /\ listener' = [listener EXCEPT ![l] = listens]
             /\ material' = [material EXCEPT ![l] = holds]
             /\ expiry' = [expiry EXCEPT ![l] = expires]
             /\ closes.at # "none"
             /\ ~Untouched(l)
             /\ listens \in {listener[l], "closed"} /\ holds \in {material[l], "closed"}
             /\ listens = "accepting" => closes.at = "created" \/ closes = closer[l]
             /\ closes.at \in {"joining", "done"} =>
                    \/ closes = closer[l] /\ holds = material[l]
                    \/ closer[l].at \in {"joining", "done"} /\ holds = material[l]
                    \/ Open(l) = {} /\ holds = "closed"
<1>6. PICK closes \in Closers, listens \in {"none", "accepting", "closed"},
           holds \in {"none", "open", "closed"}, expires \in {"none", "asleep", "closing", "ended"} :
          Becomes(closes, listens, holds, expires)
  <2>1. /\ closer = [closer EXCEPT ![l] = closer[l]] /\ listener = [listener EXCEPT ![l] = listener[l]]
        /\ material = [material EXCEPT ![l] = material[l]] /\ expiry = [expiry EXCEPT ![l] = expiry[l]]
        /\ closer[l] \in Closers /\ listener[l] \in {"none", "accepting", "closed"}
        /\ material[l] \in {"none", "open", "closed"}
        /\ expiry[l] \in {"none", "asleep", "closing", "ended"}
    BY <1>2 DEF RunType
  <2>2. ASSUME NEW place \in {"created", "draining", "joining", "done"}
        PROVE  /\ [closer[l] EXCEPT !.at = place] \in Closers
               /\ [closer[l] EXCEPT !.at = place].at = place
    BY <1>5 DEF Closers
  <2>3. ASSUME NEW place
        PROVE  [closer EXCEPT ![l].at = place] = [closer EXCEPT ![l] = [closer[l] EXCEPT !.at = place]]
    BY <2>1
  <2>4. CASE FinishStarts(l)
    <3>1. PICK expires \in {"none", "asleep", "closing", "ended"} : expiry' = [expiry EXCEPT ![l] = expires]
      BY <2>1, <2>4 DEF FinishStarts
    <3>2. Becomes([closer[l] EXCEPT !.at = "draining"], "closed", material[l], expires)
      BY <2>1, <2>2, <2>3, <2>4, <3>1 DEF FinishStarts, Untouched
    <3>3. QED
      BY <2>1, <2>2, <3>1, <3>2
  <2>5. CASE FinishDrains(l)
    <3>1. PICK place \in {"joining", "done"} : closer' = [closer EXCEPT ![l].at = place]
      BY <2>5 DEF FinishDrains
    <3>2. listener[l] # "accepting"
      BY <1>2, <2>5 DEF FinishDrains, LeaseInv, Shutdown
    <3>3. Becomes([closer[l] EXCEPT !.at = place], listener[l], "closed", expiry[l])
      BY <2>1, <2>2, <2>3, <2>5, <3>1, <3>2 DEF FinishDrains, Drained, Untouched
    <3>4. QED
      BY <2>1, <2>2, <3>1, <3>3
  <2>6. CASE FinishJoinsExpiry(l)
    <3>1. listener[l] # "accepting"
      BY <1>2, <2>6 DEF FinishJoinsExpiry, LeaseInv, Shutdown
    <3>2. Becomes([closer[l] EXCEPT !.at = "done"], listener[l], material[l], expiry[l])
      BY <2>1, <2>2, <2>3, <2>6, <3>1 DEF FinishJoinsExpiry, Untouched
    <3>3. QED
      BY <2>1, <2>2, <3>2
  <2>7. CASE ExpiryWakes(l)
    <3>1. PICK closes \in Closers :
               /\ closer' = [closer EXCEPT ![l] = closes] /\ closes.at # "none"
               /\ closes = closer[l] \/ closes.at = "created"
      <4>1. CASE closer[l].at = "none"
        <5>1. [at |-> "created", cancel_expiry |-> FALSE] \in Closers
          BY DEF Closers
        <5>2. closer' = [closer EXCEPT ![l] = [at |-> "created", cancel_expiry |-> FALSE]]
          BY <2>7, <4>1 DEF ExpiryWakes, CloseTask
        <5>3. QED
          BY <5>1, <5>2
      <4>2. CASE closer[l].at # "none"
        BY <2>1, <2>7, <4>2 DEF ExpiryWakes, CloseTask
      <4>3. QED
        BY <4>1, <4>2
    <3>2. Becomes(closes, listener[l], material[l], "closing")
      BY <2>1, <2>7, <3>1 DEF ExpiryWakes, Untouched
    <3>3. QED
      BY <2>1, <3>2
  <2>8. CASE ExpiryReturns(l)
    <3>1. Becomes(closer[l], listener[l], material[l], "ended")
      BY <2>1, <2>8 DEF ExpiryReturns, Untouched
    <3>2. QED
      BY <2>1, <3>1
  <2>9. QED
    BY <2>4, <2>5, <2>6, <2>7, <2>8 DEF LeaseStep
<1>7. RunType'
  BY <1>1, <1>2, <1>3, <1>6 DEF RunType
<1>8. /\ \A k \in Leases \ {l} : /\ closer'[k] = closer[k] /\ listener'[k] = listener[k]
                                 /\ material'[k] = material[k] /\ expiry'[k] = expiry[k]
      /\ closer'[l] = closes /\ listener'[l] = listens /\ material'[l] = holds /\ expiry'[l] = expires
  BY <1>2, <1>6 DEF RunType
<1>9. l \in Leases /\ ~(l > opened) /\ (owner.at = "binding" => l # opened)
  BY <1>2, <1>6 DEF OwnerInv, LeaseInv
<1>10. OwnerInv'
  BY <1>1, <1>2, <1>6, <1>8, <1>9, LeaseFacts DEF OwnerInv, Untouched
<1>11. LeaseInv'
  BY <1>1, <1>2, <1>4, <1>6, <1>8, <1>9 DEF LeaseInv, Untouched, Shutdown
<1>12. ConnInv'
  BY <1>1, <1>2, <1>3, <1>6, <1>8, LeaseFacts DEF ConnInv
<1>13. LetGoIsReleased'
  BY <1>1, <1>2, <1>4, <1>6, <1>8, LeaseFacts DEF LetGoIsReleased, Released
<1>14. QED
  BY <1>7, <1>10, <1>11, <1>12, <1>13 DEF RunInv

\* A lease that was released and that nothing opens again stays so.
LEMMA StaysReleased ==
    ASSUME NEW l, Released(l), UNCHANGED conn,
           listener'[l] # "accepting", material'[l] = "closed"
    PROVE  Released(l)'
  BY DEF Released, Open

\* A step of the owner's command loop keeps what the leases are.
LEMMA OwnerStepInv ==
    ASSUME RunInv, OwnerStep
    PROVE  RunInv'
<1>1. RunType /\ OwnerInv /\ LeaseInv /\ ConnInv /\ LetGoIsReleased
  BY DEF RunInv
<1>2. /\ MaxLeases \in Nat \ {0} /\ Leases = LeaseNumbers \ {0} /\ LeaseNumbers \subseteq Nat
      /\ 1..opened \subseteq Leases /\ 0 \in LeaseNumbers /\ opened \in Nat
  BY <1>1, LeaseFacts, LeaseAssumption DEF RunType, LeaseNumbers
<1>3. UNCHANGED <<conn, handler>>
  BY DEF OwnerStep, Unlock, ListenerStarts, ListenerFails, LockStarts, LockReturns, Interrupt,
         LeaveLocked
<1>4. \A l \in Leases : Open(l)' = Open(l)
  BY <1>3 DEF Open
<1>5. /\ owner \in Owners /\ service \in Services /\ Prompt \in Owners /\ Gone \in Owners
      /\ owner.lease \in LeaseNumbers
  BY <1>1, <1>2 DEF RunType, Prompt, Gone, Owners
<1>6. CASE Unlock
  <2>1. /\ opened + 1 \in Leases /\ opened + 1 \in LeaseNumbers /\ ~(opened + 1 <= opened)
    BY <1>2, <1>6 DEF Unlock, LeaseNumbers
  <2>2. /\ owner'.at = "binding" /\ owner'.lease = opened + 1 /\ owner' \in Owners
        /\ service'.signer = opened + 1 /\ service'.server = 0 /\ service' \in Services
        /\ opened' = opened + 1
    BY <1>5, <1>6, <2>1 DEF Unlock, Owners, Services
  <2>3. /\ material' = [material EXCEPT ![opened + 1] = "open"]
        /\ UNCHANGED <<listener, closer, expiry>>
        /\ owner.at = "prompt" /\ service.server = 0
    BY <1>6 DEF Unlock
  <2>4. RunType'
    BY <1>1, <1>3, <2>1, <2>2, <2>3 DEF RunType
  <2>5. Untouched(opened + 1)
    BY <1>1, <1>2, <2>1 DEF LeaseInv
  <2>6. OwnerInv'
    BY <1>2, <2>2, <2>3, <2>5 DEF OwnerInv, Untouched
  <2>7. LeaseInv'
    <3>1. ASSUME NEW l \in Leases
          PROVE  l > opened + 1 => l > opened
      BY <1>2
    <3>2. closer[opened + 1].at = "none"
      BY <2>5 DEF Untouched
    <3>3. \A l \in Leases \ {opened + 1} : material'[l] = material[l]
      BY <1>1, <2>3 DEF RunType
    <3>4. QED
      BY <1>1, <1>4, <2>2, <2>3, <3>1, <3>2, <3>3 DEF LeaseInv, Untouched, Shutdown
  <2>8. ConnInv'
    BY <1>1, <1>2, <1>3, <2>2, <2>3 DEF ConnInv
  <2>9. LetGoIsReleased'
    <3>1. SUFFICES ASSUME NEW l \in 1..opened', l \notin {service'.server, owner'.lease}
                   PROVE  Released(l)'
      BY DEF LetGoIsReleased
    <3>2. l \in 1..opened /\ l # opened + 1 /\ l # 0
      BY <1>2, <2>2, <3>1
    <3>3. owner.lease = 0
      BY <1>1, <2>3 DEF OwnerInv
    <3>4. Released(l)
      BY <1>1, <2>3, <3>2, <3>3 DEF LetGoIsReleased
    <3>5. QED
      BY <1>1, <1>2, <1>3, <2>3, <3>2, <3>4, StaysReleased DEF Released, RunType
  <2>10. QED
    BY <2>4, <2>6, <2>7, <2>8, <2>9 DEF RunInv
<1>7. CASE ListenerStarts
  <2>1. /\ owner.lease = opened /\ opened \in Leases /\ service.signer = opened /\ Untouched(opened)
    BY <1>1, <1>2, <1>7 DEF ListenerStarts, OwnerInv, RunType
  <2>2. /\ owner'.at = "prompt" /\ owner'.lease = 0 /\ owner' \in Owners
        /\ service'.server = opened /\ service'.signer = opened /\ service' \in Services
        /\ opened' = opened
    BY <1>2, <1>5, <1>7, <2>1 DEF ListenerStarts, Owners, Services
  <2>3. /\ listener' = [listener EXCEPT ![opened] = "accepting"]
        /\ expiry' = [expiry EXCEPT ![opened] = "asleep"]
        /\ UNCHANGED <<material, closer>>
        /\ owner.at = "binding"
    BY <1>7, <2>1 DEF ListenerStarts
  <2>4. RunType'
    BY <1>1, <1>3, <2>2, <2>3 DEF RunType
  <2>5. /\ \A l \in Leases \ {opened} : listener'[l] = listener[l] /\ expiry'[l] = expiry[l]
        /\ listener'[opened] = "accepting"
    BY <1>1, <2>1, <2>3 DEF RunType
  <2>6. OwnerInv'
    BY <1>2, <2>1, <2>2 DEF OwnerInv
  <2>7. LeaseInv'
    <3>1. closer[opened].at = "none" /\ ~(opened > opened)
      BY <1>2, <2>1 DEF Untouched
    <3>2. QED
      BY <1>1, <1>4, <2>1, <2>2, <2>3, <2>5, <3>1 DEF LeaseInv, Untouched, Shutdown
  <2>8. ConnInv'
    BY <1>1, <1>2, <1>3, <2>1, <2>2, <2>5 DEF ConnInv
  <2>9. LetGoIsReleased'
    <3>1. SUFFICES ASSUME NEW l \in 1..opened', l \notin {service'.server, owner'.lease}
                   PROVE  Released(l)'
      BY DEF LetGoIsReleased
    <3>2. l \in 1..opened /\ l # opened /\ l \in Leases /\ l # 0
      BY <1>2, <2>2, <3>1
    <3>3. Released(l)
      BY <1>1, <2>1, <2>3, <3>2 DEF LetGoIsReleased, OwnerInv
    <3>4. QED
      BY <1>3, <2>3, <2>5, <3>2, <3>3, StaysReleased DEF Released
  <2>10. QED
    BY <2>4, <2>6, <2>7, <2>8, <2>9 DEF RunInv
<1>8. CASE ListenerFails
  <2>1. /\ owner.lease = opened /\ opened \in Leases /\ Untouched(opened) /\ service.server = 0
        /\ owner.at = "binding"
    BY <1>1, <1>2, <1>8 DEF ListenerFails, OwnerInv, RunType
  <2>2. /\ owner' \in {Prompt, Gone} /\ owner' \in Owners
        /\ service'.server = 0 /\ service'.signer = 0 /\ service' \in Services /\ opened' = opened
    BY <1>2, <1>5, <1>8, <2>1 DEF ListenerFails, Services
  <2>3. /\ material' = [material EXCEPT ![opened] = "closed"]
        /\ UNCHANGED <<listener, closer, expiry>>
    BY <1>8, <2>1 DEF ListenerFails
  <2>4. RunType'
    BY <1>1, <1>3, <2>2, <2>3 DEF RunType
  <2>5. \A l \in Leases : material'[l] \in {material[l], "closed"}
    BY <1>1, <2>3 DEF RunType
  <2>6. OwnerInv'
    BY <1>2, <2>2 DEF OwnerInv, Prompt, Gone
  <2>7. LeaseInv'
    BY <1>1, <1>4, <2>2, <2>3, <2>5 DEF LeaseInv, Untouched, Shutdown
  <2>8. ConnInv'
    BY <1>1, <1>2, <1>3, <2>2, <2>3 DEF ConnInv
  <2>9. LetGoIsReleased'
    <3>1. SUFFICES ASSUME NEW l \in 1..opened'
                   PROVE  Released(l)'
      BY DEF LetGoIsReleased
    <3>2. l \in 1..opened /\ l \in Leases /\ l # 0
      BY <1>2, <2>2
    <3>3. CASE l = opened
      <4>1. Open(l) = {}
        BY <1>1, <2>1, <3>3 DEF ConnInv, Untouched, Open
      <4>2. material'[l] = "closed" /\ listener'[l] = "none"
        BY <1>1, <2>1, <2>3, <3>3 DEF RunType, Untouched
      <4>3. QED
        BY <1>4, <3>2, <4>1, <4>2 DEF Released
    <3>4. CASE l # opened
      <4>1. Released(l)
        BY <1>1, <2>1, <3>2, <3>4 DEF LetGoIsReleased
      <4>2. QED
        BY <1>3, <2>3, <2>5, <3>2, <4>1, StaysReleased DEF Released
    <3>5. QED
      BY <3>3, <3>4
  <2>10. QED
    BY <2>4, <2>6, <2>7, <2>8, <2>9 DEF RunInv
<1>9. ASSUME NEW leaving \in BOOLEAN, LockStarts(leaving)
      PROVE  RunInv'
  <2>1. /\ service.server \in 1..opened /\ service.server \in Leases
        /\ service.signer = service.server /\ owner.lease = 0 /\ owner.at = "prompt"
    BY <1>1, <1>2, <1>5, <1>9 DEF LockStarts, OwnerInv, Services
  <2>2. /\ owner'.at = "locking" /\ owner'.lease = service.server /\ owner' \in Owners
        /\ service'.server = 0 /\ service'.signer = service.signer /\ service' \in Services
        /\ opened' = opened /\ UNCHANGED <<listener, material, expiry>>
    BY <1>2, <1>5, <1>9 DEF LockStarts, Owners, Services
  <2>3. PICK closes \in Closers :
             /\ closer' = [closer EXCEPT ![service.server] = closes] /\ closes.at # "none"
             /\ closes = closer[service.server] \/ closes.at = "created"
    <3>1. CASE closer[service.server].at = "none"
      <4>1. [at |-> "created", cancel_expiry |-> TRUE] \in Closers
        BY DEF Closers
      <4>2. closer' = [closer EXCEPT ![service.server] = [at |-> "created", cancel_expiry |-> TRUE]]
        BY <1>9, <3>1 DEF LockStarts, CloseTask
      <4>3. QED
        BY <4>1, <4>2
    <3>2. CASE closer[service.server].at # "none"
      <4>1. closer[service.server] \in Closers /\ closer' = closer
            /\ closer = [closer EXCEPT ![service.server] = closer[service.server]]
        BY <1>1, <1>9, <2>1, <3>2 DEF LockStarts, CloseTask, RunType
      <4>2. QED
        BY <3>2, <4>1
    <3>3. QED
      BY <3>1, <3>2
  <2>4. /\ closer'[service.server] = closes
        /\ \A l \in Leases \ {service.server} : closer'[l] = closer[l]
    BY <1>1, <2>1, <2>3 DEF RunType
  <2>5. RunType'
    BY <1>1, <1>3, <2>2, <2>3 DEF RunType
  <2>6. OwnerInv'
    BY <1>2, <2>1, <2>2, <2>3, <2>4 DEF OwnerInv
  <2>7. LeaseInv'
    <3>1. ~(service.server > opened)
      BY <2>1, <1>2
    <3>2. QED
      BY <1>1, <1>4, <2>2, <2>3, <2>4, <3>1 DEF LeaseInv, Untouched, Shutdown
  <2>8. ConnInv'
    BY <1>1, <1>2, <1>3, <2>2 DEF ConnInv
  <2>9. LetGoIsReleased'
    <3>1. SUFFICES ASSUME NEW l \in 1..opened', l \notin {service'.server, owner'.lease}
                   PROVE  Released(l)'
      BY DEF LetGoIsReleased
    <3>2. l \in 1..opened /\ l # service.server /\ l # 0
      BY <1>2, <2>2, <3>1
    <3>3. Released(l)
      BY <1>1, <2>1, <3>2 DEF LetGoIsReleased
    <3>4. QED
      BY <1>3, <2>2, <3>3, StaysReleased DEF Released
  <2>10. QED
    BY <2>5, <2>6, <2>7, <2>8, <2>9 DEF RunInv
<1>10. CASE LockReturns
  <2>1. /\ owner.lease \in 1..opened /\ owner.lease \in Leases /\ service.server = 0
        /\ closer[owner.lease].at = "done"
    BY <1>1, <1>2, <1>10 DEF LockReturns, OwnerInv
  <2>2. /\ owner' \in {Prompt, Gone} /\ owner' \in Owners
        /\ service'.server = 0 /\ service'.signer = 0 /\ service' \in Services /\ opened' = opened
        /\ UNCHANGED <<listener, closer, expiry>>
    BY <1>2, <1>5, <1>10, <2>1 DEF LockReturns, Services
  <2>3. material' = [material EXCEPT ![owner.lease] = "closed"]
    BY <1>10 DEF LockReturns
  <2>4. RunType'
    BY <1>1, <1>3, <2>2, <2>3 DEF RunType
  <2>5. \A l \in Leases : material'[l] \in {material[l], "closed"}
    BY <1>1, <2>3 DEF RunType
  <2>6. OwnerInv'
    BY <1>2, <2>2 DEF OwnerInv, Prompt, Gone
  <2>7. LeaseInv'
    BY <1>1, <1>4, <2>2, <2>5 DEF LeaseInv, Untouched, Shutdown
  <2>8. ConnInv'
    BY <1>1, <1>2, <1>3, <2>2 DEF ConnInv
  <2>9. LetGoIsReleased'
    <3>1. SUFFICES ASSUME NEW l \in 1..opened'
                   PROVE  Released(l)'
      BY DEF LetGoIsReleased
    <3>2. l \in 1..opened /\ l \in Leases /\ l # 0
      BY <1>2, <2>2
    <3>3. Released(l)
      <4>1. CASE l = owner.lease
        BY <1>1, <2>1, <4>1 DEF LeaseInv, Shutdown, Released
      <4>2. CASE l # owner.lease
        BY <1>1, <2>1, <3>2, <4>2 DEF LetGoIsReleased
      <4>3. QED
        BY <4>1, <4>2
    <3>4. QED
      BY <1>3, <2>2, <2>5, <3>2, <3>3, StaysReleased DEF Released
  <2>10. QED
    BY <2>4, <2>6, <2>7, <2>8, <2>9 DEF RunInv
<1>11. CASE Interrupt
  <2>1. /\ owner' \in Owners /\ owner'.at = owner.at /\ owner'.lease = owner.lease
        /\ UNCHANGED <<service, opened, listener, material, closer, expiry>>
    BY <1>5, <1>11 DEF Interrupt, Owners, wss
  <2>2. RunType'
    BY <1>1, <1>3, <2>1 DEF RunType
  <2>3. OwnerInv' /\ LeaseInv' /\ ConnInv'
    BY <1>1, <1>3, <1>4, <2>1 DEF OwnerInv, LeaseInv, ConnInv, Untouched, Shutdown
  <2>4. LetGoIsReleased'
    BY <1>1, <1>2, <1>4, <2>1 DEF LetGoIsReleased, Released
  <2>5. QED
    BY <2>2, <2>3, <2>4 DEF RunInv
<1>12. CASE LeaveLocked
  <2>1. /\ owner' = Gone /\ service.server = 0 /\ owner.lease = 0 /\ service.signer = 0
        /\ UNCHANGED <<service, opened, listener, material, closer, expiry>>
    BY <1>1, <1>12 DEF LeaveLocked, wss, OwnerInv
  <2>2. RunType'
    BY <1>1, <1>3, <1>5, <2>1 DEF RunType
  <2>3. OwnerInv' /\ LeaseInv' /\ ConnInv'
    BY <1>1, <1>3, <1>4, <2>1 DEF OwnerInv, LeaseInv, ConnInv, Untouched, Shutdown, Gone
  <2>4. LetGoIsReleased'
    BY <1>1, <1>2, <1>4, <2>1 DEF LetGoIsReleased, Released, Gone
  <2>5. QED
    BY <2>2, <2>3, <2>4 DEF RunInv
<1>13. QED
  BY <1>6, <1>7, <1>8, <1>9, <1>10, <1>11, <1>12 DEF OwnerStep

-----------------------------------------------------------------------------
(* The service and its process together.                                   *)

\* While the command loop runs, some process serves.
ServingInv == owner.at # "gone" => \E p \in Processes : process[p].at = "serving"

SystemInv == DirectoryInv /\ RunInv /\ ServingInv

\* Nothing but the end of the service takes the place of a serving process.
LEMMA ServingStays ==
    ASSUME DirectoryInv, NEW p \in Processes, process[p].at = "serving",
           DirectoryStep \/ \E q \in Processes : OpenStore(q)
    PROVE  process'[p].at = "serving"
<1>1. process \in [Processes -> Commands]
  BY DEF DirectoryInv, DirectoryType
<1>2. ASSUME NEW q \in Processes, process[q].at # "serving",
             NEW value, process' = [process EXCEPT ![q] = value]
      PROVE  process'[p].at = "serving"
  BY <1>1, <1>2
<1>3. ASSUME NEW q \in Processes, NEW place, Goes(q, place), process[q].at # "serving"
      PROVE  process'[p].at = "serving"
  <2>1. process' = [process EXCEPT ![q] = [process[q] EXCEPT !.at = place]]
    BY <1>1, <1>3 DEF Goes
  <2>2. QED
    BY <1>2, <1>3, <2>1
<1>4. ASSUME NEW q \in Processes, Leaves(q), process[q].at # "serving"
      PROVE  process'[p].at = "serving"
  BY <1>2, <1>4 DEF Leaves
<1>5. ASSUME NEW q \in Processes, OpenStore(q)
      PROVE  process'[p].at = "serving"
  BY <1>3, <1>4, <1>5 DEF OpenStore
<1>6. ASSUME NEW q \in Processes, NEW command, Enter(q, command)
      PROVE  process'[p].at = "serving"
  BY <1>2, <1>6 DEF Enter, NotRunning
<1>7. ASSUME NEW q \in Processes, BeginInit(q)
      PROVE  process'[p].at = "serving"
  BY <1>3, <1>4, <1>7 DEF BeginInit, Runs
<1>8. ASSUME NEW q \in Processes, NEW name \in {"key", "ca"}, NEW next, Unlink(q, name, next)
      PROVE  process'[p].at = "serving"
  <2>1. process[q].at # "serving"
    BY <1>8 DEF Unlink, Runs
  <2>2. QED
    BY <1>3, <1>8, <2>1 DEF Unlink
<1>9. ASSUME NEW q \in Processes, CommitDatabase(q)
      PROVE  process'[p].at = "serving"
  BY <1>3, <1>9 DEF CommitDatabase, Runs
<1>10. ASSUME NEW q \in Processes, InitReturns(q) \/ InitFails(q) \/ Dies(q) \/ Inspects(q)
       PROVE  process'[p].at = "serving"
  BY <1>4, <1>10 DEF InitReturns, InitFails, Dies, Inspects, Runs
<1>11. ASSUME NEW q \in Processes, InitStep(q)
       PROVE  process'[p].at = "serving"
  BY <1>7, <1>8, <1>9, <1>10, <1>11 DEF InitStep, WriteKey, WriteCertificate, Link, CreateDatabase
<1>12. QED
  BY <1>5, <1>6, <1>10, <1>11 DEF DirectoryStep, CreateLockFile

\* The store is opened for a command loop only when there is none.
LEMMA OpensAlone ==
    ASSUME SystemInv, NEW p \in Processes, OpenStore(p)
    PROVE  owner.at = "gone"
<1> SUFFICES ASSUME owner.at # "gone"
             PROVE  FALSE
  OBVIOUS
<1>1. PICK q \in Processes : process[q].at = "serving"
  BY DEF SystemInv, ServingInv
<1>2. process[p] # NotRunning /\ process[q] # NotRunning /\ p # q
  BY <1>1 DEF OpenStore, NotRunning
<1>3. QED
  BY <1>2 DEF SystemInv, DirectoryInv, LockInv

\* Every step keeps the invariant of the whole.
LEMMA SystemStays ==
    ASSUME SystemInv, [Next]_vars
    PROVE  SystemInv'
<1>1. DirectoryInv /\ RunInv /\ ServingInv /\ DirectoryInv'
  BY DirectoryStays DEF SystemInv
<1>2. ASSUME UNCHANGED running
      PROVE  RunInv'
  BY <1>1, <1>2 DEF running, lifecycle, wss, RunInv, RunType, OwnerInv, LeaseInv, ConnInv,
     LetGoIsReleased, Released, Untouched, Shutdown, Open
<1>3. CASE UNCHANGED vars
  BY <1>1, <1>2, <1>3 DEF vars, running, lifecycle, directory, ServingInv, SystemInv
<1>4. CASE ServiceStep
  <2>1. RunInv'
    BY <1>1, <1>4, OwnerStepInv, LeaseStepInv, ConnectionInv DEF ServiceStep
  <2>2. process' = process
    BY <1>4 DEF ServiceStep, directory
  <2>3. owner.at = "gone" => owner'.at = "gone"
    <3>1. CASE OwnerStep
      BY <3>1 DEF OwnerStep, Unlock, ListenerStarts, ListenerFails, LockStarts, LockReturns,
         Interrupt, LeaveLocked
    <3>2. CASE \E l \in Leases : LeaseStep(l)
      BY <3>2 DEF LeaseStep, FinishStarts, FinishDrains, FinishJoinsExpiry, ExpiryWakes,
         ExpiryReturns, lifecycle
    <3>3. CASE \E c \in Connections : ConnectionStep(c)
      BY <1>1, <3>3, ConnectionMoves DEF lifecycle
    <3>4. QED
      BY <1>4, <3>1, <3>2, <3>3 DEF ServiceStep
  <2>4. QED
    BY <1>1, <2>1, <2>2, <2>3 DEF ServingInv, SystemInv
<1>5. CASE DirectoryStep /\ UNCHANGED running
  <2>1. owner' = owner
    BY <1>5 DEF running, lifecycle
  <2>2. QED
    BY <1>1, <1>2, <1>5, <2>1, ServingStays DEF ServingInv, SystemInv
<1>6. ASSUME NEW p \in Processes, ServiceOpens(p)
      PROVE  SystemInv'
  <2>1. OpenStore(p) /\ owner.at = "gone"
    BY <1>6, OpensAlone DEF ServiceOpens
  <2>2. /\ owner' = IF process'[p].at = "serving" THEN Prompt ELSE owner
        /\ UNCHANGED <<service, opened, listener, material, closer, expiry, conn, handler>>
    BY <1>6 DEF ServiceOpens, wss
  <2>3. ServingInv'
    BY <2>1, <2>2 DEF ServingInv
  <2>4. RunInv'
    <3>1. CASE process'[p].at = "serving"
      <4>1. owner' = Prompt /\ owner.lease = 0 /\ service.server = 0 /\ service.signer = 0
        BY <1>1, <2>1, <2>2, <3>1 DEF RunInv, OwnerInv
      <4>2. RunType'
        BY <1>1, <2>2, <4>1, LeaseFacts DEF RunInv, RunType, Prompt, Owners, LeaseNumbers
      <4>3. OwnerInv'
        BY <1>1, <2>2, <4>1 DEF RunInv, OwnerInv, Prompt
      <4>4. LeaseInv' /\ ConnInv'
        BY <1>1, <2>2 DEF RunInv, LeaseInv, ConnInv, Untouched, Shutdown, Open
      <4>5. LetGoIsReleased'
        BY <1>1, <2>2, <4>1 DEF RunInv, LetGoIsReleased, Released, Open, Prompt
      <4>6. QED
        BY <4>2, <4>3, <4>4, <4>5 DEF RunInv
    <3>2. CASE process'[p].at # "serving"
      BY <1>2, <2>2, <3>2 DEF running, lifecycle, wss
    <3>3. QED
      BY <3>1, <3>2
  <2>5. QED
    BY <1>1, <2>3, <2>4 DEF SystemInv
<1>7. ASSUME NEW p \in Processes, ServiceCloses(p)
      PROVE  SystemInv'
  <2>1. UNCHANGED running /\ owner' = owner /\ owner.at = "gone"
    BY <1>7 DEF ServiceCloses, running, lifecycle, Gone
  <2>2. QED
    BY <1>1, <1>2, <2>1 DEF ServingInv, SystemInv
<1>8. QED
  BY <1>3, <1>4, <1>5, <1>6, <1>7 DEF Next

\* The invariant holds of every behaviour.
THEOREM Invariance == Spec => []SystemInv
<1>1. Init => SystemInv
  <2> SUFFICES ASSUME Init
               PROVE  SystemInv
    OBVIOUS
  <2>1. DirectoryInv
    BY DirectoryStarts DEF Init
  <2>2. 0 \in LeaseNumbers
    BY LeaseAssumption DEF LeaseNumbers
  <2>3. RunType
    BY <2>2 DEF Init, RunType, Gone, Owners, Services, Closers, NoConnection, Conns, Handlers
  <2>4. OwnerInv
    BY DEF Init, OwnerInv, Gone
  <2>5. LeaseInv
    BY DEF Init, LeaseInv, Untouched, Shutdown
  <2>6. ConnInv
    BY DEF Init, ConnInv, NoConnection
  <2>7. LetGoIsReleased
    BY DEF Init, LetGoIsReleased
  <2>8. ServingInv
    BY DEF Init, ServingInv, Gone
  <2>9. QED
    BY <2>1, <2>3, <2>4, <2>5, <2>6, <2>7, <2>8 DEF SystemInv, RunInv
<1>2. SystemInv /\ [Next]_vars => SystemInv'
  BY SystemStays
<1>3. QED
  BY <1>1, <1>2, PTL DEF Spec

\* A lease the owner has let go of, by a lock that returned or by an unlock that
\* failed, has no listener, no leaf key and no connection left.
THEOREM ReleasedWhenLetGo == Spec => []LetGoIsReleased
<1>1. SystemInv => LetGoIsReleased
  BY DEF SystemInv, RunInv
<1>2. QED
  BY <1>1, Invariance, PTL

\* Each step of the service is one of the abstract lease, or none at all.
LEMMA StepsRefine ==
    ASSUME SystemInv, [Next]_vars
    PROVE  [Lease!Next]_<<service.signer, opened, Working>>
<1> DEFINE Abstract == <<service.signer, opened, Working>>
<1>1. RunType /\ OwnerInv /\ LeaseInv /\ ConnInv /\ LetGoIsReleased
  BY DEF SystemInv, RunInv
<1>2. ASSUME UNCHANGED <<service, opened, handler>>
      PROVE  UNCHANGED Abstract
  BY <1>2 DEF Working
<1>3. CASE Unlock
  <2>1. /\ service.signer = 0 /\ service'.signer = opened + 1 /\ opened' = opened + 1
        /\ UNCHANGED handler
    BY <1>1, <1>3 DEF Unlock, OwnerInv, RunType, Services
  <2>2. Working' = Working
    BY <2>1 DEF Working
  <2>3. QED
    BY <2>1, <2>2 DEF Lease!Next, Lease!Unlock
<1>4. CASE ListenerStarts
  <2>1. service'.signer = service.signer /\ UNCHANGED <<opened, handler>>
    BY <1>1, <1>4 DEF ListenerStarts, RunType, Services
  <2>2. QED
    BY <2>1 DEF Working
<1>5. CASE ListenerFails \/ LockReturns
  <2>1. service.server = 0 /\ service'.signer = 0 /\ UNCHANGED <<opened, handler>>
    BY <1>1, <1>5 DEF ListenerFails, LockReturns, OwnerInv, RunType, Services
  <2>2. Open(owner.lease) = {}
    <3>1. CASE ListenerFails
      <4>1. listener[owner.lease] = "none"
        BY <1>1, <3>1 DEF ListenerFails, OwnerInv, Untouched
      <4>2. QED
        BY <1>1, <4>1 DEF ConnInv, Open
    <3>2. CASE LockReturns
      <4>1. owner.lease \in Leases /\ closer[owner.lease].at = "done"
        BY <1>1, <3>2, LeaseFacts DEF LockReturns, OwnerInv
      <4>2. QED
        BY <1>1, <4>1 DEF LeaseInv
    <3>3. QED
      BY <1>5, <3>1, <3>2
  <2>3. Working = {} /\ Working' = Working
    <3>1. \A c \in Connections : handler[c] = "none"
      BY <2>1, <2>2, NobodyWorks DEF SystemInv
    <3>2. QED
      BY <2>1, <3>1 DEF Working
  <2>4. QED
    BY <2>1, <2>3 DEF Lease!Next, Lease!Withdraw
<1>6. ASSUME NEW leaving \in BOOLEAN, LockStarts(leaving)
      PROVE  UNCHANGED Abstract
  <2>1. service'.signer = service.signer /\ UNCHANGED <<opened, handler>>
    BY <1>1, <1>6 DEF LockStarts, RunType, Services
  <2>2. QED
    BY <2>1 DEF Working
<1>7. CASE Interrupt \/ LeaveLocked
  BY <1>2, <1>7 DEF Interrupt, LeaveLocked
<1>8. ASSUME NEW l \in Leases, LeaseStep(l)
      PROVE  UNCHANGED Abstract
  BY <1>2, <1>8 DEF LeaseStep, FinishStarts, FinishDrains, FinishJoinsExpiry, ExpiryWakes,
     ExpiryReturns, lifecycle
<1>9. ASSUME NEW c \in Connections, ConnectionStep(c)
      PROVE  [Lease!Next]_Abstract
  <2>1. service' = service /\ opened' = opened
    BY <1>9, ConnectionMoves DEF lifecycle, SystemInv
  <2>2. PICK h \in Handlers :
             /\ handler' = [handler EXCEPT ![c] = h]
             /\ h \in {"executing", "stopping"} =>
                    \/ handler[c] \in {"executing", "stopping"}
                    \/ service.signer # 0
    BY <1>9, ConnectionMoves DEF SystemInv
  <2>3. handler'[c] = h /\ \A d \in Connections \ {c} : handler'[d] = handler[d]
    BY <1>1, <2>2 DEF RunType
  <2>4. CASE (h \in {"executing", "stopping"}) = (handler[c] \in {"executing", "stopping"})
    <3>1. Working' = Working
      BY <2>3, <2>4 DEF Working
    <3>2. QED
      BY <2>1, <3>1
  <2>5. CASE h \in {"executing", "stopping"} /\ handler[c] \notin {"executing", "stopping"}
    <3>1. c \notin Working /\ Working' = Working \cup {c}
      BY <2>3, <2>5 DEF Working
    <3>2. service.signer > 0
      BY <1>1, <2>2, <2>5, LeaseFacts DEF RunType, Services
    <3>3. QED
      BY <2>1, <3>1, <3>2 DEF Lease!Next, Lease!Begin
  <2>6. CASE h \notin {"executing", "stopping"} /\ handler[c] \in {"executing", "stopping"}
    <3>1. c \in Working /\ Working' = Working \ {c}
      BY <2>3, <2>6 DEF Working
    <3>2. QED
      BY <2>1, <3>1 DEF Lease!Next, Lease!End
  <2>7. QED
    BY <2>4, <2>5, <2>6
<1>10. CASE ServiceStep
  BY <1>3, <1>4, <1>5, <1>6, <1>7, <1>8, <1>9, <1>10 DEF ServiceStep, OwnerStep
<1>11. CASE UNCHANGED running
  BY <1>2, <1>11 DEF running, lifecycle
<1>12. ASSUME NEW p \in Processes, ServiceOpens(p)
       PROVE  UNCHANGED Abstract
  BY <1>2, <1>12 DEF ServiceOpens
<1>13. QED
  BY <1>10, <1>11, <1>12 DEF Next, vars, ServiceCloses

\* The service implements the abstract lease: the signing key is in use only under
\* the lease opened last, work starts only under it, and it is withdrawn only when
\* no work is left.
THEOREM ServiceImplementsLease == Spec => ImplementsUnlockLease
<1>1. Init => Lease!Init
  BY DEF Init, Lease!Init, Working
<1>2. SystemInv /\ [Next]_vars => [Lease!Next]_<<service.signer, opened, Working>>
  BY StepsRefine
<1>3. QED
  BY <1>1, <1>2, Invariance, PTL DEF Spec, ImplementsUnlockLease, Lease!Spec, Lease!vars
=============================================================================

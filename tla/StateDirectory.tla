-------------------------- MODULE StateDirectory --------------------------
(***************************************************************************)
(* The Connector's state directory: the writer lock, the identity key, the *)
(* CA certificate and the authority database, made once by "init" and      *)
(* opened by "serve" and by the inspecting commands                        *)
(* (ConnectorService.initialize_state_directory and open_state_directory   *)
(* in connector/service.py, ConnectorKeyStore and its files in             *)
(* connector/identity.py, ConnectorTLSStore in connector/tls.py,           *)
(* StoreWriterLease and AuthorityStore in connector/store.py,              *)
(* OfflineConnectorInspector in connector/cli.py).                         *)
(*                                                                         *)
(* init makes one file after the other, and its process may die after any  *)
(* system call.  The files are written under a temporary name, linked to   *)
(* their own and unlinked from the temporary one; the database is created  *)
(* empty and filled in one transaction.                                    *)
(***************************************************************************)
EXTENDS Naturals

CONSTANTS Processes     \* those that may run a command on the directory

VARIABLES
    files,              \* the entries of the directory
    lock,               \* who holds the lock on the writer lock file
    process             \* the command of each process, and where it is

directory == <<files, lock, process>>

-----------------------------------------------------------------------------
\* An identity is named by the process that generated it.
NoProcess == "nobody"

ASSUME ProcessAssumption == NoProcess \notin Processes

Absent == [at |-> "absent", of |-> NoProcess]

NotRunning == [command |-> "none", at |-> "idle"]

DirectoryInit ==
    /\ files = [key |-> Absent, ca |-> Absent, database |-> Absent, writer_lock |-> FALSE]
    /\ lock = NoProcess
    /\ process = [p \in Processes |-> NotRunning]

Runs(p, command, place) == process[p] = [command |-> command, at |-> place]
Goes(p, place) == process' = [process EXCEPT ![p].at = place]

\* What a command that ends, however it ends, does to its process and its lock.
Leaves(p) ==
    /\ process' = [process EXCEPT ![p] = NotRunning]
    /\ lock' = NoProcess

-----------------------------------------------------------------------------
(* What the readers of the directory accept.                               *)

\* _read_key_file: a regular file with one link.  A file whose temporary name is
\* still there has two.
Whole(file) == file.at = "whole"

\* ConnectorTLSStore.load_public_identity: the CA certificate names its identity.
KnownIdentity == Whole(files.ca)

\* ConnectorTLSStore.load and _verified_ca: it is the certificate of this identity.
CertificateOf(identity) == Whole(files.ca) /\ files.ca.of = identity

\* StoreWriterLease._assert_active_for: the process holds the lock itself.
Leased(p) == lock = p /\ files.writer_lock

\* AuthorityStore._connection: with the lease, and the files in their places.
Connects(p) == Leased(p) /\ files.database # Absent

\* _check_schema_compatibility and _check_connection_schema: the file carries the
\* application's mark, which the one transaction of initialize commits together
\* with the schema and the identity.
SchemaFits(identity) == files.database = [at |-> "ready", of |-> identity]

\* AuthorityStore.open, for the identity of the certificate.
StoreOpens(p) == Connects(p) /\ SchemaFits(files.ca.of)

\* Mutant: any database file under the name will do.
Openable_AnyDatabase(p) == KnownIdentity /\ Connects(p)

\* _open_state_directory, and ConnectorService._initialize, which reads the CA
\* again.  Nobody looks at the key file before unlock.
Openable(p) ==
    KnownIdentity /\ StoreOpens(p) /\ CertificateOf(files.database.of)

\* ConnectorKeyStore._unlock_from_tty: the file is read before the passphrase is.
KeyOf(identity) == Whole(files.key) /\ files.key.of = identity

\* ConnectorService.unlock: the key is that of the identity of the store, and the
\* CA certificate, read once more, is too.
Unlockable == KeyOf(files.database.of) /\ CertificateOf(files.key.of)

-----------------------------------------------------------------------------
(* Commands.                                                               *)

\* StoreWriterLease: only init creates the directory and the lock file.  Locking
\* follows opening, nobody reads anything in between, and does not wait.
Enter(p, command) ==
    /\ process[p] = NotRunning
    /\ lock = NoProcess
    /\ files.writer_lock \/ command = "init"
    /\ command = "inspect" => KnownIdentity
    /\ files' = [files EXCEPT !.writer_lock = TRUE]
    /\ lock' = p
    /\ process' = [process EXCEPT ![p] = [command |-> command, at |-> "locked"]]

\* An init that dies before it has the lock leaves the lock file behind.
CreateLockFile ==
    /\ ~files.writer_lock
    /\ files' = [files EXCEPT !.writer_lock = TRUE]
    /\ UNCHANGED <<lock, process>>

\* _require_initialization_directory: nothing but the lock file may be there.
BeginInit(p) ==
    /\ Runs(p, "init", "locked")
    /\ IF {files.key, files.ca, files.database} = {Absent}
       THEN Goes(p, "key") /\ UNCHANGED lock
       ELSE Leaves(p)
    /\ UNCHANGED files

Making(name, file) == files' = [files EXCEPT ![name] = file]

\* _create_key_file: the new key, under its temporary name.
WriteKey(p) ==
    /\ Runs(p, "init", "key") /\ files.key = Absent
    /\ Making("key", [at |-> "temporary", of |-> p])
    /\ UNCHANGED <<lock, process>>

\* _create_ca_certificate: signed with the key that the owner has just unlocked
\* from the file.
Certificate == [at |-> "temporary", of |-> files.key.of]

\* ConnectorTLSStore.initialize.
WriteCertificate(p) ==
    /\ Runs(p, "init", "ca") /\ files.ca = Absent
    /\ Whole(files.key)
    /\ Making("ca", Certificate)
    /\ UNCHANGED <<lock, process>>

\* os.link, then os.unlink.
Link(p, name) ==
    /\ Runs(p, "init", name) /\ files[name].at = "temporary"
    /\ Making(name, [files[name] EXCEPT !.at = "linked"])
    /\ UNCHANGED <<lock, process>>

Unlink(p, name, next) ==
    /\ Runs(p, "init", name) /\ files[name].at = "linked"
    /\ Making(name, [files[name] EXCEPT !.at = "whole"])
    /\ Goes(p, next)
    /\ UNCHANGED lock

\* AuthorityStore.initialize: O_EXCL, then one transaction.
CreateDatabase(p) ==
    /\ Runs(p, "init", "database") /\ files.database = Absent
    /\ Leased(p)
    /\ Making("database", [at |-> "empty", of |-> NoProcess])
    /\ UNCHANGED <<lock, process>>

CommitDatabase(p) ==
    /\ Runs(p, "init", "database") /\ files.database.at = "empty"
    /\ Connects(p)
    /\ Making("database", [at |-> "ready", of |-> files.key.of])
    /\ Goes(p, "done")
    /\ UNCHANGED lock

InitReturns(p) ==
    /\ Runs(p, "init", "done")
    /\ Leaves(p)
    /\ UNCHANGED files

Cleaned(file) ==
    CASE file.at = "temporary" -> Absent
      [] file.at = "linked"    -> [file EXCEPT !.at = "whole"]
      [] OTHER                 -> file

\* Mutant: a file that could not be finished is removed by its own name.
InitFails_Removes(p) ==
    /\ process[p].command = "init" /\ process[p].at \in {"key", "ca", "database"}
    /\ files' = [files EXCEPT
           !.key = IF @.at \in {"temporary", "linked"} THEN Absent ELSE @,
           !.ca = IF @.at \in {"temporary", "linked"} THEN Absent ELSE @]
    /\ Leaves(p)

\* A system call fails, or the owner does not type the passphrase of the key just
\* made: the temporary name goes, and what stands under its own name stays.  (A
\* temporary name that cannot be removed either stays, as it does after Dies.)
InitFails(p) ==
    /\ process[p].command = "init" /\ process[p].at \in {"key", "ca", "database"}
    /\ files' = [files EXCEPT !.key = Cleaned(@), !.ca = Cleaned(@)]
    /\ Leaves(p)

\* The process of any command but a serving one is killed: the kernel drops its
\* lock, and every file stays as it is.
Dies(p) ==
    /\ process[p].at \notin {"idle", "serving"}
    /\ Leaves(p)
    /\ UNCHANGED files

\* serve and the inspecting commands open the store, or report why they cannot.
OpenStore(p) ==
    /\ process[p].command \in {"serve", "inspect"} /\ process[p].at = "locked"
    /\ IF Openable(p)
       THEN Goes(p, IF process[p].command = "serve" THEN "serving" ELSE "inspecting")
            /\ UNCHANGED lock
       ELSE Leaves(p)
    /\ UNCHANGED files

Inspects(p) ==
    /\ process[p].at = "inspecting"
    /\ Leaves(p)
    /\ UNCHANGED files

InitStep(p) ==
    \/ BeginInit(p)
    \/ WriteKey(p) \/ Link(p, "key") \/ Unlink(p, "key", "ca")
    \/ WriteCertificate(p) \/ Link(p, "ca") \/ Unlink(p, "ca", "database")
    \/ CreateDatabase(p) \/ CommitDatabase(p) \/ InitReturns(p)
    \/ InitFails(p)

DirectoryStep ==
    \/ CreateLockFile
    \/ \E p \in Processes :
           \/ \E command \in {"init", "serve", "inspect"} : Enter(p, command)
           \/ InitStep(p) \/ Dies(p) \/ Inspects(p)

-----------------------------------------------------------------------------
(* Properties.                                                             *)

\* Whoever got past the opening of the store, whatever inits died or failed before,
\* finds files of one identity, the key among them although nobody has read it
\* yet, and a database whose first transaction is committed.
OpensWhatInitMade ==
    \A p \in Processes : process[p].at \in {"serving", "inspecting"} =>
        /\ lock = p
        /\ files.database.at = "ready"
        /\ Unlockable

\* A later init never overwrites an identity, a CA or an authority database
\* (connector/service.py:297); nor does anything else, from the moment they can be seen.
StateIsPreserved ==
    [][/\ \A name \in {"key", "ca"} : files[name].at \in {"linked", "whole"} =>
              files'[name].at \in {"linked", "whole"} /\ files'[name].of = files[name].of
       /\ files.database.at = "ready" => files'.database = files.database]_directory
=============================================================================

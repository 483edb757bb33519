-------------------------------- MODULE Certs --------------------------------
(***************************************************************************)
(* The certificate authority of pkg/certs: LoadCerts, which every start of *)
(* proxify runs, reads the CA certificate and its private key from two     *)
(* files of the configuration directory, or generates and saves both.  A   *)
(* start can crash between any two steps, and the user can delete a file.  *)
(* What the files hold is told apart by the generation that wrote it.      *)
(***************************************************************************)
EXTENDS Integers

CONSTANT
  MaxGenerations    \* bound: authorities that are ever created

Files == {"cert", "key"}

ASSUME CertsAssumption == MaxGenerations \in Nat

Missing == 0
Torn    == -1        \* truncated, or written in part: no PEM block in it
Generations == 1..MaxGenerations

VARIABLES
  disk,       \* what each file holds: Missing, Torn or a generation
  expired,    \* the generations whose certificate has expired
  pc,         \* where the start is; "down" when there is none
  memory,     \* the package variables cert and pkey (0 is nil)
  created,    \* authorities created so far
  orphan,     \* ghost: the key whose certificate the user deleted last, or 0
  abandoned   \* ghost: the generations of which the user deleted a file

ghosts == <<orphan, abandoned>>
vars   == <<disk, expired, pc, memory, created, ghosts>>

-----------------------------------------------------------------------------
Init ==
  /\ disk = [f \in Files |-> Missing]
  /\ expired = {}
  /\ pc = "down"
  /\ memory = [f \in Files |-> 0]
  /\ created = 0
  /\ orphan = 0
  /\ abandoned = {}

Start ==
  /\ pc = "down"
  /\ memory' = [f \in Files |-> 0]
  /\ pc' = "exists"
  /\ UNCHANGED <<disk, expired, created, ghosts>>

\* LoadCerts: unless both files exist, both are generated.
LoadCerts ==
  /\ pc = "exists"
  /\ pc' = IF \E f \in Files : disk[f] = Missing THEN "generate" ELSE "readcert"
  /\ UNCHANGED <<disk, expired, memory, created, ghosts>>

\* Mutant of generateCertificate: the certificate on disk is kept if there is one.
generateMissing ==
  /\ pc = "generate"
  /\ created < MaxGenerations
  /\ created' = created + 1
  /\ memory' = [f \in Files |-> created']
  /\ pc' = IF disk["cert"] = Missing THEN "opencert" ELSE "openkey"
  /\ UNCHANGED <<disk, expired, ghosts>>

\* mitm.NewAuthority; the authority is kept in the package variables.
generateCertificate ==
  /\ pc = "generate"
  /\ created < MaxGenerations
  /\ created' = created + 1
  /\ memory' = [f \in Files |-> created']
  /\ pc' = "opencert"
  /\ UNCHANGED <<disk, expired, ghosts>>

\* os.WriteFile in two steps, the first of which leaves the file without contents.
\* An error is fatal: the process exits with the file as it is.
SaveToFile(f, open, write, next) ==
  \/ /\ pc = open
     /\ disk' = [disk EXCEPT ![f] = Torn]
     /\ pc' = write
  \/ /\ pc = write
     /\ disk' = [disk EXCEPT ![f] = memory[f]]
     /\ pc' = next
  \/ /\ pc \in {open, write}
     /\ pc' = "down"
     /\ UNCHANGED disk

SaveCAToFile ==
  /\ SaveToFile("cert", "opencert", "writecert", "openkey")
  /\ UNCHANGED <<expired, memory, created, ghosts>>

SaveKeyToFile ==
  /\ SaveToFile("key", "openkey", "writekey", "loaded")
  /\ UNCHANGED <<expired, memory, created, ghosts>>

\* Mutant of readCert: the certificate's validity is not looked at.
readCertAnyAge ==
  /\ pc = "readcert"
  /\ IF disk["cert"] \in Generations
     THEN /\ memory' = [memory EXCEPT !["cert"] = disk["cert"]]
          /\ pc' = "readkey"
     ELSE /\ pc' = "malformed"
          /\ UNCHANGED memory
  /\ UNCHANGED <<disk, expired, created, ghosts>>

\* Each file is read and parsed in turn, the certificate's validity in between.
readCert ==
  /\ pc = "readcert"
  /\ IF disk["cert"] \in Generations
     THEN /\ memory' = [memory EXCEPT !["cert"] = disk["cert"]]
          /\ pc' = IF disk["cert"] \in expired THEN "malformed" ELSE "readkey"
     ELSE /\ pc' = "malformed"
          /\ UNCHANGED memory
  /\ UNCHANGED <<disk, expired, created, ghosts>>

\* Mutant of readKey: a file without a PEM block is not refused.
readKeyUnchecked ==
  /\ pc = "readkey"
  /\ memory' = [memory EXCEPT !["key"] = disk["key"]]
  /\ pc' = "loaded"
  /\ UNCHANGED <<disk, expired, created, ghosts>>

readKey ==
  /\ pc = "readkey"
  /\ IF disk["key"] \in Generations
     THEN /\ memory' = [memory EXCEPT !["key"] = disk["key"]]
          /\ pc' = "loaded"
     ELSE /\ pc' = "malformed"
          /\ UNCHANGED memory
  /\ UNCHANGED <<disk, expired, created, ghosts>>

\* Mutant of Malformed: new ones are generated, as the error says.
MalformedRegenerates ==
  /\ pc = "malformed"
  /\ pc' = "generate"
  /\ UNCHANGED <<disk, expired, memory, created, ghosts>>

\* LoadCerts returns the error "malformed/expired certificate found generating new
\* ones", and proxify exits.
Malformed ==
  /\ pc = "malformed"
  /\ pc' = "down"
  /\ UNCHANGED <<disk, expired, memory, created, ghosts>>

\* NewRunner goes on: the proxy signs with the package variables.
Serve ==
  /\ pc = "loaded"
  /\ pc' = "serving"
  /\ UNCHANGED <<disk, expired, memory, created, ghosts>>

\* The process is killed, or stopped.
Crash ==
  /\ pc # "down"
  /\ pc' = "down"
  /\ UNCHANGED <<disk, expired, memory, created, ghosts>>

\* The year of validity passes, between starts.
Expire ==
  /\ pc = "down"
  /\ \E g \in 1..created : expired' = expired \cup {g}
  /\ UNCHANGED <<disk, pc, memory, created, ghosts>>

\* The user deletes a file, between starts.
Delete ==
  /\ pc = "down"
  /\ \E f \in Files :
       /\ disk' = [disk EXCEPT ![f] = Missing]
       /\ orphan' = IF f = "cert" /\ disk["key"] \in Generations THEN disk["key"] ELSE orphan
  /\ abandoned' = abandoned \cup ({disk["cert"]} \cap Generations)
  /\ UNCHANGED <<expired, pc, memory, created>>

Load ==
  \/ LoadCerts \/ generateCertificate \/ SaveCAToFile \/ SaveKeyToFile
  \/ readCert \/ readKey \/ Malformed \/ Serve

Next == Start \/ Load \/ Crash \/ Expire \/ Delete

Spec == Init /\ [][Next]_vars

-----------------------------------------------------------------------------
(* Properties *)

TypeOK ==
  /\ disk \in [Files -> Generations \cup {Missing, Torn}]
  /\ expired \subseteq Generations
  /\ pc \in {"down", "exists", "generate", "opencert", "writecert", "openkey", "writekey",
             "readcert", "readkey", "malformed", "loaded", "serving"}
  /\ memory \in [Files -> Generations \cup {0}]
  /\ created \in 0..MaxGenerations
  /\ orphan \in Generations \cup {0}
  /\ abandoned \subseteq Generations

\* The proxy signs with what is on disk, and its key is the certificate's, wherever
\* earlier starts crashed: nothing compares the two, the order of the writes is what
\* ensures it. The one exception is a key that the user left when deleting the
\* certificate: a start that crashes between the two saves then leaves it beside the
\* new certificate, and the next start signs with it.
KeyBelongsToCert ==
  pc \in {"loaded", "serving"} =>
    /\ disk = memory
    /\ memory["key"] \in {memory["cert"], orphan}

\* A certificate that had expired when proxify was started is never served.
ServesValid == pc = "serving" => memory["cert"] \notin expired

=============================================================================

---------------------------- MODULE StartupProofs ----------------------------
(***************************************************************************)
(* Proofs about the certificate authority, for any number of generations:  *)
(* wherever starts crash, the key in use is that of the certificate in     *)
(* use, or one that the user left behind, and no certificate is served     *)
(* that had expired; and about a whole start, which uses the authority as  *)
(* module Certs says: only a user who deletes a file of an authority ends  *)
(* it, no failure does.                                                    *)
(***************************************************************************)
EXTENDS Startup, TLAPS

-----------------------------------------------------------------------------
(* The inductive invariant of the certificate authority *)

\* Beside a complete certificate the key file is missing, torn or the certificate's own:
\* the certificate is written first, and never without the key being generated anew.
\* Any other key on the disk is one that the user left there.
KeyFollowsCert ==
  \/ disk["key"] \in {Missing, Torn, orphan}
  \/ disk["cert"] \in Generations /\ disk["key"] = disk["cert"]

\* How far a start has come says what it found, or has made of, files and memory.
Generating ==
  /\ pc \in {"generate", "opencert", "writecert", "openkey"} =>
       disk["key"] \in {Missing, Torn, orphan}
  /\ pc \in {"opencert", "writecert", "openkey", "writekey"} =>
       memory["cert"] \in Generations /\ memory["key"] = memory["cert"]
  /\ pc \in {"openkey", "writekey"} => disk["cert"] = memory["cert"]

Reading ==
  pc = "readkey" => memory["cert"] \in Generations /\ disk["cert"] = memory["cert"]

AuthorityIsWhole ==
  /\ TypeOK
  /\ KeyFollowsCert
  /\ Generating
  /\ Reading
  /\ KeyBelongsToCert

\* For ServesValid: an authority that is new, or was read, has not expired.
NotExpired ==
  /\ \A g \in expired : g <= created
  /\ pc \in {"opencert", "writecert", "openkey", "writekey", "readkey", "loaded", "serving"} =>
       memory["cert"] \notin expired

-----------------------------------------------------------------------------
LEMMA InitWhole == Init => AuthorityIsWhole
<1> SUFFICES ASSUME Init PROVE AuthorityIsWhole
  OBVIOUS
<1>1. TypeOK
  BY CertsAssumption DEF Init, TypeOK, Files, Missing
<1>2. KeyFollowsCert /\ Generating /\ Reading /\ KeyBelongsToCert
  BY DEF Init, KeyFollowsCert, Generating, Reading, KeyBelongsToCert, Files, Missing
<1> QED BY <1>1, <1>2 DEF AuthorityIsWhole

LEMMA StepType == TypeOK /\ [Next]_vars => TypeOK'
<1> SUFFICES ASSUME TypeOK, [Next]_vars PROVE TypeOK'
  OBVIOUS
<1> USE CertsAssumption DEF TypeOK, Files, Generations, Missing, Torn, ghosts
<1>1. CASE Start \/ LoadCerts \/ Malformed \/ Serve \/ Crash \/ UNCHANGED vars
  BY <1>1 DEF Start, LoadCerts, Malformed, Serve, Crash, vars
<1>2. CASE generateCertificate
  BY <1>2 DEF generateCertificate
<1>3. CASE SaveCAToFile
  BY <1>3 DEF SaveCAToFile, SaveToFile
<1>4. CASE SaveKeyToFile
  BY <1>4 DEF SaveKeyToFile, SaveToFile
<1>5. CASE readCert
  BY <1>5 DEF readCert
<1>6. CASE readKey
  BY <1>6 DEF readKey
<1>7. CASE Expire
  BY <1>7 DEF Expire
<1>8. CASE Delete
  BY <1>8 DEF Delete
<1> QED BY <1>1, <1>2, <1>3, <1>4, <1>5, <1>6, <1>7, <1>8 DEF Next, Load

\* Every step of a start, every crash and what happens between starts.
LEMMA StepWhole ==
  ASSUME AuthorityIsWhole, [Next]_vars
  PROVE  AuthorityIsWhole'
<1>1. TypeOK /\ TypeOK'
  BY StepType DEF AuthorityIsWhole
<1> DEFINE Whole == KeyFollowsCert /\ Generating /\ Reading /\ KeyBelongsToCert
<1> SUFFICES Whole'
  BY <1>1 DEF AuthorityIsWhole
<1>2. Whole
  BY DEF AuthorityIsWhole
<1> USE <1>1, <1>2, CertsAssumption
    DEF TypeOK, KeyFollowsCert, Generating, Reading, KeyBelongsToCert,
        Files, Generations, Missing, Torn, ghosts
<1>3. CASE Start
  BY <1>3 DEF Start
<1>4. CASE LoadCerts
  BY <1>4 DEF LoadCerts
<1>5. CASE generateCertificate
  BY <1>5 DEF generateCertificate
<1>6. CASE SaveCAToFile
  BY <1>6 DEF SaveCAToFile, SaveToFile
<1>7. CASE SaveKeyToFile
  BY <1>7 DEF SaveKeyToFile, SaveToFile
<1>8. CASE readCert
  BY <1>8 DEF readCert
<1>9. CASE readKey
  BY <1>9 DEF readKey
<1>10. CASE Malformed \/ Serve \/ Crash
  BY <1>10 DEF Malformed, Serve, Crash
<1>11. CASE Expire
  BY <1>11 DEF Expire
<1>12. CASE Delete
  BY <1>12 DEF Delete
<1>13. CASE UNCHANGED vars
  BY <1>13 DEF vars
<1> QED BY <1>3, <1>4, <1>5, <1>6, <1>7, <1>8, <1>9, <1>10, <1>11, <1>12, <1>13 DEF Next, Load

-----------------------------------------------------------------------------
\* Wherever starts crash and whatever the user deletes, proxify signs with what is on
\* disk, and with a key that is not the certificate's only if the user left it there.
THEOREM KeyIsTheCerts == Spec => []KeyBelongsToCert
<1>1. AuthorityIsWhole /\ [Next]_vars => AuthorityIsWhole'
  BY StepWhole
<1>2. AuthorityIsWhole => KeyBelongsToCert
  BY DEF AuthorityIsWhole
<1> QED BY InitWhole, <1>1, <1>2, PTL DEF Spec

\* LoadCerts never lets a certificate through that has expired, whichever files the
\* user deletes.
THEOREM ServedIsValid == Spec => []ServesValid
<1>1. Init => TypeOK /\ NotExpired
  BY InitWhole DEF AuthorityIsWhole, Init, NotExpired
<1>2. TypeOK /\ [Next]_vars => TypeOK'
  BY StepType
<1>3. TypeOK /\ NotExpired /\ [Next]_vars => NotExpired'
  <2> SUFFICES ASSUME TypeOK, NotExpired, [Next]_vars PROVE NotExpired'
    OBVIOUS
  <2>0. TypeOK'
    BY <1>2
  <2> USE <2>0, CertsAssumption DEF TypeOK, NotExpired, Files, Generations, Missing, Torn
  <2>1. CASE Start \/ LoadCerts \/ Malformed \/ Serve \/ Crash \/ Delete \/ UNCHANGED vars
    BY <2>1 DEF Start, LoadCerts, Malformed, Serve, Crash, Delete, vars
  <2>2. CASE generateCertificate
    BY <2>2 DEF generateCertificate
  <2>3. CASE SaveCAToFile \/ SaveKeyToFile
    BY <2>3 DEF SaveCAToFile, SaveKeyToFile, SaveToFile
  <2>4. CASE readCert \/ readKey
    BY <2>4 DEF readCert, readKey
  <2>5. CASE Expire
    BY <2>5 DEF Expire
  <2> QED BY <2>1, <2>2, <2>3, <2>4, <2>5 DEF Next, Load
<1>4. NotExpired => ServesValid
  BY DEF NotExpired, ServesValid
<1> QED BY <1>1, <1>2, <1>3, <1>4, PTL DEF Spec

-----------------------------------------------------------------------------
(* A start uses the authority as Certs says *)

LEMMA BootStepIsCerts == [BootNext]_allVars => [Next]_vars
<1> SUFFICES ASSUME [BootNext]_allVars PROVE [Next]_vars
  OBVIOUS
<1>1. CASE ParseOptions \/ CreateLoggerConfig \/ parseLoggerConfig \/ Install \/ EditExport
           \/ UNCHANGED allVars
  BY <1>1 DEF ParseOptions, CreateLoggerConfig, parseLoggerConfig, Install, EditExport, allVars
<1>2. CASE configureVerbosity
  BY <1>2 DEF configureVerbosity, Next
<1>3. CASE Loading
  BY <1>3 DEF Loading, Next, Load
<1>4. CASE SaveBundle \/ RunProxy \/ Kill
  BY <1>4 DEF SaveBundle, RunProxy, Kill, Next, Load
<1>5. CASE DeleteFile \/ YearPasses
  BY <1>5 DEF DeleteFile, YearPasses, Next
<1> QED BY <1>1, <1>2, <1>3, <1>4, <1>5 DEF BootNext

\* Whatever else happens in a start, LoadCerts finds and leaves the files as module Certs
\* says: what is proved of Certs holds of a whole start.
LEMMA BootBehavesAsCerts == BootSpec => Spec
<1>1. BootInit => Init
  BY DEF BootInit
<1> QED BY <1>1, BootStepIsCerts, PTL DEF BootSpec, Spec

\* So in a whole start as well the key in use is that of the certificate in use, or one
\* that the user left when deleting its certificate.
COROLLARY KeyIsTheCertsAtBoot == BootSpec => []KeyBelongsToCert
<1> QED BY KeyIsTheCerts, BootBehavesAsCerts, PTL

\* And no certificate is served that had expired when proxify was started.
COROLLARY ServedIsValidAtBoot == BootSpec => []ServesValid
<1> QED BY ServedIsValid, BootBehavesAsCerts, PTL

-----------------------------------------------------------------------------
(* The certificate that clients trust *)

\* A certificate that is, or can come to be, trusted is the one on disk, next to a key,
\* and no start is about to make another - unless the user deleted a file of it.
Settled(g) ==
  g \notin abandoned =>
    /\ disk["cert"] = g /\ disk["key"] # Missing
    /\ pc \notin {"generate", "opencert", "writecert", "openkey", "writekey"}

\* How far a start has come says what is on disk.
Progress ==
  /\ pc \in {"opencert", "writecert", "openkey", "writekey"} =>
       memory["cert"] \in Generations /\ memory["key"] \in Generations
  /\ pc \in {"openkey", "writekey"} => disk["cert"] = memory["cert"]
  /\ pc \in {"writekey", "readcert", "readkey", "loaded", "serving"} => disk["key"] # Missing
  /\ pc \in {"readkey", "loaded", "serving"} =>
       disk["cert"] = memory["cert"] /\ memory["cert"] \in Generations

Trust ==
  /\ \A g \in {bundle, trusted} : g \in Generations => Settled(g)
  /\ bundle \in Generations \cup {Missing, Torn}
  /\ trusted \in Generations \cup {Missing}
  /\ step = "runner" => pc = "loaded"
  /\ step = "up" => pc = "serving"
  /\ step = "off" => pc = "down"
  /\ step \in {"create", "encode", "parse", "verbosity"} => pc = "down"

LEMMA BootInitTrust == BootInit => TypeOK /\ Progress /\ Trust
<1> SUFFICES ASSUME BootInit PROVE TypeOK /\ Progress /\ Trust
  OBVIOUS
<1>1. TypeOK
  BY CertsAssumption DEF BootInit, Init, TypeOK, Files, Missing
<1>2. Progress /\ Trust
  BY CertsAssumption DEF BootInit, Init, Progress, Trust, Settled, Generations, Missing, Torn
<1> QED BY <1>1, <1>2

LEMMA StepProgress == TypeOK /\ Progress /\ [Next]_vars => Progress'
<1> SUFFICES ASSUME TypeOK, Progress, [Next]_vars PROVE Progress'
  OBVIOUS
<1> USE CertsAssumption DEF TypeOK, Files, Generations, Missing, Torn, Progress, Settled
<1>1. CASE Start \/ Crash \/ Malformed
  BY <1>1 DEF Start, Crash, Malformed
<1>6. CASE LoadCerts
  BY <1>6 DEF LoadCerts
<1>7. CASE Serve
  BY <1>7 DEF Serve
<1>8. CASE Expire \/ Delete
  <2>1. pc' = "down"
    BY <1>8 DEF Expire, Delete
  <2> QED BY <2>1
<1>9. CASE UNCHANGED vars
  BY <1>9 DEF vars
<1>2. CASE generateCertificate
  BY <1>2 DEF generateCertificate
<1>3. CASE SaveCAToFile
  BY <1>3 DEF SaveCAToFile, SaveToFile
<1>4. CASE SaveKeyToFile
  BY <1>4 DEF SaveKeyToFile, SaveToFile
<1>5. CASE readCert \/ readKey
  BY <1>5 DEF readCert, readKey
<1> QED BY <1>1, <1>2, <1>3, <1>4, <1>5, <1>6, <1>7, <1>8, <1>9 DEF Next, Load

\* No step, of LoadCerts or between starts, touches a pair of files that is settled, but
\* the user's, who abandons it.
LEMMA SettledStays ==
  ASSUME TypeOK, NEW g \in Generations, Settled(g),
         \/ Start \/ LoadCerts \/ generateCertificate \/ SaveCAToFile \/ SaveKeyToFile
         \/ readCert \/ readKey \/ Malformed \/ Serve \/ Crash \/ Expire \/ Delete \/ UNCHANGED vars
  PROVE  Settled(g)'
<1> USE CertsAssumption DEF TypeOK, Files, Generations, Missing, Torn, Settled, ghosts
<1>1. CASE Start \/ generateCertificate \/ Malformed \/ Serve \/ Crash
  BY <1>1 DEF Start, generateCertificate, Malformed, Serve, Crash
<1>4. CASE LoadCerts
  BY <1>4 DEF LoadCerts
<1>5. CASE Expire \/ UNCHANGED vars
  BY <1>5 DEF Expire, vars
<1>6. CASE Delete
  BY <1>6 DEF Delete
<1>2. CASE SaveCAToFile \/ SaveKeyToFile
  BY <1>2 DEF SaveCAToFile, SaveKeyToFile, SaveToFile
<1>3. CASE readCert \/ readKey
  BY <1>3 DEF readCert, readKey
<1> QED BY <1>1, <1>2, <1>3, <1>4, <1>5, <1>6

LEMMA StepTrust == TypeOK /\ Progress /\ Trust /\ [BootNext]_allVars => Trust'
<1> SUFFICES ASSUME TypeOK, Progress, Trust, [BootNext]_allVars PROVE Trust'
  OBVIOUS
<1> USE DEF Trust
<1>1. CASE ParseOptions \/ CreateLoggerConfig \/ parseLoggerConfig \/ EditExport \/ UNCHANGED allVars
  <2>1. UNCHANGED <<pc, disk, abandoned, bundle, trusted>>
    BY <1>1 DEF ParseOptions, CreateLoggerConfig, parseLoggerConfig, EditExport, allVars, vars,
                ghosts, bootVars
  <2>2. \A g \in Generations : Settled(g) => Settled(g)'
    BY <2>1 DEF Settled
  <2>3. \/ step' = step
        \/ pc = "down" /\ step' \in {"off", "create", "encode", "parse", "verbosity"}
    BY <1>1 DEF ParseOptions, CreateLoggerConfig, parseLoggerConfig, EditExport, allVars, bootVars
  <2> QED BY <2>1, <2>2, <2>3
<1>2. CASE configureVerbosity
  <2>1. \A g \in Generations : Settled(g) => Settled(g)'
    BY <1>2, SettledStays DEF configureVerbosity
  <2>2. UNCHANGED <<bundle, trusted>> /\ ((step' = "off" /\ pc' = pc) \/ step' = "certs")
    BY <1>2 DEF configureVerbosity, vars
  <2> QED BY <1>2, <2>1, <2>2 DEF configureVerbosity
<1>3. CASE Loading
  <2>1. \A g \in Generations : Settled(g) => Settled(g)'
    BY <1>3, SettledStays DEF Loading
  <2> QED BY <1>3, <2>1 DEF Loading
<1>4. CASE SaveBundle
  <2>1. /\ \A g \in Generations : Settled(g) => Settled(g)'
        /\ pc' = "down" /\ step' = "off" /\ trusted' = trusted
        /\ bundle' \in {memory["cert"], Torn, bundle}
    BY <1>4, SettledStays DEF SaveBundle, Crash
  <2>2. memory["cert"] \in Generations /\ Settled(memory["cert"])
    BY <1>4 DEF SaveBundle, Progress, Settled
  <2>3. Torn \notin Generations
    BY CertsAssumption DEF Torn, Generations
  <2> QED BY <2>1, <2>2, <2>3
<1>5. CASE RunProxy \/ Kill
  <2>1. \A g \in Generations : Settled(g) => Settled(g)'
    BY <1>5, SettledStays DEF RunProxy, Kill
  <2> QED BY <1>5, <2>1 DEF RunProxy, Kill, Serve, Crash, vars
<1>6. CASE Install
  <2>1. \A g \in Generations : Settled(g) => Settled(g)'
    BY <1>6, SettledStays DEF Install
  <2>2. step = "up" => memory["cert"] \in Generations /\ Settled(memory["cert"])
    BY DEF Progress, Settled
  <2>3. UNCHANGED <<step, pc, bundle>>
    BY <1>6 DEF Install, vars
  <2>4. trusted' = bundle \/ (step = "up" /\ trusted' = memory["cert"])
    BY <1>6 DEF Install
  <2>5. bundle = trusted' => trusted' \in Generations
    BY <1>6, <2>2 DEF Install
  <2> QED BY <2>1, <2>2, <2>3, <2>4, <2>5
<1>7. CASE DeleteFile \/ YearPasses
  <2>1. \A g \in Generations : Settled(g) => Settled(g)'
    BY <1>7, SettledStays DEF DeleteFile, YearPasses
  <2> QED BY <1>7, <2>1 DEF DeleteFile, YearPasses, bootVars, Delete, Expire
<1> QED BY <1>1, <1>2, <1>3, <1>4, <1>5, <1>6, <1>7 DEF BootNext

\* The certificate that a client installed is the one that every later start signs with,
\* whatever fails in between, unless the user deletes a file of that authority: the only
\* way to a new one.
THEOREM TrustIsKept == BootSpec => []TrustedCA
<1>1. BootInit => TypeOK /\ Progress /\ Trust
  BY BootInitTrust
<1>2. TypeOK /\ Progress /\ Trust /\ [BootNext]_allVars => (TypeOK /\ Progress /\ Trust)'
  BY BootStepIsCerts, StepType, StepProgress, StepTrust
<1>3. TypeOK /\ Progress /\ Trust => TrustedCA
  BY CertsAssumption DEF Progress, Trust, TrustedCA, Settled, Missing
<1> QED BY <1>1, <1>2, <1>3, PTL DEF BootSpec
-----------------------------------------------------------------------------
(* The types of a whole start *)

\* LoadCerts is under way in one step of the start, and serving in another.
InStep ==
  /\ pc = "down" <=> step \in {"off", "create", "encode", "parse", "verbosity"}
  /\ pc = "serving" <=> step = "up"
  /\ pc = "loaded" => step = "runner"
  /\ step = "runner" => pc = "loaded"

LEMMA StepInStep == TypeOK /\ step \in Steps /\ InStep /\ [BootNext]_allVars => InStep'
<1> SUFFICES ASSUME TypeOK, step \in Steps, InStep, [BootNext]_allVars PROVE InStep'
  OBVIOUS
<1> USE DEF InStep, Steps
<1>1. CASE ParseOptions \/ CreateLoggerConfig \/ parseLoggerConfig \/ Install \/ EditExport
           \/ UNCHANGED allVars
  <2>1. pc' = pc
    BY <1>1 DEF ParseOptions, CreateLoggerConfig, parseLoggerConfig, Install, EditExport,
                allVars, vars
  <2>2. \/ step' = step
        \/ /\ step \in {"off", "create", "encode", "parse", "verbosity"}
           /\ step' \in {"off", "create", "encode", "parse", "verbosity"}
    BY <1>1 DEF ParseOptions, CreateLoggerConfig, parseLoggerConfig, Install, EditExport,
                allVars, bootVars
  <2> QED BY <2>1, <2>2
<1>2. CASE configureVerbosity
  BY <1>2 DEF configureVerbosity, Start, vars
<1>3. CASE Loading
  <2>1. pc' # "serving"
    BY <1>3 DEF Loading, LoadCerts, generateCertificate, SaveCAToFile, SaveKeyToFile, SaveToFile,
                readCert, readKey, Malformed
  <2> QED BY <1>3, <2>1 DEF Loading
<1>4. CASE SaveBundle \/ RunProxy \/ Kill
  BY <1>4 DEF SaveBundle, RunProxy, Kill, Serve, Crash, vars
<1>5. CASE DeleteFile \/ YearPasses
  BY <1>5 DEF DeleteFile, YearPasses, Delete, Expire, bootVars
<1> QED BY <1>1, <1>2, <1>3, <1>4, <1>5 DEF BootNext

OptionsOK ==
  /\ step \in Steps
  /\ options \in OptionsType
  /\ export \in Exports
  /\ exporters \in {"none", "user"}

LEMMA StepOptions == OptionsOK /\ [BootNext]_allVars => OptionsOK'
<1> SUFFICES ASSUME OptionsOK, [BootNext]_allVars PROVE OptionsOK'
  OBVIOUS
<1> USE DEF OptionsOK, Steps, Exports
<1>1. CASE ParseOptions \/ CreateLoggerConfig \/ parseLoggerConfig \/ configureVerbosity
  BY <1>1 DEF ParseOptions, CreateLoggerConfig, parseLoggerConfig, configureVerbosity
<1>2. CASE Loading \/ SaveBundle \/ RunProxy \/ Kill
  BY <1>2 DEF Loading, SaveBundle, RunProxy, Kill
<1>3. CASE Install \/ EditExport \/ DeleteFile \/ YearPasses \/ UNCHANGED allVars
  BY <1>3 DEF Install, EditExport, DeleteFile, YearPasses, allVars, bootVars
<1> QED BY <1>1, <1>2, <1>3 DEF BootNext

\* Every variable of a start keeps its type, and LoadCerts is under way, and the proxy
\* serving, exactly in their steps of the start.
THEOREM BootTyped == BootSpec => []BootTypeOK
<1> DEFINE IInv == TypeOK /\ Progress /\ Trust /\ OptionsOK /\ InStep
<1>1. BootInit => IInv
  <2>1. BootInit => OptionsOK /\ InStep
    BY DEF BootInit, Init, OptionsOK, InStep, Steps, Exports, OptionsType
  <2> QED BY <2>1, BootInitTrust
<1>2. IInv /\ [BootNext]_allVars => IInv'
  <2>1. OptionsOK => step \in Steps
    BY DEF OptionsOK
  <2> QED BY <2>1, BootStepIsCerts, StepType, StepProgress, StepTrust, StepOptions, StepInStep
<1>3. IInv => BootTypeOK
  BY DEF Trust, OptionsOK, InStep, BootTypeOK
<1> QED BY <1>1, <1>2, <1>3, PTL DEF BootSpec

-----------------------------------------------------------------------------
(* The export configuration *)

\* A start that creates the file did not find the user's, and only between starts does
\* the user write one.
CreatesOwn == step \in {"create", "encode"} => export # "user"

LEMMA StepCreatesOwn == CreatesOwn /\ [BootNext]_allVars => CreatesOwn'
<1> SUFFICES ASSUME CreatesOwn, [BootNext]_allVars PROVE CreatesOwn'
  OBVIOUS
<1>1. CASE ParseOptions \/ CreateLoggerConfig
  BY <1>1 DEF ParseOptions, CreateLoggerConfig, CreatesOwn
<1>2. CASE parseLoggerConfig \/ configureVerbosity \/ Loading \/ SaveBundle \/ RunProxy \/ Kill
  <2>1. step' \notin {"create", "encode"}
    BY <1>2 DEF parseLoggerConfig, configureVerbosity, Loading, SaveBundle, RunProxy, Kill
  <2> QED BY <2>1 DEF CreatesOwn
<1>3. CASE EditExport
  BY <1>3 DEF EditExport, CreatesOwn
<1>4. CASE Install \/ DeleteFile \/ YearPasses \/ UNCHANGED allVars
  BY <1>4 DEF Install, DeleteFile, YearPasses, allVars, bootVars, CreatesOwn
<1> QED BY <1>1, <1>2, <1>3, <1>4 DEF BootNext

\* No start, wherever it and earlier ones fail or are killed, overwrites the export
\* configuration that the user wrote (createLoggerConfigIfNotExists).
THEOREM ExportIsKept == BootSpec => ExportKept
<1>1. BootInit => CreatesOwn
  BY DEF BootInit, CreatesOwn
<1>2. CreatesOwn /\ [BootNext]_allVars
        => [(step # "off" /\ export = "user") => export' = "user"]_allVars
  <2> SUFFICES ASSUME CreatesOwn, [BootNext]_allVars, step # "off", export = "user"
               PROVE  export' = "user"
    OBVIOUS
  <2>1. CASE ParseOptions \/ EditExport \/ DeleteFile \/ YearPasses
    BY <2>1 DEF ParseOptions, EditExport, DeleteFile, YearPasses
  <2>2. CASE CreateLoggerConfig
    BY <2>2 DEF CreateLoggerConfig, CreatesOwn
  <2>3. CASE parseLoggerConfig \/ configureVerbosity \/ Loading \/ SaveBundle \/ RunProxy \/ Kill
             \/ Install \/ UNCHANGED allVars
    BY <2>3 DEF parseLoggerConfig, configureVerbosity, Loading, SaveBundle, RunProxy, Kill, Install,
                allVars, bootVars
  <2> QED BY <2>1, <2>2, <2>3 DEF BootNext
<1> QED BY <1>1, StepCreatesOwn, <1>2, PTL DEF BootSpec, ExportKept

=============================================================================

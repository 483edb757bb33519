------------------------------- MODULE Startup -------------------------------
(***************************************************************************)
(* A start of proxify from end to end: ParseOptions with the export        *)
(* configuration it creates, NewRunner with LoadCerts (module Certs),      *)
(* -out-ca and NewProxy, and Run up to the listener; and what the user     *)
(* does in between: edit the configuration, delete a file, install the CA  *)
(* certificate in a client.  A start may fail or be killed at every step,  *)
(* and the next one finds what it left behind.                             *)
(***************************************************************************)
EXTENDS Certs

Steps   == {"off", "create", "encode", "parse", "verbosity", "certs", "runner", "up"}
Exports == {"missing", "empty", "partial", "default", "user"}

\* Of the command line: -out-ca, expressions that compile, -silent without -v, -version.
OptionsType == [OutCAFile : BOOLEAN, compiles : BOOLEAN, quits : BOOLEAN]

VARIABLES
  step,       \* where the start is; "certs" while LoadCerts runs
  options,    \* the options of the start
  export,     \* the export configuration file
  exporters,  \* options.Kafka and options.Elastic: "none", or as in the user's file
  bundle,     \* the file saved by -out-ca: Missing, Torn or a generation
  trusted     \* ghost: the certificate that a client has installed, or Missing

bootVars == <<step, options, export, exporters, bundle, trusted>>
allVars  == <<vars, bootVars>>

-----------------------------------------------------------------------------
(* ParseOptions *)

BootInit ==
  /\ Init
  /\ step = "off"
  /\ options = [OutCAFile |-> FALSE, compiles |-> TRUE, quits |-> FALSE]
  /\ export = "missing"
  /\ exporters = "none"
  /\ bundle = Missing
  /\ trusted = Missing

\* Mutant of ParseOptions: the export configuration is created by every start.
ParseOptionsCreates ==
  /\ step = "off"
  /\ options' \in OptionsType
  /\ exporters' = "none"
  /\ step' = "create"
  /\ UNCHANGED <<export, bundle, trusted, vars>>

\* The flags are parsed; a file that exists is not created.
ParseOptions ==
  /\ step = "off"
  /\ options' \in OptionsType
  /\ exporters' = "none"
  /\ step' = IF export = "missing" THEN "create" ELSE "parse"
  /\ UNCHANGED <<export, bundle, trusted, vars>>

\* createLoggerConfigIfNotExists: os.Create, then the encoder writes an empty
\* configuration; an error ends the start and leaves what was written.
CreateLoggerConfig ==
  /\ \/ /\ step = "create"
        /\ export' = "empty"
        /\ step' = "encode"
     \/ /\ step = "encode"
        /\ export' = "default"
        /\ step' = "parse"
     \/ /\ step = "encode"
        /\ export' \in {"empty", "partial"}
        /\ step' = "off"
  /\ UNCHANGED <<options, exporters, bundle, trusted, vars>>

\* A file without text decodes to the empty configuration, one cut off as well or not.
parseLoggerConfig ==
  /\ step = "parse"
  /\ \/ /\ export = "partial"
        /\ step' = "off"
        /\ UNCHANGED exporters
     \/ /\ step' = "verbosity"
        /\ exporters' = IF export = "user" THEN "user" ELSE "none"
  /\ UNCHANGED <<options, export, bundle, trusted, vars>>

\* The end of ParseOptions: contradictory flags and -version end the start; if they do
\* not, LoadCerts begins.
configureVerbosity ==
  /\ step = "verbosity"
  /\ IF options.quits
     THEN step' = "off" /\ UNCHANGED vars
     ELSE step' = "certs" /\ Start
  /\ UNCHANGED <<options, export, exporters, bundle, trusted>>

-----------------------------------------------------------------------------
(* NewRunner and Run *)

\* A step of LoadCerts; an error of it ends the start.
Loading ==
  /\ step = "certs"
  /\ \/ LoadCerts \/ generateCertificate \/ SaveCAToFile \/ SaveKeyToFile
     \/ readCert \/ readKey \/ Malformed
  /\ step' = IF pc' = "down" THEN "off" ELSE IF pc' = "loaded" THEN "runner" ELSE "certs"
  /\ UNCHANGED <<options, export, exporters, bundle, trusted>>

\* -out-ca: the certificate in memory is saved, and the process exits - or fails to.
SaveBundle ==
  /\ step = "runner"
  /\ options.OutCAFile
  /\ bundle' \in {memory["cert"], Torn, bundle}
  /\ step' = "off"
  /\ Crash
  /\ UNCHANGED <<options, export, exporters, trusted>>

\* NewProxy, the check of the expressions and the listener, each of which may end the
\* start; else the proxy serves, and signs with the package variables.
RunProxy ==
  /\ step = "runner"
  /\ ~options.OutCAFile
  /\ \/ options.compiles /\ step' = "up" /\ Serve
     \/ step' = "off" /\ Crash
  /\ UNCHANGED <<options, export, exporters, bundle, trusted>>

\* The process is killed.
Kill ==
  /\ step # "off"
  /\ step' = "off"
  /\ IF pc = "down" THEN UNCHANGED vars ELSE Crash
  /\ UNCHANGED <<options, export, exporters, bundle, trusted>>

-----------------------------------------------------------------------------
(* The user *)

\* A client installs the file that -out-ca has saved, or the one that the page /cacert
\* of the running proxy makes of the certificate in memory (GetRawCA).
Install ==
  /\ \/ bundle \in Generations /\ trusted' = bundle
     \/ step = "up" /\ trusted' = memory["cert"]
  /\ UNCHANGED <<step, options, export, exporters, bundle, vars>>

\* Between starts the user writes an export configuration, or removes it.
EditExport ==
  /\ step = "off"
  /\ export' \in {"user", "missing"}
  /\ UNCHANGED <<step, options, exporters, bundle, trusted, vars>>

\* The user deletes the certificate or the key; what clients have installed stays.
DeleteFile == step = "off" /\ Delete /\ UNCHANGED bootVars

YearPasses == step = "off" /\ Expire /\ UNCHANGED bootVars

BootNext ==
  \/ ParseOptions \/ CreateLoggerConfig \/ parseLoggerConfig \/ configureVerbosity
  \/ Loading \/ SaveBundle \/ RunProxy \/ Kill
  \/ Install \/ EditExport \/ DeleteFile \/ YearPasses

BootSpec == BootInit /\ [][BootNext]_allVars

-----------------------------------------------------------------------------
(* Properties *)

\* Types, for all of a start; LoadCerts is under way exactly in its step.
BootTypeOK ==
  /\ TypeOK
  /\ step \in Steps
  /\ options \in OptionsType
  /\ export \in Exports
  /\ exporters \in {"none", "user"}
  /\ {bundle, trusted} \subseteq Generations \cup {Missing, Torn}
  /\ pc = "down" <=> step \in {"off", "create", "encode", "parse", "verbosity"}
  /\ pc = "serving" <=> step = "up"

\* The certificate that a client installed - from -out-ca, or from the page /cacert, of
\* whichever start - is the one that every later start signs with, wherever starts in
\* between failed, were killed or found it expired. The one step that ends it is the
\* user's, who deletes the certificate or the key: LoadCerts then makes a new authority
\* without a word, while the client goes on trusting the old one.
TrustedCA ==
  (pc = "serving" /\ trusted \in Generations \ abandoned) => trusted = memory["cert"]

\* No start overwrites the export configuration that the user wrote, though it creates
\* the file when it does not exist.
ExportKept ==
  [][(step # "off" /\ export = "user") => export' = "user"]_allVars

=============================================================================

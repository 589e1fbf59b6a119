----------------------------- MODULE CipherSuites -----------------------------
(***************************************************************************)
(* _parse_all_cipher_suites() and CipherSuitesRepository, step by step.   *)
(* The builder loops over SSL 2.0 .. TLS 1.1; inside the loop body (as the *)
(* source is indented) it also rebuilds TLS 1.2 from both clients and     *)
(* TLS 1.3 from the hardcoded list, so both are rebuilt four times.  Each *)
(* engine call and each translated name is one step; Python iterates a    *)
(* set in no fixed order, so the next name is chosen with \E.  Any raise  *)
(* aborts the import of the module: the catalog is never published.       *)
(***************************************************************************)
EXTENDS CipherSuiteTranslation, Sequences

VARIABLES
  engine,       \* the engine build (fixed for the run)
  unavailable,  \* the (client, version) calls whose client constructor raises
  pc,           \* where the builder is
  i,            \* index of the loop's tls_version in LoopVersions
  names,        \* openssl_cipher_strings not yet iterated over
  legacy12,     \* cipher_suites_from_legacy_openssl
  cat,          \* tls_version_to_cipher_suites, with keys the versions set
  keys,         \* the keys of tls_version_to_cipher_suites
  err,          \* the exception that aborted the build, or "none"
  lookup        \* the last get_all_cipher_suites call: version and result

vars == <<engine, unavailable, pc, i, names, legacy12, cat, keys, err, lookup>>

LoopVersions == <<SSL_2_0, SSL_3_0, TLS_1_0, TLS_1_1>>

PCs == {"enum_legacy", "translate", "enum12_legacy", "enum12_modern",
        "translate12", "build13", "done", "failed"}
Errors == {"none", "EngineUnavailable", "NoCipherMatch", "MappingError"}

NoLookup == [version |-> "none", found |-> FALSE, result |-> {}]

(* The engine call the builder is about to make.                           *)
CurrentPair ==
  CASE pc = "enum_legacy"   -> <<Legacy, LoopVersions[i]>>
    [] pc = "enum12_legacy" -> <<Legacy, TLS_1_2>>
    [] OTHER                -> <<Modern, TLS_1_2>>

(* The version whose names are being translated.                           *)
TranslatingVersion == IF pc = "translate" THEN LoopVersions[i] ELSE TLS_1_2

(* The client constructor raises for an unsupported protocol, then         *)
(* set_cipher_list raises when nothing is selected.                        *)
EngineFails(p) == p \in unavailable \/ NoCipherMatch(engine, p)
(* Mutant: every engine failure reported as an unavailable protocol.     *)
EngineErrorConflated(p) == "EngineUnavailable"
EngineError(p) == IF p \in unavailable THEN "EngineUnavailable" ELSE "NoCipherMatch"

Fail(kind) ==
  /\ pc' = "failed"
  /\ err' = kind
  /\ UNCHANGED <<engine, unavailable, i, names, legacy12, cat, keys, lookup>>

Init ==
  /\ engine \in Engines
  /\ unavailable \in SUBSET EnginePairs
  /\ pc = "enum_legacy"
  /\ i = 1
  /\ names = {}
  /\ legacy12 = {}
  /\ cat = [v \in Versions |-> {}]
  /\ keys = {}
  /\ err = "none"
  /\ lookup = NoLookup

(* openssl_cipher_strings = _parse_all_cipher_suites_with_legacy_openssl(v) *)
(* followed by tls_version_to_cipher_suites[v] = set().                     *)
EnumerateLegacy ==
  LET v == LoopVersions[i] IN
  /\ pc = "enum_legacy"
  /\ ~EngineFails(CurrentPair)
  /\ names' = CipherList(engine, CurrentPair)
  /\ cat' = [cat EXCEPT ![v] = {}]
  /\ keys' = keys \cup {v}
  /\ pc' = "translate"
  /\ UNCHANGED <<engine, unavailable, i, legacy12, err, lookup>>

(* cipher_suites_from_legacy_openssl = ...(TlsVersionEnum.TLS_1_2)         *)
EnumerateTls12Legacy ==
  /\ pc = "enum12_legacy"
  /\ ~EngineFails(CurrentPair)
  /\ legacy12' = CipherList(engine, CurrentPair)
  /\ pc' = "enum12_modern"
  /\ UNCHANGED <<engine, unavailable, i, names, cat, keys, err, lookup>>

(* Mutant: the legacy client's TLS 1.2 list is dropped, not united.     *)
EnumerateTls12ModernOnly ==
  /\ pc = "enum12_modern"
  /\ ~EngineFails(CurrentPair)
  /\ names' = CipherList(engine, CurrentPair)
  /\ cat' = [cat EXCEPT ![TLS_1_2] = {}]
  /\ keys' = keys \cup {TLS_1_2}
  /\ pc' = "translate12"
  /\ UNCHANGED <<engine, unavailable, i, legacy12, err, lookup>>

(* The modern client's list, united with the legacy one, and the TLS 1.2  *)
(* entry reset to set().                                                  *)
EnumerateTls12Modern ==
  /\ pc = "enum12_modern"
  /\ ~EngineFails(CurrentPair)
  /\ names' = legacy12 \cup CipherList(engine, CurrentPair)
  /\ cat' = [cat EXCEPT ![TLS_1_2] = {}]
  /\ keys' = keys \cup {TLS_1_2}
  /\ pc' = "translate12"
  /\ UNCHANGED <<engine, unavailable, i, legacy12, err, lookup>>

(* Any of the three engine calls raises.                                   *)
EnumerateFailed ==
  /\ pc \in {"enum_legacy", "enum12_legacy", "enum12_modern"}
  /\ EngineFails(CurrentPair)
  /\ Fail(EngineError(CurrentPair))

(* "Ignore TLS 1.3 cipher suites": the TLS 1.2 loop skips them.            *)
SkipTls13(n) ==
  /\ pc = "translate12"
  /\ n \in names \cap Tls13CipherSuites
  /\ names' = names \ {n}
  /\ UNCHANGED <<engine, unavailable, pc, i, legacy12, cat, keys, err, lookup>>

(* Mutant: the translated name is not consumed from the iteration.      *)
TranslateKeepsName(n) ==
  LET v == TranslatingVersion IN
  /\ pc \in {"translate", "translate12"}
  /\ n \in names
  /\ ~(pc = "translate12" /\ n \in Tls13CipherSuites)
  /\ Translatable(v, n)
  /\ cat' = [cat EXCEPT ![v] = @ \cup {ToCipherSuite(v, n)}]
  /\ UNCHANGED <<engine, unavailable, pc, i, names, legacy12, keys, err, lookup>>

(* One name translated and added to the version's set.                     *)
Translate(n) ==
  LET v == TranslatingVersion IN
  /\ pc \in {"translate", "translate12"}
  /\ n \in names
  /\ ~(pc = "translate12" /\ n \in Tls13CipherSuites)
  /\ Translatable(v, n)
  /\ cat' = [cat EXCEPT ![v] = @ \cup {ToCipherSuite(v, n)}]
  /\ names' = names \ {n}
  /\ UNCHANGED <<engine, unavailable, pc, i, legacy12, keys, err, lookup>>

(* Mutant: an OpenSSL name the tables lack is skipped, not raised on.  *)
TranslateFailedSkips(n) ==
  /\ pc \in {"translate", "translate12"}
  /\ n \in names
  /\ ~(pc = "translate12" /\ n \in Tls13CipherSuites)
  /\ ~Translatable(TranslatingVersion, n)
  /\ names' = names \ {n}
  /\ UNCHANGED <<engine, unavailable, pc, i, legacy12, cat, keys, err, lookup>>

(* A dictionary lookup of the translation raises KeyError.                 *)
TranslateFailed(n) ==
  /\ pc \in {"translate", "translate12"}
  /\ n \in names
  /\ ~(pc = "translate12" /\ n \in Tls13CipherSuites)
  /\ ~Translatable(TranslatingVersion, n)
  /\ Fail("MappingError")

(* The for loop over openssl_cipher_strings ends.                          *)
EndTranslate ==
  /\ pc \in {"translate", "translate12"}
  /\ names = {}
  /\ pc' = IF pc = "translate" THEN "enum12_legacy" ELSE "build13"
  /\ UNCHANGED <<engine, unavailable, i, names, legacy12, cat, keys, err, lookup>>

(* Mutant: the loop index is advanced past the last version.           *)
BuildTls13PastEnd ==
  /\ pc = "build13"
  /\ Tls13CipherSuites \subseteq DOMAIN KeySizeMapping
  /\ cat' = [cat EXCEPT ![TLS_1_3] = {Tls13CipherSuite(n) : n \in Tls13CipherSuites}]
  /\ keys' = keys \cup {TLS_1_3}
  /\ i' = i + 1
  /\ pc' = IF i < Len(LoopVersions) THEN "enum_legacy" ELSE "done"
  /\ UNCHANGED <<engine, unavailable, names, legacy12, err, lookup>>

(* Mutant: TLS 1.3 names without a key size skipped instead of raising.  *)
BuildTls13SkipsUnsized ==
  /\ pc = "build13"
  /\ cat' = [cat EXCEPT ![TLS_1_3] =
              {Tls13CipherSuite(n) : n \in Tls13CipherSuites \cap DOMAIN KeySizeMapping}]
  /\ keys' = keys \cup {TLS_1_3}
  /\ IF i < Len(LoopVersions)
     THEN i' = i + 1 /\ pc' = "enum_legacy"
     ELSE i' = i /\ pc' = "done"
  /\ UNCHANGED <<engine, unavailable, names, legacy12, err, lookup>>

(* The TLS 1.3 entry from the hardcoded list, then the next tls_version;   *)
(* after the last one the function returns and _ALL_CIPHER_SUITES is set.  *)
BuildTls13 ==
  /\ pc = "build13"
  /\ Tls13CipherSuites \subseteq DOMAIN KeySizeMapping
  /\ cat' = [cat EXCEPT ![TLS_1_3] = {Tls13CipherSuite(n) : n \in Tls13CipherSuites}]
  /\ keys' = keys \cup {TLS_1_3}
  /\ IF i < Len(LoopVersions)
     THEN i' = i + 1 /\ pc' = "enum_legacy"
     ELSE i' = i /\ pc' = "done"
  /\ UNCHANGED <<engine, unavailable, names, legacy12, err, lookup>>

(* The TLS 1.3 block raises KeyError for a name without a key size.        *)
BuildTls13Failed ==
  /\ pc = "build13"
  /\ ~(Tls13CipherSuites \subseteq DOMAIN KeySizeMapping)
  /\ Fail("MappingError")

(* Mutant: lookups served while the catalog is still being built.      *)
LookupUnguarded(v) ==
  /\ pc \notin {"failed"}
  /\ lookup' = [version |-> v, found |-> v \in keys,
                result |-> IF v \in keys THEN cat[v] ELSE {}]
  /\ UNCHANGED <<engine, unavailable, pc, i, names, legacy12, cat, keys, err>>

(* CipherSuitesRepository.get_all_cipher_suites(v): the class exists only  *)
(* once the build returned.                                                *)
Lookup(v) ==
  /\ pc = "done"
  /\ lookup' = [version |-> v, found |-> v \in keys,
                result |-> IF v \in keys THEN cat[v] ELSE {}]
  /\ UNCHANGED <<engine, unavailable, pc, i, names, legacy12, cat, keys, err>>

(* The import raised: the process ends.                                    *)
ImportFailed ==
  /\ pc = "failed"
  /\ UNCHANGED vars

Next ==
  \/ EnumerateLegacy \/ EnumerateTls12Legacy \/ EnumerateTls12Modern
  \/ EnumerateFailed
  \/ \E n \in names : SkipTls13(n) \/ Translate(n) \/ TranslateFailed(n)
  \/ EndTranslate
  \/ BuildTls13 \/ BuildTls13Failed
  \/ \E v \in Versions : Lookup(v)
  \/ ImportFailed

(* The class body runs in one thread at import.                             *)
Spec == Init /\ [][Next]_vars

-----------------------------------------------------------------------------
(* The type invariant: every variable of the builder and of the lookups    *)
(* stays within its domain (the catalog maps each version to a set of      *)
(* CipherSuite records).                                                   *)
TypeOK ==
  /\ engine \in Engines
  /\ unavailable \subseteq EnginePairs
  /\ pc \in PCs
  /\ i \in 1..Len(LoopVersions)
  /\ names \subseteq STRING
  /\ legacy12 \subseteq STRING
  /\ cat \in [Versions -> SUBSET CipherSuite]
  /\ keys \subseteq Versions
  /\ err \in Errors
  /\ lookup \in [version : Versions \cup {"none"}, found : BOOLEAN,
                 result : SUBSET CipherSuite]

(* Once the module is imported, every version has an entry and the entry  *)
(* is exactly the translation of what the engine build supports: nothing  *)
(* the legacy or the modern client lists is lost, nothing else is added,  *)
(* although the TLS 1.2 and 1.3 entries were rebuilt four times.          *)
CatalogMatchesEngine ==
  pc = "done" =>
    /\ keys = Versions
    /\ \A v \in Versions : cat[v] = Expected(engine, v)

(* A build aborts with an exception only for a cause of that kind: a      *)
(* client that cannot be constructed, a selection that matches nothing,  *)
(* or a name missing from a table among the names that are translated.    *)
FailureJustified ==
  /\ err = "EngineUnavailable" => unavailable # {}
  /\ err = "NoCipherMatch" => \E p \in EnginePairs : NoCipherMatch(engine, p)
  /\ err = "MappingError" =>
       \/ \E v \in EnumeratedVersions :
            \E n \in NamesToTranslate(engine, v) : ~Translatable(v, n)
       \/ ~(Tls13CipherSuites \subseteq DOMAIN KeySizeMapping)

(* The builder's loop invariant, which makes CatalogMatchesEngine          *)
(* inductive: the keys present so far, every entry of a version already    *)
(* built equal to its expected set, and the entry being filled equal to    *)
(* the translation of the names already iterated over.                     *)
KeysAt ==
  {LoopVersions[j] : j \in 1..(i - 1)}
  \cup (IF pc = "enum_legacy" THEN {} ELSE {LoopVersions[i]})
  \cup (IF i > 1 \/ pc \in {"translate12", "build13"} THEN {TLS_1_2} ELSE {})
  \cup (IF i > 1 THEN {TLS_1_3} ELSE {})

Tls12Names == CipherList(engine, <<Legacy, TLS_1_2>>) \cup CipherList(engine, <<Modern, TLS_1_2>>)

InvKeys == keys = KeysAt
InvBuilt == \A j \in 1..(i - 1) : cat[LoopVersions[j]] = Expected(engine, LoopVersions[j])
InvTranslating ==
  pc = "translate" =>
    /\ names \subseteq NamesToTranslate(engine, LoopVersions[i])
    /\ cat[LoopVersions[i]] =
         {ToCipherSuite(LoopVersions[i], n) :
            n \in NamesToTranslate(engine, LoopVersions[i]) \ names}
InvCurrentBuilt ==
  pc \notin {"enum_legacy", "translate"} =>
    cat[LoopVersions[i]] = Expected(engine, LoopVersions[i])
InvLegacy12 == pc = "enum12_modern" => legacy12 = CipherList(engine, <<Legacy, TLS_1_2>>)
InvTranslating12 ==
  pc = "translate12" =>
    /\ names \subseteq Tls12Names
    /\ cat[TLS_1_2] =
         {ToCipherSuite(TLS_1_2, n) : n \in (Tls12Names \ names) \ Tls13CipherSuites}
InvTls12Built ==
  (i > 1 \/ pc \in {"build13", "done"}) /\ pc # "translate12" =>
    cat[TLS_1_2] = Expected(engine, TLS_1_2)
InvTls13Built == (i > 1 \/ pc = "done") => cat[TLS_1_3] = Expected(engine, TLS_1_3)
InvDone == pc = "done" => i = Len(LoopVersions)

CatalogInv ==
  pc # "failed" =>
    /\ InvKeys /\ InvBuilt /\ InvTranslating /\ InvCurrentBuilt /\ InvLegacy12
    /\ InvTranslating12 /\ InvTls12Built /\ InvTls13Built /\ InvDone

(* The import completes only when the build had no cause to raise: every  *)
(* engine call succeeded, every name the catalog needs translates, and     *)
(* every TLS 1.3 name has a key size.  With FailureJustified, the catalog  *)
(* is published exactly when BuildFails is false.                         *)
CompletesOnlyIfSound == pc = "done" => ~BuildFails(engine, unavailable)

(* What the builder has established so far about the causes of failure,   *)
(* stage by stage; it makes CompletesOnlyIfSound inductive.                *)
AllTranslatable(v, S) == \A n \in S : Translatable(v, n)
SoundBuilt ==
  \A j \in 1..(i - 1) :
    /\ ~EngineFails(<<Legacy, LoopVersions[j]>>)
    /\ AllTranslatable(LoopVersions[j], NamesToTranslate(engine, LoopVersions[j]))
SoundLegacyCall == pc # "enum_legacy" => ~EngineFails(<<Legacy, LoopVersions[i]>>)
SoundTranslating ==
  pc = "translate" =>
    AllTranslatable(LoopVersions[i], NamesToTranslate(engine, LoopVersions[i]) \ names)
SoundCurrent ==
  pc \notin {"enum_legacy", "translate"} =>
    AllTranslatable(LoopVersions[i], NamesToTranslate(engine, LoopVersions[i]))
SoundLegacy12Call ==
  (i > 1 \/ pc \in {"enum12_modern", "translate12", "build13", "done"}) =>
    ~EngineFails(<<Legacy, TLS_1_2>>)
SoundModernCall ==
  (i > 1 \/ pc \in {"translate12", "build13", "done"}) => ~EngineFails(<<Modern, TLS_1_2>>)
SoundTranslating12 ==
  pc = "translate12" => AllTranslatable(TLS_1_2, (Tls12Names \ names) \ Tls13CipherSuites)
SoundTls12 ==
  (i > 1 \/ pc \in {"build13", "done"}) =>
    AllTranslatable(TLS_1_2, NamesToTranslate(engine, TLS_1_2))
SoundTls13 == (i > 1 \/ pc = "done") => Tls13CipherSuites \subseteq DOMAIN KeySizeMapping

SoundSoFar ==
  pc # "failed" =>
    /\ SoundBuilt /\ SoundLegacyCall /\ SoundTranslating /\ SoundCurrent
    /\ SoundLegacy12Call /\ SoundModernCall /\ SoundTranslating12 /\ SoundTls12
    /\ SoundTls13

(* The builder implements the repository's promise: the catalog is       *)
(* published once, complete, and lookups read only the published catalog.  *)
Abs == INSTANCE CatalogRepository WITH
  status <- CASE pc = "done" -> "built" [] pc = "failed" -> "failed"
                 [] OTHER -> "unbuilt",
  repo <- IF pc = "done" THEN cat ELSE [v \in Versions |-> {}]

AbsSpec == Abs!Spec

(* "Disable SRP and PSK cipher suites as they need a special setup in the  *)
(* client and are never used": no catalog entry, at any point of the build, *)
(* is a PSK or SRP suite, although the clients support them and the name    *)
(* table translates some of them.                                          *)
NoPskSrpSuites ==
  \A v \in Versions : \A s \in cat[v] : s.openssl_name \notin PskSrpNames

(* Every entry, at every point of the build, holds only suites of the      *)
(* names the catalog translates for its version (the hardcoded list for    *)
(* TLS 1.3); it makes NoPskSrpSuites inductive.                            *)
EntriesFromEngine ==
  \A v \in Versions : \A s \in cat[v] :
    s.openssl_name \in IF v = TLS_1_3 THEN Tls13CipherSuites
                       ELSE NamesToTranslate(engine, v)

(* The spec (section 3 and 8): in the published catalog, no RFC name       *)
(* occurs twice within one version's set of CipherSuite records.           *)
CanonicalNamesUnique ==
  pc = "done" => \A v \in keys : \A s, t \in cat[v] : s.name = t.name => s = t

(* The spec (4.3): a MappingError can only come from an OpenSSL name the  *)
(* name tables do not catalogue; the key-size table covers every RFC name  *)
(* the name tables produce (4.1).                                          *)
MappingErrorOnlyForUncatalogued ==
  err = "MappingError" =>
    \E v \in EnumeratedVersions :
      \E n \in NamesToTranslate(engine, v) : n \notin DOMAIN RfcMapping(v)
=============================================================================

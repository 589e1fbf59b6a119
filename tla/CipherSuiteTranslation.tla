------------------------ MODULE CipherSuiteTranslation ------------------------
(***************************************************************************)
(* The pure part of sslyze's cipher-suite catalog                         *)
(* (sslyze/plugins/openssl_cipher_suites/cipher_suites.py): the record    *)
(* CipherSuite, the translation of an OpenSSL cipher name into that        *)
(* record, what the engine returns for a cipher selection, and what the    *)
(* catalog must hold once it is built.  The static tables are CONSTANTS:   *)
(* the model checks the tables excerpted in CipherSuiteTables, the proofs  *)
(* hold for every table satisfying TablesAssumption.                       *)
(***************************************************************************)
EXTENDS Naturals, FiniteSets

CONSTANTS
  SslV2Mapping,       \* _SSLV2_OPENSSL_TO_RFC_NAMES_MAPPING: OpenSSL name -> RFC name
  TlsMapping,         \* _TLS_OPENSSL_TO_RFC_NAMES_MAPPING:   OpenSSL name -> RFC name
  KeySizeMapping,     \* _RFC_NAME_TO_KEY_SIZE_MAPPING:       RFC name -> key size
  Tls13CipherSuites,  \* _TLS_1_3_CIPHER_SUITES
  AnonNames,          \* the RFC names in which the substring "anon" occurs
  PskSrpNames,        \* the OpenSSL names that "-PSK:-SRP" removes from a selection
  Engines             \* the possible engine builds: the ciphers each supports per call

(* TlsVersionEnum, the protocol versions the catalog is keyed by.          *)
SSL_2_0 == "SSL_2_0"
SSL_3_0 == "SSL_3_0"
TLS_1_0 == "TLS_1_0"
TLS_1_1 == "TLS_1_1"
TLS_1_2 == "TLS_1_2"
TLS_1_3 == "TLS_1_3"
Versions == {SSL_2_0, SSL_3_0, TLS_1_0, TLS_1_1, TLS_1_2, TLS_1_3}

(* The two nassl clients: LegacySslClient (OpenSSL 1.0.2) and SslClient    *)
(* (OpenSSL 1.1.1).  A call to the engine is a (client, version) pair.      *)
Legacy == "legacy"
Modern == "modern"
EnumeratedVersions == {SSL_2_0, SSL_3_0, TLS_1_0, TLS_1_1, TLS_1_2}
EnginePairs == ({Legacy} \X EnumeratedVersions) \cup {<<Modern, TLS_1_2>>}

ASSUME TablesAssumption ==
  /\ SslV2Mapping \in [DOMAIN SslV2Mapping -> STRING]
  /\ TlsMapping \in [DOMAIN TlsMapping -> STRING]
  /\ KeySizeMapping \in [DOMAIN KeySizeMapping -> Nat]
  /\ Tls13CipherSuites \subseteq STRING
  /\ Engines \subseteq [EnginePairs -> SUBSET STRING]

(* The frozen dataclass CipherSuite.                                       *)
CipherSuite ==
  [name : STRING, openssl_name : STRING, is_anonymous : BOOLEAN, key_size : Nat]

(* _OPENSSL_TO_RFC_NAMES_MAPPING[v]: SSL 2.0 has its own table, the other  *)
(* enumerated versions share the TLS table.                                *)
RfcMapping(v) == IF v = SSL_2_0 THEN SslV2Mapping ELSE TlsMapping

(* Both dictionary lookups of the translation succeed (no KeyError).       *)
Translatable(v, n) ==
  /\ n \in DOMAIN RfcMapping(v)
  /\ RfcMapping(v)[n] \in DOMAIN KeySizeMapping

(* The CipherSuite built for OpenSSL name n found for version v.           *)
ToCipherSuite(v, n) ==
  LET rfc == RfcMapping(v)[n]
  IN  [name |-> rfc, openssl_name |-> n,
       is_anonymous |-> rfc \in AnonNames, key_size |-> KeySizeMapping[rfc]]

(* The CipherSuite built for a TLS 1.3 name: OpenSSL uses the RFC name.    *)
Tls13CipherSuite(n) ==
  [name |-> n, openssl_name |-> n, is_anonymous |-> FALSE,
   key_size |-> KeySizeMapping[n]]

(* Mutant: the "-PSK:-SRP" part of the selection string left out.      *)
CipherListUnfiltered(e, p) == e[p]

(* set_cipher_list("ALL:COMPLEMENTOFALL:-PSK:-SRP") then get_cipher_list() *)
(* on the client of pair p, for engine build e.                            *)
CipherList(e, p) == e[p] \ PskSrpNames

(* set_cipher_list raises when the selection leaves no TLS <= 1.2 cipher.  *)
NoCipherMatch(e, p) == CipherList(e, p) \ Tls13CipherSuites = {}

(* The OpenSSL names the builder translates for version v: the union of   *)
(* both clients' lists without the TLS 1.3 names for TLS 1.2, the legacy  *)
(* client's list for the others.                                           *)
NamesToTranslate(e, v) ==
  IF v = TLS_1_2
  THEN (CipherList(e, <<Legacy, TLS_1_2>>) \cup CipherList(e, <<Modern, TLS_1_2>>))
         \ Tls13CipherSuites
  ELSE CipherList(e, <<Legacy, v>>)

(* What the catalog holds for version v once it is built.                  *)
Expected(e, v) ==
  IF v = TLS_1_3
  THEN {Tls13CipherSuite(n) : n \in Tls13CipherSuites}
  ELSE {ToCipherSuite(v, n) : n \in NamesToTranslate(e, v)}

(* The build raises: an engine call fails, or a lookup misses a table.     *)
BuildFails(e, unavailable) ==
  \/ \E p \in EnginePairs : p \in unavailable \/ NoCipherMatch(e, p)
  \/ \E v \in EnumeratedVersions :
       \E n \in NamesToTranslate(e, v) : ~Translatable(v, n)
  \/ ~(Tls13CipherSuites \subseteq DOMAIN KeySizeMapping)
=============================================================================

--------------------------- MODULE MC_CipherSuites ---------------------------
(***************************************************************************)
(* Model-checking instance: the table excerpts of CipherSuiteTables and   *)
(* four engine builds, each a function from (client, version) to the      *)
(* OpenSSL names that client supports for that version.                   *)
(***************************************************************************)
EXTENDS CipherSuites, CipherSuiteTables

(* nassl's OpenSSL 1.0.2 for SSL 2.0, and for SSL 3.0 .. TLS 1.2.          *)
LegacySsl2Ciphers == {"RC4-MD5", "EXP-RC4-MD5", "DES-CBC3-MD5"}
LegacyTlsCiphers ==
  {"NULL-SHA", "EDH-DSS-DES-CBC3-SHA", "EDH-RSA-DES-CBC3-SHA", "ADH-AES128-SHA",
   "PSK-AES128-CBC-SHA"}
(* nassl's OpenSSL 1.1.1 for TLS 1.2: it lists TLS 1.3 suites too.         *)
ModernTls12Ciphers ==
  {"DHE-DSS-DES-CBC3-SHA", "DHE-RSA-DES-CBC3-SHA", "ECDHE-RSA-CHACHA20-POLY1305",
   "SRP-AES-128-CBC-SHA", "ECDHE-PSK-AES128-CBC-SHA", "RSA-PSK-NULL-SHA",
   "TLS_AES_128_GCM_SHA256", "TLS_CHACHA20_POLY1305_SHA256"}

EngineBuild(ssl2, legacyTls, modern) ==
  [p \in EnginePairs |->
     IF p[1] = Modern THEN modern
     ELSE IF p[2] = SSL_2_0 THEN ssl2 ELSE legacyTls]

(* The nassl build sslyze ships with.                                      *)
NasslEngine == EngineBuild(LegacySsl2Ciphers, LegacyTlsCiphers, ModernTls12Ciphers)
(* A newer OpenSSL with a suite the tables do not know yet.                *)
NewerEngine ==
  EngineBuild(LegacySsl2Ciphers, LegacyTlsCiphers,
              ModernTls12Ciphers \cup {"GOST2012-GOST8912-GOST8912"})
(* An OpenSSL 1.0.2 with the GOST engine loaded: COMPLEMENTOFALL selects   *)
(* its NULL suites, which the name table knows.                            *)
GostEngine ==
  EngineBuild(LegacySsl2Ciphers, LegacyTlsCiphers \cup {"GOST2001-NULL-GOST94"},
              ModernTls12Ciphers)
(* An OpenSSL 1.0.2 built with SSL 2.0 but without its ciphers.            *)
NoSsl2CiphersEngine == EngineBuild({}, LegacyTlsCiphers, ModernTls12Ciphers)

(* The key-size table with the entry of one TLS 1.3 suite missing, as when *)
(* _TLS_1_3_CIPHER_SUITES gains a suite the table has not caught up with.  *)
KeySizeWithoutCcm8 ==
  [n \in DOMAIN RFC_NAME_TO_KEY_SIZE_MAPPING \ {"TLS_AES_128_CCM_8_SHA256"} |->
     RFC_NAME_TO_KEY_SIZE_MAPPING[n]]

MCEngines == {NasslEngine, NewerEngine, GostEngine, NoSsl2CiphersEngine}
MCNasslOnly == {NasslEngine}
MCGostOnly == {GostEngine}
=============================================================================

--------------------------- MODULE CipherSuiteTables ---------------------------
(***************************************************************************)
(* Excerpts of the static tables of cipher_suites.py, entry for entry as  *)
(* written there.  The SSL 2.0 table and the TLS 1.3 list are whole; the  *)
(* TLS name table and the key-size table keep the entries of every kind   *)
(* the properties tell apart: plain, anonymous, NULL, PSK/SRP (with and   *)
(* without a key size), both suites with two OpenSSL spellings, an entry  *)
(* whose RFC name has no key size, and the RFC names of the TLS 1.3       *)
(* suites.                                                                *)
(***************************************************************************)
EXTENDS TLC

SSLV2_OPENSSL_TO_RFC_NAMES_MAPPING ==
     ("RC4-MD5" :> "SSL_CK_RC4_128_WITH_MD5")
  @@ ("EXP-RC4-MD5" :> "SSL_CK_RC4_128_EXPORT40_WITH_MD5")
  @@ ("RC2-CBC-MD5" :> "SSL_CK_RC2_128_CBC_WITH_MD5")
  @@ ("EXP-RC2-CBC-MD5" :> "SSL_CK_RC2_128_CBC_EXPORT40_WITH_MD5")
  @@ ("IDEA-CBC-MD5" :> "SSL_CK_IDEA_128_CBC_WITH_MD5")
  @@ ("DES-CBC-MD5" :> "SSL_CK_DES_64_CBC_WITH_MD5")
  @@ ("DES-CBC3-MD5" :> "SSL_CK_DES_192_EDE3_CBC_WITH_MD5")
  @@ ("RC4-64-MD5" :> "SSL_CK_RC4_64_WITH_MD5")
  @@ ("NULL-MD5" :> "TLS_RSA_WITH_NULL_MD5")

(* _TLS_OPENSSL_TO_RFC_NAMES_MAPPING, lines 33-160 of the table.          *)
TlsNamesHead ==
     ("NULL-SHA" :> "TLS_RSA_WITH_NULL_SHA")
  @@ ("DES-CBC3-SHA" :> "TLS_RSA_WITH_3DES_EDE_CBC_SHA")
  @@ ("EDH-DSS-DES-CBC3-SHA" :> "TLS_DHE_DSS_WITH_3DES_EDE_CBC_SHA")
  @@ ("EDH-RSA-DES-CBC3-SHA" :> "TLS_DHE_RSA_WITH_3DES_EDE_CBC_SHA")
  @@ ("AES128-SHA" :> "TLS_RSA_WITH_AES_128_CBC_SHA")
  @@ ("ADH-AES128-SHA" :> "TLS_DH_anon_WITH_AES_128_CBC_SHA")
  @@ ("PSK-AES128-CBC-SHA" :> "TLS_PSK_WITH_AES_128_CBC_SHA")

(* The rest of the table, lines 161-310: the OpenSSL 1.1.1 spellings and   *)
(* the PSK suites whose RFC names have no key size.                        *)
TlsNamesTail ==
     ("SRP-AES-128-CBC-SHA" :> "TLS_SRP_SHA_WITH_AES_128_CBC_SHA")
  @@ ("ECDHE-RSA-CHACHA20-POLY1305" :> "TLS_ECDHE_RSA_WITH_CHACHA20_POLY1305_SHA256")
  @@ ("DHE-RSA-DES-CBC3-SHA" :> "TLS_DHE_RSA_WITH_3DES_EDE_CBC_SHA")
  @@ ("DHE-DSS-DES-CBC3-SHA" :> "TLS_DHE_DSS_WITH_3DES_EDE_CBC_SHA")
  @@ ("ECDHE-PSK-AES128-CBC-SHA" :> "TLS_ECDHE_PSK_WITH_AES_128_CBC_SHA")
  @@ ("GOST2001-NULL-GOST94" :> "TLS_GOSTR341001_WITH_NULL_GOSTR3411")
  @@ ("RSA-PSK-NULL-SHA" :> "TLS_RSA_PSK_WITH_NULL_SHA")

TLS_OPENSSL_TO_RFC_NAMES_MAPPING == TlsNamesHead @@ TlsNamesTail

(* _OPENSSL_TO_RFC_NAMES_MAPPING is RfcMapping in CipherSuiteTranslation. *)

(* _RFC_NAME_TO_KEY_SIZE_MAPPING, lines 322-440: the TLS 1.2 and older    *)
(* suites.                                                                  *)
KeySizesHead ==
     ("TLS_RSA_WITH_NULL_MD5" :> 0)
  @@ ("TLS_RSA_WITH_NULL_SHA" :> 0)
  @@ ("TLS_RSA_WITH_AES_128_CBC_SHA" :> 128)
  @@ ("TLS_DH_anon_WITH_AES_128_CBC_SHA" :> 128)
  @@ ("TLS_PSK_WITH_AES_128_CBC_SHA" :> 128)
  @@ ("TLS_SRP_SHA_WITH_AES_128_CBC_SHA" :> 128)
  @@ ("TLS_ECDHE_RSA_WITH_CHACHA20_POLY1305_SHA256" :> 256)
  @@ ("TLS_RSA_WITH_3DES_EDE_CBC_SHA" :> 168)
  @@ ("TLS_DHE_DSS_WITH_3DES_EDE_CBC_SHA" :> 168)
  @@ ("TLS_DHE_RSA_WITH_3DES_EDE_CBC_SHA" :> 168)

(* Lines 441-558: the TLS 1.3 suites and the SSL 2.0 suites.               *)
KeySizesTail ==
     ("TLS_AES_256_GCM_SHA384" :> 256)
  @@ ("TLS_CHACHA20_POLY1305_SHA256" :> 256)
  @@ ("TLS_AES_128_GCM_SHA256" :> 128)
  @@ ("TLS_AES_128_CCM_8_SHA256" :> 128)
  @@ ("TLS_AES_128_CCM_SHA256" :> 128)
  @@ ("SSL_CK_RC4_128_WITH_MD5" :> 128)
  @@ ("SSL_CK_RC4_128_EXPORT40_WITH_MD5" :> 40)
  @@ ("SSL_CK_RC2_128_CBC_WITH_MD5" :> 128)
  @@ ("SSL_CK_RC2_128_CBC_EXPORT40_WITH_MD5" :> 40)
  @@ ("SSL_CK_IDEA_128_CBC_WITH_MD5" :> 128)
  @@ ("SSL_CK_DES_64_CBC_WITH_MD5" :> 56)
  @@ ("SSL_CK_DES_192_EDE3_CBC_WITH_MD5" :> 168)
  @@ ("SSL_CK_RC4_64_WITH_MD5" :> 64)

RFC_NAME_TO_KEY_SIZE_MAPPING == KeySizesHead @@ KeySizesTail

TLS_1_3_CIPHER_SUITES ==
  {"TLS_AES_128_GCM_SHA256", "TLS_AES_128_CCM_SHA256", "TLS_AES_256_GCM_SHA384",
   "TLS_AES_128_CCM_8_SHA256", "TLS_CHACHA20_POLY1305_SHA256"}

(* The RFC names above in which "anon" occurs ("anon" in name, line 595).  *)
ANON_RFC_NAMES == {"TLS_DH_anon_WITH_AES_128_CBC_SHA"}

(* The OpenSSL names above that "ALL:COMPLEMENTOFALL:-PSK:-SRP" drops.     *)
PSK_SRP_OPENSSL_NAMES ==
  {"PSK-AES128-CBC-SHA", "SRP-AES-128-CBC-SHA", "ECDHE-PSK-AES128-CBC-SHA",
   "RSA-PSK-NULL-SHA"}
=============================================================================

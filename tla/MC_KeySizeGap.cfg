CONSTANTS
  SslV2Mapping <- SSLV2_OPENSSL_TO_RFC_NAMES_MAPPING
  TlsMapping <- TLS_OPENSSL_TO_RFC_NAMES_MAPPING
  KeySizeMapping <- RFC_NAME_TO_KEY_SIZE_MAPPING
  Tls13CipherSuites <- TLS_1_3_CIPHER_SUITES
  AnonNames <- ANON_RFC_NAMES
  PskSrpNames <- PSK_SRP_OPENSSL_NAMES
  Engines <- MCGostOnly
SPECIFICATION Spec
INVARIANT MappingErrorOnlyForUncatalogued

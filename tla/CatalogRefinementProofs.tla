------------------------ MODULE CatalogRefinementProofs ------------------------
(***************************************************************************)
(* The builder publishes the catalog only when nothing could have raised  *)
(* (CompletesOnlyIfSound), and CipherSuites implements the one-step        *)
(* repository specification CatalogRepository (AbsSpec).                   *)
(***************************************************************************)
EXTENDS CipherSuitesProofs

SoundParts ==
  /\ SoundBuilt /\ SoundLegacyCall /\ SoundTranslating /\ SoundCurrent
  /\ SoundLegacy12Call /\ SoundModernCall /\ SoundTranslating12 /\ SoundTls12
  /\ SoundTls13

(* SoundSoFar holds initially.                                             *)
LEMMA SoundInit == Init => SoundSoFar
  BY DEF Init, SoundSoFar, SoundParts, SoundBuilt, SoundLegacyCall, SoundTranslating,
         SoundCurrent, SoundLegacy12Call, SoundModernCall, SoundTranslating12,
         SoundTls12, SoundTls13

(* Every step preserves SoundSoFar: a stage is passed only when its engine *)
(* call succeeded and the names it translated all had table entries.       *)
LEMMA SoundStep ==
  TypeOK /\ CatalogInv /\ SoundSoFar /\ [Next]_vars => SoundSoFar'
  <1> SUFFICES ASSUME TypeOK, CatalogInv, SoundSoFar, [Next]_vars, pc' # "failed"
               PROVE  SoundParts'
    BY DEF SoundSoFar, SoundParts
  <1>. USE DEF TypeOK, PCs
  <1>1. pc # "failed"
    BY DEF Next, EnumerateLegacy, EnumerateTls12Legacy, EnumerateTls12Modern,
           EnumerateFailed, SkipTls13, Translate, TranslateFailed, EndTranslate,
           BuildTls13, BuildTls13Failed, Lookup, ImportFailed, vars
  <1>2. /\ SoundBuilt /\ SoundLegacyCall /\ SoundTranslating /\ SoundCurrent
        /\ SoundLegacy12Call /\ SoundModernCall /\ SoundTranslating12 /\ SoundTls12
        /\ SoundTls13
        /\ InvTranslating /\ InvTranslating12 /\ InvLegacy12 /\ InvDone
    BY <1>1 DEF SoundSoFar, SoundParts, CatalogInv
  <1>3. i \in 1..4 /\ LoopVersions[i] # TLS_1_2
    BY LoopVersionsFacts
  <1>4. CASE EnumerateLegacy
    <2>1. SoundBuilt'
      BY <1>4, <1>2, <1>3, LoopVersionsFacts DEF EnumerateLegacy, SoundBuilt, AllTranslatable, EngineFails, CurrentPair, NamesToTranslate
    <2>2. SoundLegacyCall'
      BY <1>4, <1>2, <1>3, LoopVersionsFacts DEF EnumerateLegacy, SoundLegacyCall, AllTranslatable, EngineFails, CurrentPair, NamesToTranslate
    <2>3. SoundTranslating'
      BY <1>4, <1>2, <1>3, LoopVersionsFacts DEF EnumerateLegacy, SoundTranslating, AllTranslatable, EngineFails, CurrentPair, NamesToTranslate
    <2>4. SoundCurrent'
      BY <1>4, <1>2, <1>3, LoopVersionsFacts DEF EnumerateLegacy, SoundCurrent, AllTranslatable, EngineFails, CurrentPair, NamesToTranslate
    <2>5. SoundLegacy12Call'
      BY <1>4, <1>2, <1>3, LoopVersionsFacts DEF EnumerateLegacy, SoundLegacy12Call, AllTranslatable, EngineFails, CurrentPair, NamesToTranslate
    <2>6. SoundModernCall'
      BY <1>4, <1>2, <1>3, LoopVersionsFacts DEF EnumerateLegacy, SoundModernCall, AllTranslatable, EngineFails, CurrentPair, NamesToTranslate
    <2>7. SoundTranslating12'
      BY <1>4, <1>2, <1>3, LoopVersionsFacts DEF EnumerateLegacy, SoundTranslating12, AllTranslatable, EngineFails, CurrentPair, NamesToTranslate
    <2>8. SoundTls12'
      BY <1>4, <1>2, <1>3, LoopVersionsFacts DEF EnumerateLegacy, SoundTls12, AllTranslatable, EngineFails, CurrentPair, NamesToTranslate
    <2>9. SoundTls13'
      BY <1>4, <1>2, <1>3, LoopVersionsFacts DEF EnumerateLegacy, SoundTls13, AllTranslatable, EngineFails, CurrentPair, NamesToTranslate
    <2>. QED
      BY <2>1, <2>2, <2>3, <2>4, <2>5, <2>6, <2>7, <2>8, <2>9 DEF SoundParts
  <1>5. CASE EnumerateTls12Legacy
    <2>1. SoundBuilt'
      BY <1>5, <1>2, <1>3, LoopVersionsFacts DEF EnumerateTls12Legacy, SoundBuilt, AllTranslatable, EngineFails, CurrentPair
    <2>2. SoundLegacyCall'
      BY <1>5, <1>2, <1>3, LoopVersionsFacts DEF EnumerateTls12Legacy, SoundLegacyCall, AllTranslatable, EngineFails, CurrentPair
    <2>3. SoundTranslating'
      BY <1>5, <1>2, <1>3, LoopVersionsFacts DEF EnumerateTls12Legacy, SoundTranslating, AllTranslatable, EngineFails, CurrentPair
    <2>4. SoundCurrent'
      BY <1>5, <1>2, <1>3, LoopVersionsFacts DEF EnumerateTls12Legacy, SoundCurrent, AllTranslatable, EngineFails, CurrentPair
    <2>5. SoundLegacy12Call'
      BY <1>5, <1>2, <1>3, LoopVersionsFacts DEF EnumerateTls12Legacy, SoundLegacy12Call, AllTranslatable, EngineFails, CurrentPair
    <2>6. SoundModernCall'
      BY <1>5, <1>2, <1>3, LoopVersionsFacts DEF EnumerateTls12Legacy, SoundModernCall, AllTranslatable, EngineFails, CurrentPair
    <2>7. SoundTranslating12'
      BY <1>5, <1>2, <1>3, LoopVersionsFacts DEF EnumerateTls12Legacy, SoundTranslating12, AllTranslatable, EngineFails, CurrentPair
    <2>8. SoundTls12'
      BY <1>5, <1>2, <1>3, LoopVersionsFacts DEF EnumerateTls12Legacy, SoundTls12, AllTranslatable, EngineFails, CurrentPair
    <2>9. SoundTls13'
      BY <1>5, <1>2, <1>3, LoopVersionsFacts DEF EnumerateTls12Legacy, SoundTls13, AllTranslatable, EngineFails, CurrentPair
    <2>. QED
      BY <2>1, <2>2, <2>3, <2>4, <2>5, <2>6, <2>7, <2>8, <2>9 DEF SoundParts
  <1>6. CASE EnumerateTls12Modern
    <2>1. SoundBuilt'
      BY <1>6, <1>2, <1>3, LoopVersionsFacts DEF EnumerateTls12Modern, SoundBuilt, AllTranslatable, EngineFails, CurrentPair, InvLegacy12, Tls12Names
    <2>2. SoundLegacyCall'
      BY <1>6, <1>2, <1>3, LoopVersionsFacts DEF EnumerateTls12Modern, SoundLegacyCall, AllTranslatable, EngineFails, CurrentPair, InvLegacy12, Tls12Names
    <2>3. SoundTranslating'
      BY <1>6, <1>2, <1>3, LoopVersionsFacts DEF EnumerateTls12Modern, SoundTranslating, AllTranslatable, EngineFails, CurrentPair, InvLegacy12, Tls12Names
    <2>4. SoundCurrent'
      BY <1>6, <1>2, <1>3, LoopVersionsFacts DEF EnumerateTls12Modern, SoundCurrent, AllTranslatable, EngineFails, CurrentPair, InvLegacy12, Tls12Names
    <2>5. SoundLegacy12Call'
      BY <1>6, <1>2, <1>3, LoopVersionsFacts DEF EnumerateTls12Modern, SoundLegacy12Call, AllTranslatable, EngineFails, CurrentPair, InvLegacy12, Tls12Names
    <2>6. SoundModernCall'
      BY <1>6, <1>2, <1>3, LoopVersionsFacts DEF EnumerateTls12Modern, SoundModernCall, AllTranslatable, EngineFails, CurrentPair, InvLegacy12, Tls12Names
    <2>7. SoundTranslating12'
      BY <1>6, <1>2, <1>3, LoopVersionsFacts DEF EnumerateTls12Modern, SoundTranslating12, AllTranslatable, EngineFails, CurrentPair, InvLegacy12, Tls12Names
    <2>8. SoundTls12'
      BY <1>6, <1>2, <1>3, LoopVersionsFacts DEF EnumerateTls12Modern, SoundTls12, AllTranslatable, EngineFails, CurrentPair, InvLegacy12, Tls12Names
    <2>9. SoundTls13'
      BY <1>6, <1>2, <1>3, LoopVersionsFacts DEF EnumerateTls12Modern, SoundTls13, AllTranslatable, EngineFails, CurrentPair, InvLegacy12, Tls12Names
    <2>. QED
      BY <2>1, <2>2, <2>3, <2>4, <2>5, <2>6, <2>7, <2>8, <2>9 DEF SoundParts
  <1>7. ASSUME NEW n \in names, SkipTls13(n) PROVE SoundParts'
    <2>1. SoundBuilt'
      BY <1>7, <1>2, <1>3, LoopVersionsFacts DEF SkipTls13, SoundBuilt, AllTranslatable, EngineFails
    <2>2. SoundLegacyCall'
      BY <1>7, <1>2, <1>3, LoopVersionsFacts DEF SkipTls13, SoundLegacyCall, AllTranslatable, EngineFails
    <2>3. SoundTranslating'
      BY <1>7, <1>2, <1>3, LoopVersionsFacts DEF SkipTls13, SoundTranslating, AllTranslatable, EngineFails
    <2>4. SoundCurrent'
      BY <1>7, <1>2, <1>3, LoopVersionsFacts DEF SkipTls13, SoundCurrent, AllTranslatable, EngineFails
    <2>5. SoundLegacy12Call'
      BY <1>7, <1>2, <1>3, LoopVersionsFacts DEF SkipTls13, SoundLegacy12Call, AllTranslatable, EngineFails
    <2>6. SoundModernCall'
      BY <1>7, <1>2, <1>3, LoopVersionsFacts DEF SkipTls13, SoundModernCall, AllTranslatable, EngineFails
    <2>7. SoundTranslating12'
      <3>1. (Tls12Names \ names') \ Tls13CipherSuites
              = (Tls12Names \ names) \ Tls13CipherSuites
        BY <1>7 DEF SkipTls13
      <3>. QED
        BY <1>7, <1>2, <3>1 DEF SkipTls13, SoundTranslating12, AllTranslatable, Tls12Names
    <2>8. SoundTls12'
      BY <1>7, <1>2, <1>3, LoopVersionsFacts DEF SkipTls13, SoundTls12, AllTranslatable, EngineFails
    <2>9. SoundTls13'
      BY <1>7, <1>2, <1>3, LoopVersionsFacts DEF SkipTls13, SoundTls13, AllTranslatable, EngineFails
    <2>. QED
      BY <2>1, <2>2, <2>3, <2>4, <2>5, <2>6, <2>7, <2>8, <2>9 DEF SoundParts
  <1>8. ASSUME NEW n \in names, Translate(n) PROVE SoundParts'
    <2>1. SoundBuilt'
      BY <1>8, <1>2, <1>3, LoopVersionsFacts DEF Translate, SoundBuilt, AllTranslatable, EngineFails, TranslatingVersion
    <2>2. SoundLegacyCall'
      BY <1>8, <1>2, <1>3, LoopVersionsFacts DEF Translate, SoundLegacyCall, AllTranslatable, EngineFails, TranslatingVersion
    <2>3. SoundTranslating'
      BY <1>8, <1>2, <1>3, LoopVersionsFacts DEF Translate, SoundTranslating, AllTranslatable, EngineFails, TranslatingVersion
    <2>4. SoundCurrent'
      BY <1>8, <1>2, <1>3, LoopVersionsFacts DEF Translate, SoundCurrent, AllTranslatable, EngineFails, TranslatingVersion
    <2>5. SoundLegacy12Call'
      BY <1>8, <1>2, <1>3, LoopVersionsFacts DEF Translate, SoundLegacy12Call, AllTranslatable, EngineFails, TranslatingVersion
    <2>6. SoundModernCall'
      BY <1>8, <1>2, <1>3, LoopVersionsFacts DEF Translate, SoundModernCall, AllTranslatable, EngineFails, TranslatingVersion
    <2>7. SoundTranslating12'
      <3>1. CASE pc = "translate12"
        <4>1. (Tls12Names \ names') \ Tls13CipherSuites
                \subseteq ((Tls12Names \ names) \ Tls13CipherSuites) \cup {n}
          BY <1>8 DEF Translate
        <4>2. Translatable(TLS_1_2, n)
          BY <1>8, <3>1 DEF Translate, TranslatingVersion
        <4>. QED
          BY <1>8, <1>2, <3>1, <4>1, <4>2 DEF Translate, SoundTranslating12, AllTranslatable, Tls12Names
      <3>2. CASE pc = "translate"
        BY <1>8, <3>2 DEF Translate, SoundTranslating12
      <3>. QED
        BY <1>8, <3>1, <3>2 DEF Translate
    <2>8. SoundTls12'
      BY <1>8, <1>2, <1>3, LoopVersionsFacts DEF Translate, SoundTls12, AllTranslatable, EngineFails, TranslatingVersion
    <2>9. SoundTls13'
      BY <1>8, <1>2, <1>3, LoopVersionsFacts DEF Translate, SoundTls13, AllTranslatable, EngineFails, TranslatingVersion
    <2>. QED
      BY <2>1, <2>2, <2>3, <2>4, <2>5, <2>6, <2>7, <2>8, <2>9 DEF SoundParts
  <1>9. CASE EndTranslate
    <2>1. SoundBuilt'
      BY <1>9, <1>2, <1>3, LoopVersionsFacts DEF EndTranslate, SoundBuilt, AllTranslatable, EngineFails, NamesToTranslate, Tls12Names
    <2>2. SoundLegacyCall'
      BY <1>9, <1>2, <1>3, LoopVersionsFacts DEF EndTranslate, SoundLegacyCall, AllTranslatable, EngineFails, NamesToTranslate, Tls12Names
    <2>3. SoundTranslating'
      BY <1>9, <1>2, <1>3, LoopVersionsFacts DEF EndTranslate, SoundTranslating, AllTranslatable, EngineFails, NamesToTranslate, Tls12Names
    <2>4. SoundCurrent'
      <3>1. CASE pc = "translate"
        BY <1>9, <1>2, <3>1 DEF EndTranslate, SoundTranslating, SoundCurrent
      <3>2. CASE pc = "translate12"
        BY <1>9, <1>2, <3>2 DEF EndTranslate, SoundCurrent
      <3>. QED
        BY <1>9, <3>1, <3>2 DEF EndTranslate
    <2>5. SoundLegacy12Call'
      BY <1>9, <1>2, <1>3, LoopVersionsFacts DEF EndTranslate, SoundLegacy12Call, AllTranslatable, EngineFails, NamesToTranslate, Tls12Names
    <2>6. SoundModernCall'
      BY <1>9, <1>2, <1>3, LoopVersionsFacts DEF EndTranslate, SoundModernCall, AllTranslatable, EngineFails, NamesToTranslate, Tls12Names
    <2>7. SoundTranslating12'
      BY <1>9, <1>2, <1>3, LoopVersionsFacts DEF EndTranslate, SoundTranslating12, AllTranslatable, EngineFails, NamesToTranslate, Tls12Names
    <2>8. SoundTls12'
      <3>1. CASE pc = "translate12"
        <4>1. (Tls12Names \ names) \ Tls13CipherSuites = NamesToTranslate(engine, TLS_1_2)
          BY <1>9 DEF EndTranslate, NamesToTranslate, Tls12Names
        <4>. QED
          BY <1>9, <1>2, <3>1, <4>1 DEF EndTranslate, SoundTranslating12, SoundTls12
      <3>2. CASE pc = "translate"
        BY <1>9, <1>2, <3>2 DEF EndTranslate, SoundTls12
      <3>. QED
        BY <1>9, <3>1, <3>2 DEF EndTranslate
    <2>9. SoundTls13'
      BY <1>9, <1>2, <1>3, LoopVersionsFacts DEF EndTranslate, SoundTls13, AllTranslatable, EngineFails, NamesToTranslate, Tls12Names
    <2>. QED
      BY <2>1, <2>2, <2>3, <2>4, <2>5, <2>6, <2>7, <2>8, <2>9 DEF SoundParts
  <1>10. CASE BuildTls13
    <2>1. SoundBuilt'
      <3>1. CASE i < Len(LoopVersions)
        <4>1. ~EngineFails(<<Legacy, LoopVersions[i]>>)
              /\ AllTranslatable(LoopVersions[i], NamesToTranslate(engine, LoopVersions[i]))
          BY <1>10, <1>2 DEF BuildTls13, SoundLegacyCall, SoundCurrent
        <4>2. i' = i + 1 /\ engine' = engine /\ unavailable' = unavailable
          BY <1>10, <3>1 DEF BuildTls13
        <4>. QED
          BY <4>1, <4>2, <1>2, <1>3 DEF SoundBuilt, EngineFails
      <3>2. CASE ~(i < Len(LoopVersions))
        BY <1>10, <1>2, <3>2 DEF BuildTls13, SoundBuilt, EngineFails
      <3>. QED
        BY <3>1, <3>2
    <2>2. SoundLegacyCall'
      BY <1>10, <1>2, <1>3, LoopVersionsFacts DEF BuildTls13, SoundLegacyCall, AllTranslatable, EngineFails
    <2>3. SoundTranslating'
      BY <1>10, <1>2, <1>3, LoopVersionsFacts DEF BuildTls13, SoundTranslating, AllTranslatable, EngineFails
    <2>4. SoundCurrent'
      BY <1>10, <1>2, <1>3, LoopVersionsFacts DEF BuildTls13, SoundCurrent, AllTranslatable, EngineFails
    <2>5. SoundLegacy12Call'
      BY <1>10, <1>2, <1>3, LoopVersionsFacts DEF BuildTls13, SoundLegacy12Call, AllTranslatable, EngineFails
    <2>6. SoundModernCall'
      BY <1>10, <1>2, <1>3, LoopVersionsFacts DEF BuildTls13, SoundModernCall, AllTranslatable, EngineFails
    <2>7. SoundTranslating12'
      BY <1>10, <1>2, <1>3, LoopVersionsFacts DEF BuildTls13, SoundTranslating12, AllTranslatable, EngineFails
    <2>8. SoundTls12'
      BY <1>10, <1>2, <1>3, LoopVersionsFacts DEF BuildTls13, SoundTls12, AllTranslatable, EngineFails
    <2>9. SoundTls13'
      BY <1>10, <1>2, <1>3, LoopVersionsFacts DEF BuildTls13, SoundTls13, AllTranslatable, EngineFails
    <2>. QED
      BY <2>1, <2>2, <2>3, <2>4, <2>5, <2>6, <2>7, <2>8, <2>9 DEF SoundParts
  <1>11. ASSUME NEW v \in Versions, Lookup(v) PROVE SoundParts'
    <2>1. SoundBuilt'
      BY <1>11, <1>2, <1>3, LoopVersionsFacts DEF Lookup, SoundBuilt, AllTranslatable, EngineFails
    <2>2. SoundLegacyCall'
      BY <1>11, <1>2, <1>3, LoopVersionsFacts DEF Lookup, SoundLegacyCall, AllTranslatable, EngineFails
    <2>3. SoundTranslating'
      BY <1>11, <1>2, <1>3, LoopVersionsFacts DEF Lookup, SoundTranslating, AllTranslatable, EngineFails
    <2>4. SoundCurrent'
      BY <1>11, <1>2, <1>3, LoopVersionsFacts DEF Lookup, SoundCurrent, AllTranslatable, EngineFails
    <2>5. SoundLegacy12Call'
      BY <1>11, <1>2, <1>3, LoopVersionsFacts DEF Lookup, SoundLegacy12Call, AllTranslatable, EngineFails
    <2>6. SoundModernCall'
      BY <1>11, <1>2, <1>3, LoopVersionsFacts DEF Lookup, SoundModernCall, AllTranslatable, EngineFails
    <2>7. SoundTranslating12'
      BY <1>11, <1>2, <1>3, LoopVersionsFacts DEF Lookup, SoundTranslating12, AllTranslatable, EngineFails
    <2>8. SoundTls12'
      BY <1>11, <1>2, <1>3, LoopVersionsFacts DEF Lookup, SoundTls12, AllTranslatable, EngineFails
    <2>9. SoundTls13'
      BY <1>11, <1>2, <1>3, LoopVersionsFacts DEF Lookup, SoundTls13, AllTranslatable, EngineFails
    <2>. QED
      BY <2>1, <2>2, <2>3, <2>4, <2>5, <2>6, <2>7, <2>8, <2>9 DEF SoundParts
  <1>12. CASE ImportFailed
    <2>1. SoundBuilt'
      BY <1>12, <1>2, <1>3, LoopVersionsFacts DEF ImportFailed, SoundBuilt, AllTranslatable, EngineFails, vars
    <2>2. SoundLegacyCall'
      BY <1>12, <1>2, <1>3, LoopVersionsFacts DEF ImportFailed, SoundLegacyCall, AllTranslatable, EngineFails, vars
    <2>3. SoundTranslating'
      BY <1>12, <1>2, <1>3, LoopVersionsFacts DEF ImportFailed, SoundTranslating, AllTranslatable, EngineFails, vars
    <2>4. SoundCurrent'
      BY <1>12, <1>2, <1>3, LoopVersionsFacts DEF ImportFailed, SoundCurrent, AllTranslatable, EngineFails, vars
    <2>5. SoundLegacy12Call'
      BY <1>12, <1>2, <1>3, LoopVersionsFacts DEF ImportFailed, SoundLegacy12Call, AllTranslatable, EngineFails, vars
    <2>6. SoundModernCall'
      BY <1>12, <1>2, <1>3, LoopVersionsFacts DEF ImportFailed, SoundModernCall, AllTranslatable, EngineFails, vars
    <2>7. SoundTranslating12'
      BY <1>12, <1>2, <1>3, LoopVersionsFacts DEF ImportFailed, SoundTranslating12, AllTranslatable, EngineFails, vars
    <2>8. SoundTls12'
      BY <1>12, <1>2, <1>3, LoopVersionsFacts DEF ImportFailed, SoundTls12, AllTranslatable, EngineFails, vars
    <2>9. SoundTls13'
      BY <1>12, <1>2, <1>3, LoopVersionsFacts DEF ImportFailed, SoundTls13, AllTranslatable, EngineFails, vars
    <2>. QED
      BY <2>1, <2>2, <2>3, <2>4, <2>5, <2>6, <2>7, <2>8, <2>9 DEF SoundParts
  <1>13. CASE UNCHANGED vars
    BY <1>13, <1>2 DEF vars, SoundParts, SoundBuilt, SoundLegacyCall, SoundTranslating, SoundCurrent, SoundLegacy12Call, SoundModernCall, SoundTranslating12, SoundTls12, SoundTls13, Tls12Names, AllTranslatable, EngineFails
  <1>. QED
    BY <1>4, <1>5, <1>6, <1>7, <1>8, <1>9, <1>10, <1>11, <1>12, <1>13 DEF Next, EnumerateFailed, TranslateFailed, BuildTls13Failed, Fail

(* The loop visits every enumerated version but TLS 1.2, and the engine   *)
(* calls are the legacy client's for each enumerated version and the      *)
(* modern client's for TLS 1.2.                                            *)
LEMMA VersionsCovered ==
  /\ EnumeratedVersions = {LoopVersions[j] : j \in 1..4} \cup {TLS_1_2}
  /\ EnginePairs = {<<Legacy, v>> : v \in EnumeratedVersions} \cup {<<Modern, TLS_1_2>>}
  BY DEF LoopVersions, EnumeratedVersions, EnginePairs,
         SSL_2_0, SSL_3_0, TLS_1_0, TLS_1_1, TLS_1_2

(* When the build has returned, no cause of failure exists.                *)
LEMMA SoundImplies ==
  TypeOK /\ CatalogInv /\ SoundSoFar => CompletesOnlyIfSound
  <1> SUFFICES ASSUME TypeOK, CatalogInv, SoundSoFar, pc = "done"
               PROVE  ~BuildFails(engine, unavailable)
    BY DEF CompletesOnlyIfSound
  <1>0. /\ SoundBuilt /\ SoundLegacyCall /\ SoundCurrent /\ SoundLegacy12Call
        /\ SoundModernCall /\ SoundTls12 /\ SoundTls13 /\ InvDone
    BY DEF SoundSoFar, CatalogInv
  <1>1. i = 4
    BY <1>0, LoopVersionsFacts DEF InvDone
  <1>2. ASSUME NEW v \in EnumeratedVersions
        PROVE  /\ ~EngineFails(<<Legacy, v>>)
               /\ AllTranslatable(v, NamesToTranslate(engine, v))
    <2>1. CASE v = TLS_1_2
      BY <1>0, <1>1, <2>1 DEF SoundLegacy12Call, SoundTls12
    <2>2. CASE v \in {LoopVersions[j] : j \in 1..3}
      BY <1>0, <1>1, <2>2 DEF SoundBuilt
    <2>3. CASE v = LoopVersions[4]
      BY <1>0, <1>1, <2>3 DEF SoundLegacyCall, SoundCurrent
    <2>. QED
      BY <2>1, <2>2, <2>3, VersionsCovered
  <1>3. ~EngineFails(<<Modern, TLS_1_2>>)
    BY <1>0 DEF SoundModernCall
  <1>4. \A p \in EnginePairs : ~(p \in unavailable \/ NoCipherMatch(engine, p))
    BY <1>2, <1>3, VersionsCovered DEF EngineFails
  <1>5. Tls13CipherSuites \subseteq DOMAIN KeySizeMapping
    BY <1>0 DEF SoundTls13
  <1>. QED
    BY <1>2, <1>4, <1>5 DEF BuildFails, AllTranslatable

(* SoundSoFar holds in every state of the builder.                         *)
THEOREM SoundInvariant == Spec => []SoundSoFar
  <1>1. Init => TypeOK /\ CatalogInv /\ SoundSoFar
    BY TypeInit, CatalogInvInit, SoundInit
  <1>2. TypeOK /\ CatalogInv /\ SoundSoFar /\ [Next]_vars
          => (TypeOK /\ CatalogInv /\ SoundSoFar)'
    BY TypeStep, CatalogInvStep, SoundStep
  <1>. QED
    BY <1>1, <1>2, PTL DEF Spec

(* The import completes only when no engine call could raise, every name   *)
(* the catalog needs is in both tables and every TLS 1.3 name has a key    *)
(* size (CompletesOnlyIfSound), for every table and engine build.          *)
THEOREM CompletionCorrect == Spec => []CompletesOnlyIfSound
  BY TypeCorrect, LoopInvariant, SoundInvariant, SoundImplies, PTL
-----------------------------------------------------------------------------
(* The state facts the refinement step rests on.                           *)
RefInv ==
  /\ TypeOK /\ CatalogInv /\ FailureJustified /\ CatalogMatchesEngine
  /\ CompletesOnlyIfSound

(* The repository specification is stated over the same definitions: the *)
(* instance's copies of them are the builder's.                            *)
LEMMA AbsDefinitions ==
  /\ Abs!Versions = Versions
  /\ Abs!EnginePairs = EnginePairs
  /\ Abs!NoLookup = NoLookup
  /\ \A e, u : Abs!BuildFails(e, u) = BuildFails(e, u)
  /\ \A e, v : Abs!Expected(e, v) = Expected(e, v)
  BY DEF Versions, SSL_2_0, SSL_3_0, TLS_1_0, TLS_1_1, TLS_1_2, TLS_1_3, EnginePairs, Legacy, Modern, EnumeratedVersions, BuildFails, NoCipherMatch, CipherList, NamesToTranslate, Translatable, RfcMapping, Expected, ToCipherSuite, Tls13CipherSuite, NoLookup, Abs!Versions, Abs!SSL_2_0, Abs!SSL_3_0, Abs!TLS_1_0, Abs!TLS_1_1, Abs!TLS_1_2, Abs!TLS_1_3, Abs!EnginePairs, Abs!Legacy, Abs!Modern, Abs!EnumeratedVersions, Abs!BuildFails, Abs!NoCipherMatch, Abs!CipherList, Abs!NamesToTranslate, Abs!Translatable, Abs!RfcMapping, Abs!Expected, Abs!ToCipherSuite, Abs!Tls13CipherSuite, Abs!NoLookup

(* A step of the builder that neither publishes nor aborts is a stutter of *)
(* the repository: nothing it exposes changes.                             *)
LEMMA InternalStep ==
  ASSUME TypeOK, [Next]_vars,
         pc \notin {"done", "failed"}, pc' \notin {"done", "failed"}
  PROVE  UNCHANGED Abs!vars
  BY DEF Abs!vars, Next, vars, EnumerateLegacy, EnumerateTls12Legacy, EnumerateTls12Modern,
         EnumerateFailed, SkipTls13, Translate, TranslateFailed, EndTranslate,
         BuildTls13, BuildTls13Failed, Lookup, ImportFailed, Fail

(* The builder implements the repository's promise (AbsSpec): the catalog *)
(* is published in one step, complete when nothing could raise and never  *)
(* when something did, and get_all_cipher_suites reads only that catalog.  *)
THEOREM Refinement == Spec => AbsSpec
  <1>1. Spec => []RefInv
    BY TypeCorrect, LoopInvariant, FailureCorrect, CatalogCorrect, CompletionCorrect,
       PTL DEF RefInv
  <1>2. Init => Abs!Init
    BY AbsDefinitions DEF Init, Abs!Init
  <1>3. RefInv /\ RefInv' /\ [Next]_vars => [Abs!Next]_Abs!vars
    <2> SUFFICES ASSUME RefInv, RefInv', [Next]_vars PROVE [Abs!Next]_Abs!vars
      OBVIOUS
    <2>0. TypeOK /\ TypeOK' /\ FailureJustified' /\ CatalogMatchesEngine
          /\ CatalogMatchesEngine' /\ CompletesOnlyIfSound'
      BY DEF RefInv
    <2>1. CASE pc \notin {"done", "failed"} /\ pc' \notin {"done", "failed"}
      BY <2>0, <2>1, InternalStep
    <2>2. CASE pc \notin {"done", "failed"} /\ pc' = "done"
      <3>1. BuildTls13 /\ engine' = engine /\ unavailable' = unavailable /\ lookup' = lookup
        BY <2>0, <2>2 DEF Next, vars, EnumerateLegacy, EnumerateTls12Legacy,
           EnumerateTls12Modern, EnumerateFailed, SkipTls13, Translate, TranslateFailed,
           EndTranslate, BuildTls13, BuildTls13Failed, Lookup, ImportFailed, Fail
      <3>2. ~BuildFails(engine, unavailable)
        BY <2>0, <2>2, <3>1 DEF CompletesOnlyIfSound
      <3>3. cat' = [v \in Versions |-> Expected(engine, v)]
        BY <2>0, <2>2, <3>1 DEF CatalogMatchesEngine, TypeOK
      <3>. QED
        BY <2>2, <3>1, <3>2, <3>3, AbsDefinitions DEF Abs!Next, Abs!Build
    <2>3. CASE pc \notin {"done", "failed"} /\ pc' = "failed"
      <3>1. err' \in {"EngineUnavailable", "NoCipherMatch", "MappingError"}
            /\ engine' = engine /\ unavailable' = unavailable /\ lookup' = lookup
        BY <2>0, <2>3 DEF Next, vars, EnumerateLegacy, EnumerateTls12Legacy,
           EnumerateTls12Modern, EnumerateFailed, SkipTls13, Translate, TranslateFailed,
           EndTranslate, BuildTls13, BuildTls13Failed, Lookup, ImportFailed, Fail,
           EngineError
      <3>2. BuildFails(engine, unavailable)
        <4>1. BuildFails(engine', unavailable')
          BY <2>0, <3>1 DEF TypeOK, FailureJustified, BuildFails
        <4>. QED
          BY <4>1, <3>1
      <3>. QED
        BY <2>3, <3>1, <3>2, AbsDefinitions DEF Abs!Next, Abs!Build
    <2>4. CASE pc = "done"
      <3>1. CASE \E v \in Versions : Lookup(v)
        <4>1. PICK v \in Versions : Lookup(v)
          BY <3>1
        <4>2. keys = Versions
          BY <2>0, <2>4 DEF CatalogMatchesEngine
        <4>. QED
          BY <2>4, <4>1, <4>2, AbsDefinitions DEF Lookup, Abs!Next, Abs!Lookup
      <3>2. CASE UNCHANGED vars
        BY <3>2 DEF vars, Abs!vars
      <3>. QED
        BY <2>4, <3>1, <3>2 DEF Next, EnumerateLegacy, EnumerateTls12Legacy,
           EnumerateTls12Modern, EnumerateFailed, SkipTls13, Translate, TranslateFailed,
           EndTranslate, BuildTls13, BuildTls13Failed, ImportFailed
    <2>5. CASE pc = "failed"
      BY <2>5 DEF Next, vars, Abs!vars, EnumerateLegacy, EnumerateTls12Legacy,
         EnumerateTls12Modern, EnumerateFailed, SkipTls13, Translate, TranslateFailed,
         EndTranslate, BuildTls13, BuildTls13Failed, Lookup, ImportFailed
    <2>. QED
      BY <2>1, <2>2, <2>3, <2>4, <2>5
  <1>. QED
    BY <1>1, <1>2, <1>3, PTL DEF Spec, AbsSpec, Abs!Spec
=============================================================================

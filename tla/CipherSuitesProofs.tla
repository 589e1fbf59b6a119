------------------------- MODULE CipherSuitesProofs -------------------------
(***************************************************************************)
(* Proofs about the catalog builder of CipherSuites, for every table and  *)
(* every engine build that satisfy TablesAssumption.                      *)
(***************************************************************************)
EXTENDS CipherSuites, TLAPS

(* Every call the builder makes to the engine is one of the EnginePairs.  *)
LEMMA CurrentPairType ==
  ASSUME NEW ii \in 1..Len(LoopVersions), NEW pcv
  PROVE  /\ LoopVersions[ii] \in EnumeratedVersions
         /\ (CASE pcv = "enum_legacy"   -> <<Legacy, LoopVersions[ii]>>
               [] pcv = "enum12_legacy" -> <<Legacy, TLS_1_2>>
               [] OTHER                 -> <<Modern, TLS_1_2>>) \in EnginePairs
  BY DEF LoopVersions, EnumeratedVersions, EnginePairs, Legacy, Modern,
         SSL_2_0, SSL_3_0, TLS_1_0, TLS_1_1, TLS_1_2

(* What a client lists for a call is a set of OpenSSL names.              *)
LEMMA CipherListType ==
  ASSUME NEW e \in Engines, NEW p \in EnginePairs
  PROVE  CipherList(e, p) \subseteq STRING
  BY TablesAssumption DEF CipherList

(* A name that translates yields a CipherSuite record.                     *)
LEMMA ToCipherSuiteType ==
  ASSUME NEW v \in EnumeratedVersions, NEW n \in STRING, Translatable(v, n)
  PROVE  ToCipherSuite(v, n) \in CipherSuite
  <1>1. RfcMapping(v)[n] \in STRING
    BY TablesAssumption DEF Translatable, RfcMapping
  <1>2. KeySizeMapping[RfcMapping(v)[n]] \in Nat
    BY TablesAssumption DEF Translatable
  <1>. QED
    BY <1>1, <1>2 DEF ToCipherSuite, CipherSuite

(* The hardcoded TLS 1.3 list yields CipherSuite records when every name  *)
(* has a key size.                                                         *)
LEMMA Tls13CipherSuiteType ==
  ASSUME Tls13CipherSuites \subseteq DOMAIN KeySizeMapping
  PROVE  {Tls13CipherSuite(n) : n \in Tls13CipherSuites} \subseteq CipherSuite
  <1> SUFFICES ASSUME NEW n \in Tls13CipherSuites
               PROVE  Tls13CipherSuite(n) \in CipherSuite
    OBVIOUS
  <1>1. n \in STRING /\ KeySizeMapping[n] \in Nat
    BY TablesAssumption
  <1>. QED
    BY <1>1 DEF Tls13CipherSuite, CipherSuite

-----------------------------------------------------------------------------
(* TypeOK holds initially and is preserved by every step.                 *)
LEMMA TypeInit == Init => TypeOK
  BY DEF Init, TypeOK, LoopVersions, NoLookup, PCs, Errors

LEMMA TypeStep == TypeOK /\ [Next]_vars => TypeOK'
    <2> SUFFICES ASSUME TypeOK, [Next]_vars PROVE TypeOK'
      OBVIOUS
    <2>. USE DEF TypeOK, PCs, Errors
    <2>1. CurrentPair \in EnginePairs /\ LoopVersions[i] \in EnumeratedVersions
      BY CurrentPairType DEF CurrentPair
    <2>2. TranslatingVersion \in EnumeratedVersions
      BY <2>1 DEF TranslatingVersion, EnumeratedVersions, TLS_1_2
    <2>3. CASE EnumerateLegacy
      BY <2>1, <2>3, CipherListType DEF EnumerateLegacy, Versions,
         EnumeratedVersions
    <2>4. CASE EnumerateTls12Legacy
      BY <2>1, <2>4, CipherListType DEF EnumerateTls12Legacy
    <2>5. CASE EnumerateTls12Modern
      BY <2>1, <2>5, CipherListType DEF EnumerateTls12Modern, Versions, TLS_1_2
    <2>6. CASE EnumerateFailed
      BY <2>6 DEF EnumerateFailed, Fail, EngineError
    <2>7. ASSUME NEW n \in names, SkipTls13(n) PROVE TypeOK'
      BY <2>7 DEF SkipTls13
    <2>8. ASSUME NEW n \in names, Translate(n) PROVE TypeOK'
      <3>1. ToCipherSuite(TranslatingVersion, n) \in CipherSuite
        BY <2>2, <2>8, ToCipherSuiteType DEF Translate
      <3>2. TranslatingVersion \in Versions
        BY <2>2 DEF Versions, EnumeratedVersions
      <3>. QED
        BY <2>8, <3>1, <3>2 DEF Translate
    <2>9. ASSUME NEW n \in names, TranslateFailed(n) PROVE TypeOK'
      BY <2>9 DEF TranslateFailed, Fail
    <2>10. CASE EndTranslate
      BY <2>10 DEF EndTranslate
    <2>11. CASE BuildTls13
      <3>1. {Tls13CipherSuite(n) : n \in Tls13CipherSuites} \subseteq CipherSuite
        BY <2>11, Tls13CipherSuiteType DEF BuildTls13
      <3>. QED
        BY <2>11, <3>1 DEF BuildTls13, Versions, TLS_1_3, LoopVersions
    <2>12. CASE BuildTls13Failed
      BY <2>12 DEF BuildTls13Failed, Fail
    <2>13. ASSUME NEW v \in Versions, Lookup(v) PROVE TypeOK'
      BY <2>13 DEF Lookup
    <2>14. CASE ImportFailed \/ UNCHANGED vars
      BY <2>14 DEF ImportFailed, vars
    <2>. QED
      BY <2>3, <2>4, <2>5, <2>6, <2>7, <2>8, <2>9, <2>10, <2>11, <2>12,
         <2>13, <2>14 DEF Next

(* TypeOK holds in every reachable state of the builder and repository.   *)
THEOREM TypeCorrect == Spec => []TypeOK
  BY TypeInit, TypeStep, PTL DEF Spec
-----------------------------------------------------------------------------
(* The versions of the loop are four distinct enumerated versions, none of *)
(* them TLS 1.2, and with TLS 1.2 and 1.3 they are all the versions.       *)
LEMMA LoopVersionsFacts ==
  /\ Len(LoopVersions) = 4
  /\ \A j \in 1..4 : LoopVersions[j] \in EnumeratedVersions \ {TLS_1_2}
  /\ \A j, k \in 1..4 : j # k => LoopVersions[j] # LoopVersions[k]
  /\ Versions = {LoopVersions[j] : j \in 1..4} \cup {TLS_1_2, TLS_1_3}
  /\ TLS_1_2 # TLS_1_3 /\ TLS_1_2 \in EnumeratedVersions
  /\ TLS_1_3 \notin EnumeratedVersions
  BY DEF LoopVersions, EnumeratedVersions, Versions,
         SSL_2_0, SSL_3_0, TLS_1_0, TLS_1_1, TLS_1_2, TLS_1_3

(* Translating one more name adds its record to the image.                 *)
LEMMA ImageAddOne ==
  ASSUME NEW A, NEW x, NEW F(_)
  PROVE  {F(n) : n \in A \cup {x}} = {F(n) : n \in A} \cup {F(x)}
  OBVIOUS

(* Once every name is iterated over, an entry is the expected one.         *)
LEMMA ExpectedEnumerated ==
  ASSUME NEW e, NEW v \in EnumeratedVersions
  PROVE  Expected(e, v) = {ToCipherSuite(v, n) : n \in NamesToTranslate(e, v)}
  BY LoopVersionsFacts DEF Expected

(* CatalogInv holds initially.                                             *)
LEMMA CatalogInvInit == Init => CatalogInv
  BY LoopVersionsFacts DEF Init, KeysAt, CatalogInv, InvKeys, InvBuilt, InvTranslating, InvCurrentBuilt, InvLegacy12,
         InvTranslating12, InvTls12Built, InvTls13Built, InvDone

(* The loop invariant gives the published catalog.                         *)
LEMMA CatalogInvImplies == TypeOK /\ CatalogInv => CatalogMatchesEngine
  <1> SUFFICES ASSUME TypeOK, CatalogInv, pc = "done"
               PROVE  /\ keys = Versions
                      /\ \A v \in Versions : cat[v] = Expected(engine, v)
    BY DEF CatalogMatchesEngine
  <1>0. InvKeys /\ InvBuilt /\ InvCurrentBuilt /\ InvTls12Built /\ InvTls13Built
        /\ InvDone
    BY DEF CatalogInv
  <1>1. i = 4
    BY <1>0, LoopVersionsFacts DEF InvDone
  <1>2. keys = Versions
    <2>1. {LoopVersions[j] : j \in 1..(i - 1)} \cup {LoopVersions[i]}
            = {LoopVersions[j] : j \in 1..4}
      BY <1>1
    <2>. QED
      BY <1>0, <1>1, <2>1, LoopVersionsFacts DEF InvKeys, KeysAt
  <1>3. ASSUME NEW v \in Versions PROVE cat[v] = Expected(engine, v)
    <2>1. CASE v \in {LoopVersions[j] : j \in 1..3}
      BY <1>0, <1>1, <2>1 DEF InvBuilt
    <2>2. CASE v = LoopVersions[4]
      BY <1>0, <1>1, <2>2 DEF InvCurrentBuilt
    <2>3. CASE v \in {TLS_1_2, TLS_1_3}
      BY <1>0, <1>1, <2>3 DEF InvTls12Built, InvTls13Built
    <2>. QED
      BY <2>1, <2>2, <2>3, LoopVersionsFacts
  <1>. QED
    BY <1>2, <1>3
(* Every step of the builder and the repository preserves CatalogInv.      *)
LEMMA CatalogInvStep ==
  TypeOK /\ TypeOK' /\ CatalogInv /\ [Next]_vars => CatalogInv'
  <1> SUFFICES ASSUME TypeOK, TypeOK', CatalogInv, [Next]_vars, pc' # "failed"
               PROVE  CatalogInv'
    BY DEF CatalogInv
  <1>. USE DEF TypeOK, PCs
  <1>1. pc # "failed"
    BY DEF Next, EnumerateLegacy, EnumerateTls12Legacy, EnumerateTls12Modern,
           EnumerateFailed, SkipTls13, Translate, TranslateFailed, EndTranslate,
           BuildTls13, BuildTls13Failed, Lookup, ImportFailed, vars
  <1>2. InvKeys /\ InvBuilt /\ InvTranslating /\ InvCurrentBuilt /\ InvLegacy12
        /\ InvTranslating12 /\ InvTls12Built /\ InvTls13Built /\ InvDone
    BY <1>1 DEF CatalogInv
  <1>3. CASE EnumerateLegacy
    <2>1. InvKeys'
      BY <1>3, <1>2, LoopVersionsFacts DEF EnumerateLegacy, InvKeys, KeysAt
    <2>2. InvBuilt'
      BY <1>3, <1>2, LoopVersionsFacts DEF EnumerateLegacy, InvBuilt
    <2>3. InvTranslating'
      BY <1>3, <1>2, LoopVersionsFacts DEF EnumerateLegacy, InvTranslating, NamesToTranslate, CurrentPair
    <2>4. InvCurrentBuilt'
      BY <1>3, <1>2, LoopVersionsFacts DEF EnumerateLegacy, InvCurrentBuilt
    <2>5. InvLegacy12'
      BY <1>3, <1>2, LoopVersionsFacts DEF EnumerateLegacy, InvLegacy12
    <2>6. InvTranslating12'
      BY <1>3, <1>2, LoopVersionsFacts DEF EnumerateLegacy, InvTranslating12
    <2>7. InvTls12Built'
      BY <1>3, <1>2, LoopVersionsFacts DEF EnumerateLegacy, InvTls12Built
    <2>8. InvTls13Built'
      BY <1>3, <1>2, LoopVersionsFacts DEF EnumerateLegacy, InvTls13Built, EnumeratedVersions
    <2>9. InvDone'
      BY <1>3, <1>2, LoopVersionsFacts DEF EnumerateLegacy, InvDone
    <2>. QED
      BY <2>1, <2>2, <2>3, <2>4, <2>5, <2>6, <2>7, <2>8, <2>9 DEF CatalogInv
  <1>4. CASE EnumerateTls12Legacy
    <2>1. InvKeys'
      BY <1>4, <1>2, LoopVersionsFacts DEF EnumerateTls12Legacy, InvKeys, KeysAt
    <2>2. InvBuilt'
      BY <1>4, <1>2, LoopVersionsFacts DEF EnumerateTls12Legacy, InvBuilt
    <2>3. InvTranslating'
      BY <1>4, <1>2, LoopVersionsFacts DEF EnumerateTls12Legacy, InvTranslating
    <2>4. InvCurrentBuilt'
      BY <1>4, <1>2, LoopVersionsFacts DEF EnumerateTls12Legacy, InvCurrentBuilt
    <2>5. InvLegacy12'
      BY <1>4, <1>2, LoopVersionsFacts DEF EnumerateTls12Legacy, InvLegacy12, CurrentPair
    <2>6. InvTranslating12'
      BY <1>4, <1>2, LoopVersionsFacts DEF EnumerateTls12Legacy, InvTranslating12
    <2>7. InvTls12Built'
      BY <1>4, <1>2, LoopVersionsFacts DEF EnumerateTls12Legacy, InvTls12Built
    <2>8. InvTls13Built'
      BY <1>4, <1>2, LoopVersionsFacts DEF EnumerateTls12Legacy, InvTls13Built
    <2>9. InvDone'
      BY <1>4, <1>2, LoopVersionsFacts DEF EnumerateTls12Legacy, InvDone
    <2>. QED
      BY <2>1, <2>2, <2>3, <2>4, <2>5, <2>6, <2>7, <2>8, <2>9 DEF CatalogInv
  <1>5. CASE EnumerateTls12Modern
    <2>1. InvKeys'
      BY <1>5, <1>2, LoopVersionsFacts DEF EnumerateTls12Modern, InvKeys, KeysAt
    <2>2. InvBuilt'
      BY <1>5, <1>2, LoopVersionsFacts DEF EnumerateTls12Modern, InvBuilt
    <2>3. InvTranslating'
      BY <1>5, <1>2, LoopVersionsFacts DEF EnumerateTls12Modern, InvTranslating
    <2>4. InvCurrentBuilt'
      BY <1>5, <1>2, LoopVersionsFacts DEF EnumerateTls12Modern, InvCurrentBuilt
    <2>5. InvLegacy12'
      BY <1>5, <1>2, LoopVersionsFacts DEF EnumerateTls12Modern, InvLegacy12
    <2>6. InvTranslating12'
      <3>1. names' = Tls12Names
        BY <1>5, <1>2 DEF EnumerateTls12Modern, InvLegacy12, CurrentPair, Tls12Names
      <3>2. cat'[TLS_1_2] = {}
        BY <1>5, LoopVersionsFacts DEF EnumerateTls12Modern
      <3>3. {ToCipherSuite(TLS_1_2, m) : m \in (Tls12Names \ names') \ Tls13CipherSuites} = {}
        BY <3>1
      <3>. QED
        BY <1>5, <3>1, <3>2, <3>3 DEF EnumerateTls12Modern, InvTranslating12, Tls12Names
    <2>7. InvTls12Built'
      BY <1>5, <1>2, LoopVersionsFacts DEF EnumerateTls12Modern, InvTls12Built
    <2>8. InvTls13Built'
      BY <1>5, <1>2, LoopVersionsFacts DEF EnumerateTls12Modern, InvTls13Built
    <2>9. InvDone'
      BY <1>5, <1>2, LoopVersionsFacts DEF EnumerateTls12Modern, InvDone
    <2>. QED
      BY <2>1, <2>2, <2>3, <2>4, <2>5, <2>6, <2>7, <2>8, <2>9 DEF CatalogInv
  <1>6. ASSUME NEW n \in names, SkipTls13(n) PROVE CatalogInv'
    <2>1. InvKeys'
      BY <1>6, <1>2, LoopVersionsFacts DEF SkipTls13, InvKeys, KeysAt
    <2>2. InvBuilt'
      BY <1>6, <1>2, LoopVersionsFacts DEF SkipTls13, InvBuilt
    <2>3. InvTranslating'
      BY <1>6, <1>2, LoopVersionsFacts DEF SkipTls13, InvTranslating
    <2>4. InvCurrentBuilt'
      BY <1>6, <1>2, LoopVersionsFacts DEF SkipTls13, InvCurrentBuilt
    <2>5. InvLegacy12'
      BY <1>6, <1>2, LoopVersionsFacts DEF SkipTls13, InvLegacy12
    <2>6. InvTranslating12'
      <3>1. (Tls12Names \ names') \ Tls13CipherSuites
              = (Tls12Names \ names) \ Tls13CipherSuites
        BY <1>6 DEF SkipTls13
      <3>2. names' \subseteq Tls12Names
        BY <1>6, <1>2 DEF SkipTls13, InvTranslating12
      <3>. QED
        BY <1>6, <1>2, <3>1, <3>2 DEF SkipTls13, InvTranslating12, Tls12Names
    <2>7. InvTls12Built'
      BY <1>6, <1>2, LoopVersionsFacts DEF SkipTls13, InvTls12Built
    <2>8. InvTls13Built'
      BY <1>6, <1>2, LoopVersionsFacts DEF SkipTls13, InvTls13Built
    <2>9. InvDone'
      BY <1>6, <1>2, LoopVersionsFacts DEF SkipTls13, InvDone
    <2>. QED
      BY <2>1, <2>2, <2>3, <2>4, <2>5, <2>6, <2>7, <2>8, <2>9 DEF CatalogInv
  <1>7. ASSUME NEW n \in names, Translate(n) PROVE CatalogInv'
    <2>1. CASE pc = "translate"
      <3>. DEFINE v == LoopVersions[i]
                  A == NamesToTranslate(engine, v)
      <3>1. cat' = [cat EXCEPT ![v] = cat[v] \cup {ToCipherSuite(v, n)}]
        BY <1>7, <2>1 DEF Translate, TranslatingVersion
      <3>2. A \ names' = (A \ names) \cup {n}
        BY <1>7, <1>2, <2>1 DEF Translate, InvTranslating
      <3>3. {ToCipherSuite(v, m) : m \in (A \ names) \cup {n}}
              = {ToCipherSuite(v, m) : m \in A \ names} \cup {ToCipherSuite(v, n)}
        BY ImageAddOne
      <3>0. i \in 1..4 /\ v \in Versions
        BY LoopVersionsFacts
      <3>4. InvTranslating'
        <4>1. cat'[v] = cat[v] \cup {ToCipherSuite(v, n)}
          BY <3>0, <3>1
        <4>2. cat[v] = {ToCipherSuite(v, m) : m \in A \ names}
          BY <1>2, <2>1 DEF InvTranslating
        <4>3. cat'[v] = {ToCipherSuite(v, m) : m \in A \ names'}
          BY <4>1, <4>2, <3>2, <3>3
        <4>4. names' \subseteq A
          BY <1>7, <1>2, <2>1 DEF Translate, InvTranslating
        <4>. QED
          BY <4>3, <4>4, <1>7, <2>1 DEF Translate, InvTranslating
      <3>5. InvBuilt'
        <4>1. \A j \in 1..(i - 1) : LoopVersions[j] # v /\ LoopVersions[j] \in Versions
          BY <3>0, LoopVersionsFacts
        <4>. QED
          BY <4>1, <3>1, <1>2, <1>7 DEF Translate, InvBuilt
      <3>6. InvTls12Built' /\ InvTls13Built'
        BY <1>7, <1>2, <3>1, LoopVersionsFacts DEF Translate, InvTls12Built,
           InvTls13Built, EnumeratedVersions
      <3>7. InvKeys' /\ InvCurrentBuilt' /\ InvLegacy12' /\ InvTranslating12' /\ InvDone'
        BY <1>7, <1>2, <2>1 DEF Translate, InvKeys, KeysAt, InvCurrentBuilt,
           InvLegacy12, InvTranslating12, InvDone
      <3>. QED
        BY <3>4, <3>5, <3>6, <3>7 DEF CatalogInv
    <2>2. CASE pc = "translate12"
      <3>. DEFINE F(m) == ToCipherSuite(TLS_1_2, m)
                  B == (Tls12Names \ names) \ Tls13CipherSuites
      <3>1. cat' = [cat EXCEPT ![TLS_1_2] = cat[TLS_1_2] \cup {F(n)}]
        BY <1>7, <2>2 DEF Translate, TranslatingVersion
      <3>2. (Tls12Names \ names') \ Tls13CipherSuites = B \cup {n}
        BY <1>7, <1>2, <2>2 DEF Translate, InvTranslating12
      <3>3. {F(m) : m \in B \cup {n}} = {F(m) : m \in B} \cup {F(n)}
        BY ImageAddOne
      <3>0. i \in 1..4 /\ TLS_1_2 \in Versions
        BY LoopVersionsFacts
      <3>4. InvTranslating12'
        <4>1. cat'[TLS_1_2] = cat[TLS_1_2] \cup {F(n)}
          BY <3>0, <3>1
        <4>2. cat[TLS_1_2] = {F(m) : m \in B}
          BY <1>2, <2>2 DEF InvTranslating12
        <4>3. cat'[TLS_1_2] = {F(m) : m \in (Tls12Names \ names') \ Tls13CipherSuites}
          BY <4>1, <4>2, <3>2, <3>3
        <4>4. names' \subseteq Tls12Names
          BY <1>7, <1>2, <2>2 DEF Translate, InvTranslating12
        <4>. QED
          BY <4>3, <4>4, <1>7, <2>2 DEF Translate, InvTranslating12, Tls12Names
      <3>5. InvBuilt' /\ InvCurrentBuilt' /\ InvTls13Built'
        <4>1. \A j \in 1..4 : LoopVersions[j] # TLS_1_2 /\ LoopVersions[j] \in Versions
          BY LoopVersionsFacts
        <4>2. TLS_1_3 # TLS_1_2 /\ TLS_1_3 \in Versions
          BY LoopVersionsFacts
        <4>3. InvBuilt'
          BY <4>1, <3>0, <3>1, <1>2, <1>7 DEF Translate, InvBuilt
        <4>4. InvCurrentBuilt'
          BY <4>1, <3>0, <3>1, <1>2, <1>7 DEF Translate, InvCurrentBuilt
        <4>5. InvTls13Built'
          BY <4>2, <3>1, <1>2, <1>7 DEF Translate, InvTls13Built
        <4>. QED
          BY <4>3, <4>4, <4>5
      <3>6. InvKeys' /\ InvTranslating' /\ InvLegacy12' /\ InvTls12Built' /\ InvDone'
        BY <1>7, <1>2, <2>2 DEF Translate, InvKeys, KeysAt, InvTranslating,
           InvLegacy12, InvTls12Built, InvDone
      <3>. QED
        BY <3>4, <3>5, <3>6 DEF CatalogInv
    <2>. QED
      BY <1>7, <2>1, <2>2 DEF Translate
  <1>8. ASSUME NEW n \in names, TranslateFailed(n) PROVE CatalogInv'
    BY <1>8 DEF TranslateFailed, Fail
  <1>9. CASE EnumerateFailed \/ BuildTls13Failed
    BY <1>9 DEF EnumerateFailed, BuildTls13Failed, Fail
  <1>10. CASE EndTranslate
    <2>1. InvKeys'
      BY <1>10, <1>2, LoopVersionsFacts DEF EndTranslate, InvKeys, KeysAt
    <2>2. InvBuilt'
      BY <1>10, <1>2, LoopVersionsFacts DEF EndTranslate, InvBuilt
    <2>3. InvTranslating'
      BY <1>10, <1>2, LoopVersionsFacts DEF EndTranslate, InvTranslating
    <2>4. InvCurrentBuilt'
      <3>1. CASE pc = "translate"
        <4>. DEFINE A == NamesToTranslate(engine, LoopVersions[i])
        <4>1. LoopVersions[i] \in EnumeratedVersions
          BY LoopVersionsFacts
        <4>2. Expected(engine, LoopVersions[i]) = {ToCipherSuite(LoopVersions[i], m) : m \in A}
          BY <4>1, ExpectedEnumerated
        <4>3. A \ names = A
          BY <1>10 DEF EndTranslate
        <4>4. cat[LoopVersions[i]] = Expected(engine, LoopVersions[i])
          BY <1>2, <3>1, <4>2, <4>3 DEF InvTranslating
        <4>. QED
          BY <1>10, <4>4 DEF EndTranslate, InvCurrentBuilt
      <3>2. CASE pc = "translate12"
        BY <1>10, <1>2, <3>2 DEF EndTranslate, InvCurrentBuilt
      <3>. QED
        BY <1>10, <3>1, <3>2 DEF EndTranslate
    <2>5. InvLegacy12'
      BY <1>10, <1>2, LoopVersionsFacts DEF EndTranslate, InvLegacy12
    <2>6. InvTranslating12'
      BY <1>10, <1>2, LoopVersionsFacts DEF EndTranslate, InvTranslating12
    <2>7. InvTls12Built'
      <3>1. CASE pc = "translate12"
        <4>1. Expected(engine, TLS_1_2)
                = {ToCipherSuite(TLS_1_2, m) : m \in Tls12Names \ Tls13CipherSuites}
          <5>1. NamesToTranslate(engine, TLS_1_2) = Tls12Names \ Tls13CipherSuites
            BY DEF NamesToTranslate, Tls12Names
          <5>. QED
            BY <5>1, ExpectedEnumerated, LoopVersionsFacts
        <4>2. (Tls12Names \ names) \ Tls13CipherSuites = Tls12Names \ Tls13CipherSuites
          BY <1>10 DEF EndTranslate
        <4>3. cat[TLS_1_2] = Expected(engine, TLS_1_2)
          BY <1>2, <3>1, <4>1, <4>2 DEF InvTranslating12
        <4>. QED
          BY <1>10, <4>3 DEF EndTranslate, InvTls12Built
      <3>2. CASE pc = "translate"
        BY <1>10, <1>2, <3>2 DEF EndTranslate, InvTls12Built
      <3>. QED
        BY <1>10, <3>1, <3>2 DEF EndTranslate
    <2>8. InvTls13Built'
      BY <1>10, <1>2, LoopVersionsFacts DEF EndTranslate, InvTls13Built
    <2>9. InvDone'
      BY <1>10, <1>2, LoopVersionsFacts DEF EndTranslate, InvDone
    <2>. QED
      BY <2>1, <2>2, <2>3, <2>4, <2>5, <2>6, <2>7, <2>8, <2>9 DEF CatalogInv
  <1>11. CASE BuildTls13
    <2>1. cat'[TLS_1_3] = Expected(engine, TLS_1_3)
      BY <1>11 DEF BuildTls13, Expected
    <2>2. InvKeys'
      <3>1. CASE i < 4
        <4>1. {LoopVersions[j] : j \in 1..(i + 1 - 1)}
                = {LoopVersions[j] : j \in 1..(i - 1)} \cup {LoopVersions[i]}
          OBVIOUS
        <4>. QED
          BY <1>11, <1>2, <3>1, <4>1, LoopVersionsFacts DEF BuildTls13, InvKeys, KeysAt
      <3>2. CASE ~(i < 4)
        BY <1>11, <1>2, <3>2, LoopVersionsFacts DEF BuildTls13, InvKeys, KeysAt
      <3>. QED
        BY <3>1, <3>2
    <2>3. InvBuilt'
      BY <1>11, <1>2, LoopVersionsFacts DEF BuildTls13, InvBuilt, InvCurrentBuilt
    <2>4. InvCurrentBuilt'
      BY <1>11, <1>2, LoopVersionsFacts DEF BuildTls13, InvCurrentBuilt
    <2>5. InvTls12Built' /\ InvTls13Built'
      BY <1>11, <1>2, <2>1, LoopVersionsFacts DEF BuildTls13, InvTls12Built,
         InvTls13Built
    <2>6. InvTranslating' /\ InvLegacy12' /\ InvTranslating12' /\ InvDone'
      BY <1>11, LoopVersionsFacts DEF BuildTls13, InvTranslating, InvLegacy12,
         InvTranslating12, InvDone
    <2>. QED
      BY <2>2, <2>3, <2>4, <2>5, <2>6 DEF CatalogInv
  <1>12. ASSUME NEW v \in Versions, Lookup(v) PROVE CatalogInv'
    <2>1. InvKeys'
      BY <1>12, <1>2, LoopVersionsFacts DEF Lookup, InvKeys, KeysAt
    <2>2. InvBuilt'
      BY <1>12, <1>2, LoopVersionsFacts DEF Lookup, InvBuilt
    <2>3. InvTranslating'
      BY <1>12, <1>2, LoopVersionsFacts DEF Lookup, InvTranslating
    <2>4. InvCurrentBuilt'
      BY <1>12, <1>2, LoopVersionsFacts DEF Lookup, InvCurrentBuilt
    <2>5. InvLegacy12'
      BY <1>12, <1>2, LoopVersionsFacts DEF Lookup, InvLegacy12
    <2>6. InvTranslating12'
      BY <1>12, <1>2, LoopVersionsFacts DEF Lookup, InvTranslating12
    <2>7. InvTls12Built'
      BY <1>12, <1>2, LoopVersionsFacts DEF Lookup, InvTls12Built
    <2>8. InvTls13Built'
      BY <1>12, <1>2, LoopVersionsFacts DEF Lookup, InvTls13Built
    <2>9. InvDone'
      BY <1>12, <1>2, LoopVersionsFacts DEF Lookup, InvDone
    <2>. QED
      BY <2>1, <2>2, <2>3, <2>4, <2>5, <2>6, <2>7, <2>8, <2>9 DEF CatalogInv
  <1>13. CASE ImportFailed \/ UNCHANGED vars
    <2>1. InvKeys'
      BY <1>13, <1>2, LoopVersionsFacts DEF ImportFailed, vars, InvKeys, KeysAt
    <2>2. InvBuilt'
      BY <1>13, <1>2, LoopVersionsFacts DEF ImportFailed, vars, InvBuilt
    <2>3. InvTranslating'
      BY <1>13, <1>2, LoopVersionsFacts DEF ImportFailed, vars, InvTranslating
    <2>4. InvCurrentBuilt'
      BY <1>13, <1>2, LoopVersionsFacts DEF ImportFailed, vars, InvCurrentBuilt
    <2>5. InvLegacy12'
      BY <1>13, <1>2, LoopVersionsFacts DEF ImportFailed, vars, InvLegacy12
    <2>6. InvTranslating12'
      BY <1>13, <1>2, LoopVersionsFacts DEF ImportFailed, vars, InvTranslating12, Tls12Names
    <2>7. InvTls12Built'
      BY <1>13, <1>2, LoopVersionsFacts DEF ImportFailed, vars, InvTls12Built
    <2>8. InvTls13Built'
      BY <1>13, <1>2, LoopVersionsFacts DEF ImportFailed, vars, InvTls13Built
    <2>9. InvDone'
      BY <1>13, <1>2, LoopVersionsFacts DEF ImportFailed, vars, InvDone
    <2>. QED
      BY <2>1, <2>2, <2>3, <2>4, <2>5, <2>6, <2>7, <2>8, <2>9 DEF CatalogInv
  <1>. QED
    BY <1>3, <1>4, <1>5, <1>6, <1>7, <1>8, <1>9, <1>10, <1>11, <1>12,
       <1>13 DEF Next

(* Once the module is imported, every version's entry is exactly the       *)
(* translation of what the engine build supports (CatalogMatchesEngine),  *)
(* for every table and engine build satisfying TablesAssumption.          *)
THEOREM CatalogCorrect == Spec => []CatalogMatchesEngine
  <1>1. Init => TypeOK /\ CatalogInv
    BY TypeInit, CatalogInvInit
  <1>2. TypeOK /\ CatalogInv /\ [Next]_vars => (TypeOK /\ CatalogInv)'
    BY TypeStep, CatalogInvStep
  <1>3. TypeOK /\ CatalogInv => CatalogMatchesEngine
    BY CatalogInvImplies
  <1>. QED
    BY <1>1, <1>2, <1>3, PTL DEF Spec
(* The builder's loop invariant CatalogInv holds in every state: at each  *)
(* stage the entries already built are the expected ones and the entry     *)
(* being filled is the translation of the names already iterated over.     *)
THEOREM LoopInvariant == Spec => []CatalogInv
  <1>1. Init => TypeOK /\ CatalogInv
    BY TypeInit, CatalogInvInit
  <1>2. TypeOK /\ CatalogInv /\ [Next]_vars => (TypeOK /\ CatalogInv)'
    BY TypeStep, CatalogInvStep
  <1>. QED
    BY <1>1, <1>2, PTL DEF Spec

-----------------------------------------------------------------------------
(* FailureJustified: the exception that aborts the build always has a      *)
(* cause of its kind.  It is not inductive alone: a KeyError raised in the  *)
(* translation loops is justified only because the name being translated   *)
(* is one of the names the catalog must translate, which CatalogInv says.  *)
LEMMA FailureInit == Init => FailureJustified
  BY DEF Init, FailureJustified

LEMMA FailureStep ==
  TypeOK /\ CatalogInv /\ FailureJustified /\ [Next]_vars => FailureJustified'
  <1> SUFFICES ASSUME TypeOK, CatalogInv, FailureJustified, [Next]_vars
               PROVE  FailureJustified'
    OBVIOUS
  <1>. USE DEF TypeOK, PCs
  <1>1. CASE err' = err /\ engine' = engine /\ unavailable' = unavailable
    BY <1>1 DEF FailureJustified
  <1>2. CASE EnumerateFailed
    <2>1. CurrentPair \in EnginePairs
      BY CurrentPairType DEF CurrentPair
    <2>2. CASE CurrentPair \in unavailable
      BY <1>2, <2>2 DEF EnumerateFailed, Fail, EngineError, FailureJustified
    <2>3. CASE CurrentPair \notin unavailable
      <3>1. NoCipherMatch(engine, CurrentPair)
        BY <1>2, <2>3 DEF EnumerateFailed, EngineFails
      <3>. QED
        BY <1>2, <2>1, <2>3, <3>1 DEF EnumerateFailed, Fail, EngineError, FailureJustified
    <2>. QED
      BY <2>2, <2>3
  <1>3. ASSUME NEW n \in names, TranslateFailed(n) PROVE FailureJustified'
    <2>1. pc \in {"translate", "translate12"} /\ ~Translatable(TranslatingVersion, n)
      BY <1>3 DEF TranslateFailed
    <2>2. InvTranslating /\ InvTranslating12
      BY <2>1 DEF CatalogInv
    <2>3. \E v \in EnumeratedVersions :
            \E m \in NamesToTranslate(engine, v) : ~Translatable(v, m)
      <3>1. CASE pc = "translate"
        <4>1. LoopVersions[i] \in EnumeratedVersions
          BY LoopVersionsFacts
        <4>2. n \in NamesToTranslate(engine, LoopVersions[i])
          BY <2>2, <3>1 DEF InvTranslating
        <4>. QED
          BY <2>1, <3>1, <4>1, <4>2 DEF TranslatingVersion
      <3>2. CASE pc = "translate12"
        <4>1. n \in NamesToTranslate(engine, TLS_1_2)
          <5>1. n \in Tls12Names /\ n \notin Tls13CipherSuites
            BY <1>3, <2>2, <3>2 DEF TranslateFailed, InvTranslating12
          <5>. QED
            BY <5>1 DEF NamesToTranslate, Tls12Names
        <4>. QED
          BY <2>1, <3>2, <4>1, LoopVersionsFacts DEF TranslatingVersion
      <3>. QED
        BY <2>1, <3>1, <3>2
    <2>. QED
      BY <1>3, <2>3 DEF TranslateFailed, Fail, FailureJustified
  <1>4. CASE BuildTls13Failed
    BY <1>4 DEF BuildTls13Failed, Fail, FailureJustified
  <1>5. CASE \/ EnumerateLegacy \/ EnumerateTls12Legacy \/ EnumerateTls12Modern
             \/ \E m \in names : SkipTls13(m) \/ Translate(m)
             \/ EndTranslate \/ BuildTls13 \/ \E v \in Versions : Lookup(v)
             \/ ImportFailed \/ UNCHANGED vars
    <2>. err' = err /\ engine' = engine /\ unavailable' = unavailable
      BY <1>5 DEF EnumerateLegacy, EnumerateTls12Legacy, EnumerateTls12Modern,
         SkipTls13, Translate, EndTranslate, BuildTls13, Lookup, ImportFailed, vars
    <2>. QED
      BY <1>1
  <1>. QED
    BY <1>2, <1>3, <1>4, <1>5 DEF Next

(* Every exception that aborts the import has a cause of its kind          *)
(* (FailureJustified): an unconstructible client, an empty selection, or a *)
(* name among those translated that a table lacks.                         *)
THEOREM FailureCorrect == Spec => []FailureJustified
  <1>1. Init => TypeOK /\ CatalogInv /\ FailureJustified
    BY TypeInit, CatalogInvInit, FailureInit
  <1>2. TypeOK /\ CatalogInv /\ FailureJustified /\ [Next]_vars
          => (TypeOK /\ CatalogInv /\ FailureJustified)'
    BY TypeStep, CatalogInvStep, FailureStep
  <1>. QED
    BY <1>1, <1>2, PTL DEF Spec
-----------------------------------------------------------------------------
(* EntriesFromEngine: every entry holds only suites of names the catalog  *)
(* translates for its version.                                             *)
LEMMA EntriesInit == Init => EntriesFromEngine
  BY DEF Init, EntriesFromEngine

LEMMA EntriesStep ==
  TypeOK /\ CatalogInv /\ EntriesFromEngine /\ [Next]_vars => EntriesFromEngine'
  <1> SUFFICES ASSUME TypeOK, CatalogInv, EntriesFromEngine, [Next]_vars
               PROVE  EntriesFromEngine'
    OBVIOUS
  <1>. USE DEF TypeOK, PCs
  <1>1. CASE cat' = cat /\ engine' = engine
    BY <1>1 DEF EntriesFromEngine
  <1>2. CASE EnumerateLegacy
    BY <1>2, LoopVersionsFacts DEF EnumerateLegacy, EntriesFromEngine
  <1>3. CASE EnumerateTls12Modern
    BY <1>3, LoopVersionsFacts DEF EnumerateTls12Modern, EntriesFromEngine
  <1>4. ASSUME NEW n \in names, Translate(n) PROVE EntriesFromEngine'
    <2>. DEFINE v == TranslatingVersion
    <2>1. pc \in {"translate", "translate12"} /\ pc # "failed"
      BY <1>4 DEF Translate
    <2>2. v \in Versions \ {TLS_1_3} /\ n \in NamesToTranslate(engine, v)
      <3>1. InvTranslating /\ InvTranslating12
        BY <2>1 DEF CatalogInv
      <3>2. CASE pc = "translate"
        BY <1>4, <3>1, <3>2, LoopVersionsFacts DEF TranslatingVersion, InvTranslating
      <3>3. CASE pc = "translate12"
        <4>1. n \in Tls12Names /\ n \notin Tls13CipherSuites
          BY <1>4, <3>1, <3>3 DEF Translate, InvTranslating12
        <4>. QED
          BY <3>3, <4>1, LoopVersionsFacts DEF TranslatingVersion, NamesToTranslate, Tls12Names
      <3>. QED
        BY <2>1, <3>2, <3>3
    <2>3. ToCipherSuite(v, n).openssl_name = n
      BY DEF ToCipherSuite
    <2>4. cat' = [cat EXCEPT ![v] = @ \cup {ToCipherSuite(v, n)}] /\ engine' = engine
      BY <1>4 DEF Translate
    <2>. QED
      BY <2>2, <2>3, <2>4 DEF EntriesFromEngine
  <1>5. CASE BuildTls13
    <2>1. \A n \in Tls13CipherSuites : Tls13CipherSuite(n).openssl_name = n
      BY DEF Tls13CipherSuite
    <2>. QED
      BY <1>5, <2>1, LoopVersionsFacts DEF BuildTls13, EntriesFromEngine
  <1>. QED
    BY <1>1, <1>2, <1>3, <1>4, <1>5 DEF Next, vars, EnumerateTls12Legacy, EnumerateFailed,
       SkipTls13, TranslateFailed, EndTranslate, BuildTls13Failed, Fail, Lookup, ImportFailed

(* The catalog never holds a PSK or SRP suite (NoPskSrpSuites), as the    *)
(* comment on the "-PSK:-SRP" selection promises, for every table and      *)
(* engine build whose hardcoded TLS 1.3 list names no PSK or SRP suite:    *)
(* the filter applies to every version but TLS 1.3.                        *)
THEOREM PskSrpExcluded ==
  ASSUME Tls13CipherSuites \cap PskSrpNames = {}
  PROVE  Spec => []NoPskSrpSuites
  <1>1. Init => TypeOK /\ CatalogInv /\ EntriesFromEngine
    BY TypeInit, CatalogInvInit, EntriesInit
  <1>2. TypeOK /\ CatalogInv /\ EntriesFromEngine /\ [Next]_vars
          => (TypeOK /\ CatalogInv /\ EntriesFromEngine)'
    BY TypeStep, CatalogInvStep, EntriesStep
  <1>3. EntriesFromEngine => NoPskSrpSuites
    BY DEF EntriesFromEngine, NoPskSrpSuites, NamesToTranslate, CipherList
  <1>. QED
    BY <1>1, <1>2, <1>3, PTL DEF Spec
=============================================================================

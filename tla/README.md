# Verification of sslyze's cipher-suite catalog

The modelled code is `src/sslyze/plugins/openssl_cipher_suites/cipher_suites.py`.

## The system

The file builds, once at import, the catalog of cipher suites that sslyze
knows for each protocol version. It has four parts that interact:

| Part | Lines | What it does |
|---|---|---|
| **Tables** | 21-568 | Three static dictionaries and a list: OpenSSL name → RFC name (one table for SSL 2.0, one for TLS), RFC name → key size, and the TLS 1.3 names. |
| **Engine enumeration** | 571-575, 603-605 | Asks nassl's two OpenSSL builds (legacy 1.0.2 and modern 1.1.1) which ciphers match `ALL:COMPLEMENTOFALL:-PSK:-SRP` for a version. Constructing a client can raise (protocol not in the build), and so can `set_cipher_list` (nothing matches). |
| **Builder** | 578-637, `_parse_all_cipher_suites` | Loops over SSL 2.0 .. TLS 1.1. For each version it resets the entry, lists the legacy client's names, and translates each name into a `CipherSuite` (two dictionary lookups, each a possible `KeyError`). Because of the source's indentation, the TLS 1.2 block runs *inside* that loop. It unites the legacy and modern lists, skips the TLS 1.3 names and translates the rest. The TLS 1.3 entry is rebuilt from the hardcoded list, also inside the loop. So TLS 1.2 and TLS 1.3 are reset and rebuilt four times. |
| **Repository** | 640-647, `CipherSuitesRepository` | Stores the builder's result in a class attribute while the class body runs, so any exception aborts the import of the module. `get_all_cipher_suites(v)` returns the stored set itself. |

## Modules

| Module | Models |
|---|---|
| `CipherSuiteTranslation` | The pure part: `CipherSuite` (record set), the versions (`TlsVersionEnum`, modelled from the spec because it is not under src), `RfcMapping`, `Translatable`/`ToCipherSuite` (the two lookups of l.590-598), `CipherList` (an engine call with the PSK/SRP filter), `NoCipherMatch`, `NamesToTranslate` and `Expected` (what the catalog must hold), `BuildFails`. The tables and the engine builds are CONSTANTS. `ASSUME TablesAssumption` gives them their types, and nothing else: proofs hold for any table. |
| `CatalogRepository` | The abstract promise: the catalog is built in one step, either complete (`Expected` for every version) or failed, and lookups read only a built catalog. |
| `CipherSuites` | The builder and repository step by step. `pc` follows the source's control flow (`enum_legacy`, `translate`, `enum12_legacy`, `enum12_modern`, `translate12`, `build13`, `done`, `failed`). Other variables: `i` is the loop index, `names` is the set still to iterate, `legacy12` is the legacy client's TLS 1.2 list, `cat`/`keys` are the dict, `err` is the exception. Each engine call, each translated name, the end of each `for`, and the TLS 1.3 block are one action each, with the raising alternative of each as its own action. Python set iteration order is arbitrary, so the next name is picked with `\E`. `Lookup(v)` is `get_all_cipher_suites`. |
| `CipherSuiteTables` | Excerpts of the real tables, entry for entry, for TLC. They keep every kind of entry the properties tell apart: plain, anonymous, NULL, PSK/SRP, two OpenSSL spellings of one suite, a catalogued suite without key size, and the TLS 1.3 names. |
| `MC_CipherSuites` | Four engine builds: the shipped nassl, a newer OpenSSL with a suite unknown to the tables, a GOST-enabled OpenSSL, and an SSL 2.0 build without SSL 2.0 ciphers. |
| `CipherSuitesProofs` | TLAPS proofs of type correctness, the loop invariant, the catalog, failure causes and the PSK/SRP exclusion. |
| `CatalogRefinementProofs` | TLAPS proofs that the import completes only when sound, and that `CipherSuites` refines `CatalogRepository`. |

The engine is external (nassl), so it is modelled by what it can return. It is
fixed for a run. The `unavailable` set of calls whose constructor raises is
chosen at Init over every subset of the six calls.

## Runs

| Run | Result | What it checks |
|---|---|---|
| `catalog` (MC_CipherSuites.cfg) | pass: 25633 distinct states, all 4 engines × 64 `unavailable` subsets | Seven properties, listed below. |
| `tls13_keysize` (MC_Tls13KeySize.cfg) | pass: 21896 distinct states | `CompletesOnlyIfSound` with a key-size table that lacks one TLS 1.3 entry (`TLS_AES_128_CCM_8_SHA256`). Every path that reaches the TLS 1.3 comprehension (l.626-634) raises there, so the check says the import never publishes a catalog, for any engine build. Its mutant skips the names without a key size and publishes a TLS 1.3 entry without that suite. |
| `canonical_unique` (MC_CanonicalUnique.cfg) | violation | `CanonicalNamesUnique`, the spec's claim that an RFC name occurs once per version of the published catalog. With the shipped nassl, the legacy client lists `EDH-DSS-DES-CBC3-SHA` and the modern one lists `DHE-DSS-DES-CBC3-SHA`. Both map to `TLS_DHE_DSS_WITH_3DES_EDE_CBC_SHA`. The same happens for `EDH-RSA-`/`DHE-RSA-DES-CBC3-SHA` (l.55/224). The records differ in `openssl_name`, so the set keeps both. |
| `keysize_gap` (MC_KeySizeGap.cfg) | violation | `MappingErrorOnlyForUncatalogued`, the spec's claim that the key-size table covers every RFC name the name tables produce. `GOST2001-NULL-GOST94` is in the TLS table (l.280), but its RFC name has no key size, so the import raises `KeyError` at l.596. In the whole table, 63 entries have no key size: TLS_FALLBACK_SCSV (l.159), the two GOST NULL suites and 60 of the 68 PSK suites (l.242-309). The PSK entries are harmless only because the `-PSK` filter removes them. |

The `catalog` run checks these properties:
- `CatalogMatchesEngine`: after import, every version's entry equals `Expected` for the engine. It covers the union of the two clients, the TLS 1.3 skip, and the four resets and rebuilds.
- `FailureJustified`: every abort has a cause of its kind.
- `CatalogInv`: the loop invariant.
- `CompletesOnlyIfSound`: the import completes only if every engine call succeeds, every needed name is in both tables, and every TLS 1.3 name has a key size. So no error path is skipped.
- `NoPskSrpSuites`: no entry holds a PSK or SRP suite. This is the comment at l.572, and the excerpted tables include PSK entries without a key size.
- `TypeOK`.
- `AbsSpec`: `CipherSuites` implements `CatalogRepository` under the mapping status ← `pc` (done/failed/other) and repo ← `cat` once done. A lookup never sees a catalog that is still being built.

Every property of `catalog` has a mutant in PROJECT.json that TLC catches:
- the engine errors conflated;
- the legacy TLS 1.2 list dropped;
- the loop index run past the end;
- lookups not guarded;
- a translated name not consumed;
- a failed translation skipped instead of raised (`CompletesOnlyIfSound`);
- the `-PSK:-SRP` filter left out (`NoPskSrpSuites`).

**Bounds.** Instance sizes are about the data, not iteration counts:
- the loop always has 4 versions;
- each list has 3-6 names;
- the instance reaches every action and every `unavailable` subset. Every raising path is reached in `catalog`, except the TLS 1.3 `KeyError`, which `tls13_keysize` reaches.

Names in a list are translated one per step in every order, so the instance
also covers every interleaving of the rebuilds.

**No liveness property.** The builder is two nested Python `for` loops over
a four-element list and finite sets, so it ends whatever else the code does.
A termination property would say nothing about this code. `Spec` therefore
has no fairness conjunct.

## Proved (TLAPS)

Every theorem holds for every table and engine build that satisfies `TablesAssumption`.

In `CipherSuitesProofs`:
- `TypeCorrect`: `Spec => []TypeOK`.
- `LoopInvariant`: `Spec => []CatalogInv`.
- `CatalogCorrect`: `Spec => []CatalogMatchesEngine`.
- `FailureCorrect`: `Spec => []FailureJustified`.
- `PskSrpExcluded`: `Spec => []NoPskSrpSuites`. It assumes the hardcoded TLS 1.3 list names no PSK/SRP suite, because the filter does not apply to it. The strengthening is `EntriesFromEngine`: every entry's OpenSSL name comes from the filtered engine lists or from the TLS 1.3 list.

In `CatalogRefinementProofs`:
- `CompletionCorrect`: `Spec => []CompletesOnlyIfSound`.
- `Refinement`: `Spec => AbsSpec`.

**Why the catalog proof needs a strengthening.** `CatalogMatchesEngine` is not
inductive: it speaks only of `pc = "done"`. The strengthening `CatalogInv`
describes each stage of the loop:
- which keys exist (`InvKeys`);
- the versions already done equal `Expected` (`InvBuilt`, `InvCurrentBuilt`, `InvTls12Built`, `InvTls13Built`);
- the entry being filled is the image of the names already consumed (`InvTranslating`, `InvTranslating12`);
- `legacy12` holds the legacy list while the modern call is pending (`InvLegacy12`).

Its key step is `ImageAddOne`: translating one more name adds its image to the
set. `TypeOK /\ CatalogInv` is inductive, and `FailureJustified` is proved
with it as strengthening: a `KeyError` is justified only because the name
being translated is one that must be translated, which `InvTranslating` gives.

**Completion.** `CompletesOnlyIfSound` is not inductive either. `SoundSoFar`
says, per stage, that as long as the import has not failed, every engine call
made so far succeeded and every name consumed so far was translatable. Its
parts (`SoundBuilt` ... `SoundTls13`) follow the stages of `CatalogInv`.
`VersionsCovered` shows that the four loop versions plus TLS 1.2 cover every
engine call of `BuildFails`.

**Refinement.** The mapping sends `pc` to the abstract status, and `cat` to
the abstract repository once `pc = "done"`. It is proved under `RefInv`
(`TypeOK`, `CatalogInv`, `FailureJustified`, `CatalogMatchesEngine`,
`CompletesOnlyIfSound`). The steps map as follows:
- internal steps are stutters;
- the last TLS 1.3 step is `Build`, with `Expected` by `CatalogMatchesEngine'` and no failure by `CompletesOnlyIfSound'`;
- a raising step is a failed `Build`, with its cause from `FailureJustified'`;
- `Lookup` maps to `Lookup`.

`AbsDefinitions` shows that the instantiated copies of the shared definitions equal the originals.

**Only model-checked:**
- the two violations.

## Not modelled

- The bodies of nassl and OpenSSL: only what they return or raise is modelled.
- String formatting: the `"anon" in name` test is modelled as membership in `AnonNames`.
- Aliasing of the returned set (l.648): no caller is under src.

## Plan for later work

1. Prove `CanonicalNamesUnique` for single-client versions (SSL 2.0 .. TLS 1.1) under injectivity of the name table, which explains why only TLS 1.2 breaks.
2. Add engine builds, for example one whose modern client lists a PSK suite under a spelling that the filter misses.

# TLA+ models of the AnnChain admin console scripts

This directory holds TLA+ models of the browser scripts under `src/`:
- `src/vanntool/static/js/table.js`, the "ant" forms;
- `src/vanntool/static/js/cmds.js`, the legacy forms;
- `src/static/js/cmds.js`, the peer-initialisation page;
- `src/vanntool/static/js/crypto.js`;
- `src/vanntool/static/js/nav.js`.

It also holds the TLC configurations that check the models, and TLAPS proofs about the file-upload model. Every component the scripts define is modelled.

## 1. The system

The console renders one command form per page. The page's script reads `cmd` and `op` from the URL (`GetRequest`). It then asks `CreateCmd(cmd, op)` for a schema object, and `AddTable(schema)` renders the object into markup, one field per member, in for-in order.

There are two renderers:
- **Legacy** (`cmds.js`, and the identical copy in `src/static/js/cmds.js`) infers the widget from the field's name (`parseType`): `file`, `_list`, `_text` or an `is` prefix.
- **Ant** (`table.js`) reads the widget kind after a `|` in the schema value. Its `jointHTML` assigns the implicit global `str` in a `switch` that has no default case.

A file field `k` renders three elements:
- the input `k_dir`;
- the picker `k_file`, whose `onchange` calls `ChangeFile(k, path, files)`;
- the text area `k`, which is what gets submitted.

`ChangeFile` writes the path into `k_dir` and calls `ShowFile`. `ShowFile` starts an asynchronous `FileReader`, whose `onload` later writes the file's text into `k`. This read is the only concurrency in the system. Reads are never cancelled, their completion order is arbitrary, they may fail (there is no `onerror`), and the user can cancel the picker or edit either element at any time.

`crypto.js` pads a key to 16 characters and AES-CBC encrypts with the key as IV. `nav.js` is a jQuery accordion.

### Inventory

| Component | Code | State | Operations |
|---|---|---|---|
| Schema Registry | constructors at the top of table.js and both cmds.js | constant data | none |
| Command Factory | `CreateCmd` | none | pure |
| Field Renderer | `parseType`, `innerHTML`, `parseInput`, `parseRadio`, `acceptFile`, `jointHTML` | global `str` (table.js) | pure, except for `str` |
| Form Assembler | `AddTable` | the document | renders once per page load |
| File Ingestion | `ChangeFile`, `ShowFile` | `k_dir`, `k`, pending FileReaders | choose a file, cancel the picker, read load or error, hand edits |
| Query Parser | `GetRequest` | none | pure |
| Cipher Helper | `PaddingLeft`, `AESEncrypto`, `AESDecrypto` | global `pkey` | pure |
| Navigation menu | nav.js | open submenu, `nav-show` class, animation queue | click |

The hard behaviours, listed as hazards in `PROJECT.json`:
- reads of one field completing out of order;
- reads of several fields interleaved;
- a cancelled picker while a read is pending;
- a failed read;
- the stale global `str`;
- duplicated fixed ids;
- quoting of placeholder attributes;
- PaddingLeft's slice, the hex/Base64 mismatch in decryption, and UTF-16 versus UTF-8 key length;
- `=` inside query values;
- clicks during menu animations.

## 2. Modules

| Module | Models | Map |
|---|---|---|
| `JsDom` | `indexOf`, `split` on one character, array indexing past the end, and form elements as records of the attributes the scripts address. It also models how the HTML parser reads a single-quoted and an unquoted attribute (ended by the first quote, or by the first space). | builtin uses in the scripts |
| `LegacyForm` | the legacy schemas, `CreateCmd`, the peer page's `CreateCmd`, `parseType`, `acceptFile`, `innerHTML`, `jointHTML` and `AddTable` | cmds.js |
| `AntForm` | the ant schemas, `CreateCmd`, `parseInput`, `parseRadio`, `innerHTML` and `jointHTML`. `StrAfter` gives what `jointHTML` returns for member *i*: its own markup, or the stale `str` of the last handled member, or a throw. `AddTable` adds the hidden `cmd`/`op`/`filediv` fields and the trailer. | table.js |
| `FileIngest` | the file fields. Variables: `dir[k]` (`k_dir`), `content[k]` (text area `k`), `readers` (pending FileReaders, each with the `keyid` its closure captured), `nextId` and the history variable `picked`. | `ChangeFile`/`ShowFile` |
| `FormPage` | composes the pieces. `Init` loads a page, that is a script pair, `cmd` and `op`, and renders its form. `Next` runs the `FileIngest` actions on exactly the keys that the rendered form's `onchange` handlers pass. | |
| `QueryParser` | `GetRequest` on `location.search`: `indexOf`, `substr`, `split` on `&` and `=`, `split('=')[1]` read past the end, `unescape` of `%XX` (and of `undefined`), and assignment to a plain object, where `__proto__` goes to the prototype setter. Variables: `search`, `request` (what `GetRequest` returned), and the history variable `sent` (the parameters a followed link was built from). | table.js 402-413 (identical copies in both cmds.js) |
| `CipherHelper` | `PaddingLeft` and its implicit global `pkey`, `stringToByte` (UTF-8, as `Utf8.parse` does), the hex output of `AESEncrypto` and the Base64 parse `AES.decrypt` applies to a string. Strings are sequences of UTF-16 code units. The AES block cipher is the library boundary: PKCS7 padding and a per-key injective byte map. | crypto.js |
| `NavMenu` | the click handler of nav.js over jQuery's per-element fx queues. Variables: `display[j]` (what `css('display')` reads), `fx[j]` (queued animations, head running), `navShow`, `clicks`. | nav.js |
| `MCFileIngest`, `MCFormPage`, `MCQueryParser`, `MCCipherHelper`, `MCNavMenu` | model values and small sets for TLC | |
| `FileFieldContract` | what a file field promises (spec 4.3), with no readers: `Select` shows the chosen path and records the file, `Clear` empties the path, `Deliver` puts the text of *some* file chosen for that field into its text area, `TypeContent`/`TypeDir` are hand edits. Variables `dir`, `content`, `picked`. | spec 4.3 (abstract) |
| `NavAccordion` | the accordion that nav.js's comments describe, with no animation. Its variable `expanded` is the set of expanded items. `Expand(i)` makes it `{i}`, and `Collapse(i)` removes `i`. | nav.js comments (abstract) |
| `FileIngestProofs`, `NavMenuProofs`, `CipherHelperProofs`, `FormPageProofs` | the TLAPS proofs (section 4) | |

The actions of `FileIngest`:
- `ChangeFile(k, x)`: the picker reports file `x`. `k_dir` gets the path and a reader for `x` captures `k`.
- `ChangeFileNone(k)`: the picker is cancelled. `k_dir` gets `""`, and `readAsText(undefined)` throws, so no reader is started and `k` is untouched.
- `ReaderLoad(r)`: `onload` writes `r.file` into `r.key`.
- `ReaderError(r)`: the read fails. Nothing is written, since there is no `onerror`.
- `EditContent(k)` and `EditDir(k)`: the user types into an element.

Data is abstracted as follows:
- A file is a model value, and it stands for both its path and its text.
- Schema descriptor texts are replaced by ASCII tags that keep every straight quote and `|` of the source, because the renderer and the HTML parser react to those characters. Spaces inside a text that opens with a quote are dropped, since they cannot end such a value, and curly quotes become backticks; the unquoted ant descriptors have no spaces.
- Layout markup (`parseTableStyle`, labels, icons) is dropped: it carries no id or name.

`QueryParser` actions: `Navigate` (the user types a URL from `RawQueries`) and `FollowLink` (a link built from a parameter list with `escape`). Both load a page, which runs `GetRequest`. Link building is not under `src/` and is modelled from the spec; it is marked `spec_modelled` in the map.

`CipherHelper` actions:
- `Encrypt`: `AESEncrypto(plain, key)`. With an empty key it returns `""` before `PaddingLeft` runs.
- `Decrypt`: `AESDecrypto(cipher, key)`, which has no empty-key test.
- `NextRound`: new arguments for the next round.

`NavMenu` actions:
- `Click(i)`: `css('display')` of submenu *i* is read. If it is `none`, `slideUp` is queued on every submenu, then `slideDown` on *i*, and `nav-show` is set on *i* alone. Otherwise `slideUp` is queued on *i* and `nav-show` is removed from every item. An animation queued on an idle element starts at once.
- `Complete(j)`: the running animation of *j* completes, and the next one in its queue starts. `slideDown` shows the element when it starts; `slideUp` hides it when it completes. An animation that finds the element already in its target state still takes its 300 ms.

A behaviour of `FormPage` is the life of one page. Loading another page replaces the document and its pending readers, so page switches do not interact.

## 3. Runs

| Run | Bounds | Result |
|---|---|---|
| `ingest_safety` | 2 fields, 2 files, 3 reads, reads may fail | pass. Checks `TypeOK`, `ContentProvenance` (a text area only holds `""`, typed text, or a file chosen with *its own* picker) and `ImplementsContract`: the model implements `FileFieldContract` under the identity mapping of `dir`, `content` and `picked`, with the readers hidden. |
| `ingest_liveness` | same bounds, reads do not fail | pass. `PickedFileArrives`: once a file is chosen for `k`, `k` is eventually non-empty. |
| `ingest_shown` | same bounds, reads may fail | violation of `SubmittedFileShown`: with no read of `k` pending, `k` can hold a file that `k_dir` does not show. TLC's trace: choose f1 and cancel; the read still lands, so the form shows no file but submits f1's text. The race gives the same result: choose f1, then f2; f2 loads, then f1 loads, so `k_dir` shows f2 and `k` holds f1. So does a failed read: choose f1, it loads, choose f2, its read fails (there is no `onerror`), so `k_dir` shows f2 and `k` holds f1. |
| `page` | all three script pairs, every `cmd` and `op` value of the code plus an unknown one and `undefined`, 2 reads | pass. Checks `UniqueIds`, `FieldsSubmitted` (every schema member has a control submitting under its name; the pending reads exercise the stale `str`), `FileWiring` (every `onchange` key has its `k_dir` and text area `k`) and `AntPlaceholderIntact` (on ant pages each free-text input shows its descriptor's text). |
| `page_spec` | same | violation of `PlaceholderIntact`, spec 4.2's "a free-text input shows its descriptor", on every page. TLC's trace is the initial state of the legacy `jvm`/`call` page: `innerHTML` writes `placeholder='`descriptor`'` unescaped (cmds.js:213), and the `params` descriptor `ikhofi函数执行参数('参数1','参数2',..)` ends the attribute at its first `'`. |
| `query` | 11 typed queries; links over 3 keys with values holding `=`, `&`, `%` and a space | pass. `LinkRoundTrip`: a page reached by a link built with `escape` gets back exactly its parameters. `LastWriteWins`: on duplicate keys the value of the last pair survives. |
| `query_spec` | same | violation of `MatchesParseQuery`, which compares `GetRequest` with `ParseQuery`, the spec 4.6 reference. TLC's trace is the initial state `?op=a=b`: `split('=')[1]` gives `"a"`, where the spec splits on the first `=` and keeps `"a=b"`. The same property also rejects `?op` and `?cmd=evm&op` (the string `"undefined"` from `unescape(undefined)`, where spec 8 says `undefined`) and `?__proto__=x&cmd=evm` (no `__proto__` key); those are the other states TLC would report. |
| `cipher_ascii_key` | keys of 0, 1, 2, 5, 15, 16, 17, 20 and 16+4 units, ASCII, with `é` and with U+4E2D; plaintexts of 0, 1 and 16 units | pass. `AsciiKeyPadded`: an ASCII key of at most 16 characters becomes the spec's 16-byte key. `ShortKeyPaddedUnits`: in every round, a normalised key of at most 16 code units leaves `pkey` as 16 units, `'0'`s followed by the key. This is the code-unit half of `AsciiKeyPadded`, and it is proved. |
| `cipher_key_spec` | same | violation of `KeyNormalisation`. `é` plus 4 ASCII characters becomes 17 bytes, and a 17-character key keeps only its 17th character (`slice(16)`). |
| `cipher_round_trip` | same | violation of `RoundTrip`. The hex ciphertext is parsed as Base64 by `AES.decrypt`. |
| `nav` | 3 items, 4 clicks at any point of the animations | pass. `AccordionOneOpen`: when no animation is queued, at most one submenu is shown. `NavIInv`: its inductive strengthening, checked here before it was proved. `ImplementsAccordion`: the handler implements `NavAccordion` when `expanded` is the set of submenus whose queued animations end open. |
| `nav_show` | same | violation of `NavShowMarksOpen`. Open *a*, click *b*, then click *a* while it still slides up: *a*'s display is still `block`, so the close branch runs and removes `nav-show` from *b*. *b* ends open with no `nav-show`. |

Why these bounds are enough:
- Two fields and two files are the least that can show cross-field delivery and a race on one field.
- Three reads allow two on one field plus one on the other.
- Query values cover every character `escape` must encode, and the typed queries cover each branch of the parse: no `?` (also what `location.search` reports for a URL ending in a bare `?`), pairs with no `=`, one `=` and two `=`, an empty value, duplicates, an escape, and `__proto__`.
- Cipher keys sit on every side of the boundaries of `PaddingLeft` (below, at and above 16 units), in 1-, 2- and 3-byte UTF-8 characters.
- Three menu items let one click cross the running animations of two others. Four clicks reach the open/close/open sequence on two items with a third submenu's queue in flight.
- The page runs enumerate every schema of the code, so their form properties are checked exhaustively, not sampled.

Fairness: `WF` on the completion of each read (`Settle(i)`), used by `PickedFileArrives` only. The browser finishes every `readAsText` it started, with either load or error. Nothing else is assumed: the user need never act. `NavMenu` assumes no fairness and checks no liveness: that queued animations finish is jQuery's timer, not nav.js. `PickedFileArrives` runs with reads that do not fail: spec 5 says a failed read is not retried, so with failures no arrival is promised.

Each passing property has a mutant, listed in `PROJECT.json`, that TLC catches. The mutants are:
- `onload` using a shared key;
- a read started after a cancel;
- a missing `text` case in the ant switch;
- a file row copied twice;
- a missing text-area row;
- the whole `'text'|input` value passed as the placeholder;
- `unescape` that does not decode, and a `GetRequest` loop that stops one pair early;
- `PaddingLeft` one zero short (it breaks both cipher properties);
- an open branch that does not slide up the other submenus (it breaks `AccordionOneOpen`, `NavIInv` and `ImplementsAccordion`);
- `onload` using a shared key also breaks `ImplementsContract`.

## 4. Proofs

TLAPS proves the following for every value of the constants. TLC first checks each invariant as part of a run.

### `FileIngestProofs`

Assumption: `ConstantsAssumption`. It states that `MaxReads \in Nat`, that `ReadsMayFail` is a Boolean, and that `Empty` and `Typed` are distinct and are not files.

- **`TypeCorrect`**, `Spec => []TypeOK`. `NextTypeOK` has one step per action.
- **`Provenance`**, `Spec => []ContentProvenance`.
  - `ContentProvenance` alone is not inductive: a pending reader could carry a file never chosen for its key, and loading it would break the invariant.
  - The strengthening is `IInv == TypeOK /\ ContentProvenance /\ ReadersProvenance`. It adds that every pending reader's file was chosen for the key the reader captured.
  - `InitIInv` and `NextIInv` prove it inductive; the lemma `IInvariant` states `Spec => []IInv`.
- **`Refinement`**, `Spec => ImplementsContract`: `FileIngest` implements `FileFieldContract`.
  - The mapping is the identity on `dir`, `content` and `picked`. `readers` and `nextId` are hidden.
  - Initial states map to initial states.
  - `NextContract` proves that each step, under `IInv`, is a step or a stutter of the contract:
    - `ChangeFile` is `Select`, and `ChangeFileNone` is `Clear`;
    - the edits are `TypeContent` and `TypeDir`;
    - `ReaderError` is a stutter;
    - `ReaderLoad(r)` is `Deliver(r.key)`. The witness is `r.file`, and `ReadersProvenance` gives `r.file \in picked[r.key]`. This is why the refinement rests on the inductive invariant, not on `TypeOK`.

### `NavMenuProofs`

Assumption: `NavAssumption`, that is `MaxClicks \in Nat` and a non-empty set of items.

- **`NavIInvariant`**, `Spec => []NavIInv`.
  - `AccordionOneOpen` is not inductive: it says nothing while animations are queued, and a click in that window queues new ones.
  - `Destined(j)` is the display submenu *j* will have once its queue drains: the display the last queued animation leaves, or the current display.
  - `NavIInv == TypeOK /\ OneDestinedOpen` says at most one submenu is destined to be open.
  - An opening click appends `slideUp` to every other queue and `slideDown` to its own. A closing click appends `slideUp`. A completion removes the head of a queue, which leaves the last element, and so `Destined`, unchanged.
  - Lemmas about the queue operators: `AppendLast` (the last element of `Append(s, a)` is `a`) and `TailLast` (`Tail` keeps the last element of a queue of length 2 or more).
- **`AccordionSafe`**, `Spec => []AccordionOneOpen`. When every queue is empty, `Destined` is the display. `IInvAccordion` turns "at most one" into the cardinality bound, using `FS_EmptySet` and `FS_Singleton`.

### `NavMenuProofs`: refinement

- **`Accordion`**, `Spec => ImplementsAccordion`. The refinement mapping is `expanded <- Expanded`, the set of items whose `Destined` display is `block`.
  - The initial state maps to `expanded = {}`.
  - `NextAccordion` proves that each step, under `NavIInv`, maps to an abstract step or a stutter:
    - an opening click is `Expand(i)`;
    - a closing click is `Collapse(i)`;
    - a completion changes nothing.
  - It rests on three lemmas that the invariant proof also uses:
    - `ClickOpens`: after an opening click, every queue ends in `slideUp` except the clicked one, which ends in `slideDown`;
    - `ClickCloses`: after a closing click, the clicked queue ends in `slideUp` and the others are untouched;
    - `CompleteKeeps`: a completion keeps the last element of the queue.
- The abstract spec leaves open which branch a click takes. The handler decides from the `display` it reads, which may lag behind a queued animation, so a click on a submenu that is still sliding up closes it, although its comment says it expands a collapsed item. The `nav_show` violation is one consequence.

### `CipherHelperProofs`

Assumption: `StrAssumption`, which says keys and plaintexts are strings.

- **`PaddingLeftShort`** (lemma): for a key of at most `length` units, `PaddingLeft` has exactly `length` units, `'0'`s followed by the key.
- **`PaddingLeftLong`** (lemma): a longer key becomes `SubSeq(k, length + 1, Len(k))`.
- **`SliceKeepsHeadless`**: every key of 17 to 31 units pads to fewer than 16 units, so never to its trailing 16. The `cipher_key_spec` finding therefore holds for every such length, not only for the lengths TLC tries.
- **`ShortKeyPadded`**, `Spec => []ShortKeyPaddedUnits`: a normalised key of at most 16 units leaves `pkey` as 16 units, `'0'`s followed by the key.
  - It rests on `PIInv`, which adds `PkeyCurrent`: once this round's key has been normalised, the global `pkey` is `PaddingLeft(key, 16)`.
  - `Encrypt` and `Decrypt` both reassign `pkey`. `NextRound` clears `cipher`, so a stale `pkey` of an earlier round is never taken for this round's key.

### `FormPageProofs`

Assumptions:
- `IngestAssumption`, the same condition as `FileIngest`'s `ConstantsAssumption`, on the constants the page passes on;
- `FileFieldsAssumption`: every rendered form's `onchange` keys are in `FileFields`.

The inductive invariant is `FPInv == PageInv /\ FI!IInv`. `PageInv` says the form on screen is `Render` of the pair the page was loaded with, which never changes.

- **`PageStep`** (lemma): every page step is a `FileIngest` step on `FileFields`, or a stutter, and leaves `pageVars` unchanged. This holds because `FileKeysOf(form) \subseteq FileFields`.
- **`PageRunsIngest`**, `Spec => FI!Init /\ [][FI!Next]_FI!vars`.
- **`PageProvenance`**, `Spec => []FI!ContentProvenance`, and **`PageContract`**, `Spec => FI!ImplementsContract`.
  - These reuse `InitIInv`, `NextIInv` and `NextContract` of `FileIngestProofs` through `FIP == INSTANCE FileIngestProofs WITH FileKeys <- FileFields`.
  - The instantiated lemmas carry `FileIngest`'s constant assumption as a hypothesis, which `IngestAssumption` discharges.
  - `SameIngest` identifies `FormPage`'s `FI!` definitions with `FIP!` ones.

### What stays with TLC only

- **Liveness** (`PickedFileArrives`). The prover does not handle fairness and `ENABLED`.
- **The form properties** (`UniqueIds`, `FieldsSubmitted`, `FileWiring`, `AntPlaceholderIntact`).
  - They are about concrete markup strings and the schema tables.
  - A proof would evaluate `AddTable` on every schema, through `Split`, `SetToSortSeq` and string concatenation, and the provers do not evaluate those.
  - TLC checks them over every schema the code has.
  - What is proved about the page is its composition with the file fields.
- **The conversions.** `LinkRoundTrip` and `LastWriteWins` (QueryParser) rest on `unescape`, `Split` and the `GetRequest` loop. `AsciiKeyPadded` rests on `stringToByte`, which is a `FlattenSeq` fold.
  - These are recursive functions over strings. What they compute for every input needs induction over data, and the library's induction theorems take an operator parameter that the installed provers cannot instantiate.
  - `ShortKeyPaddedUnits` is the part of `AsciiKeyPadded` that needs no such induction, and it is proved.

## 5. Not modelled, and why

- **Composing `QueryParser` into `FormPage`.** No script under `src/` calls `GetRequest`: the page templates that call it and pass `cmd` and `op` to `CreateCmd` are not in the repository. `FormPage` therefore enumerates every `(cmd, op)` value directly, including an unknown one and `undefined`. An unknown string stands for every unmatched value `GetRequest` can return, including the string `"undefined"` that the `query_spec` run shows.
- **The commented-out encrypt** at the top of crypto.js is dead code.
- **The AES block cipher and CryptoJS internals** are a library, not code of this repository. Only the contract the helper relies on is modelled: PKCS7 padding and a per-key injective map.
- **Key-as-IV.** Reusing the key as the IV is a documented design weakness (spec 4.5). It is a cryptographic property, not one of states and steps.
- **The rest of the spec 4.2/4.4/8 form contract.** Two further disagreements are visible in the renderers as modelled but have no run of their own: the legacy `AddTable` (cmds.js:251-262) emits no hidden `cmd`, `op` or `filediv` input, which spec 8 requires once each; and a boolean field has no control with the field's name as id (`k_T`/`k_F` on legacy pages, none on ant pages, table.js:213), which spec 4.2 requires.
- **An edit racing a read** (table.js:396). A read that lands after a hand edit silently replaces the edit. The model explores this interleaving, but neither the code nor the spec says which should win, so no property judges it.
